-------------------------- MODULE PhoneTradingProofs --------------------------
(***************************************************************************)
(* That a tap opens once, that the screen adds to no position and marks    *)
(* none falsely unless something came between it and the account, and that *)
(* a reversal is not reported: for all markets, taps, visits and trips.    *)
(*                                                                         *)
(* The inductive invariant has three storeys.  The first holds whatever    *)
(* happens: requests and acts carry the tap they are of, and a tap that    *)
(* may still open has not opened.  The second holds until the screen is    *)
(* deceived: there is one position of the strategy's at most, none while   *)
(* an open is on its way, and what the screen shows has every position of  *)
(* the strategy's.  The third holds while nothing at all came between:     *)
(* what was reversed has a successor that a search would find first.       *)
(***************************************************************************)
EXTENDS PhoneTrading, FiniteSetTheorems, WellFoundedInduction, TLAPS

-----------------------------------------------------------------------------
(* Types *)

Kinds == {"none", "up", "down", "close", "reverse", "amend"}
Owners == {"none", "mine", "other", "nobody"}
Ats == {"idle", "sent", "done", "failed", "error", "cooldown", "refresh"}
Positions == [trip : 0 .. MaxTrips, owner : Owners, side : Sides, onSignal : BOOLEAN,
              size : Nat]
Snapshots == [Markets -> Positions] \cup {Unknown}
Requests == [kind : {"open", "close", "amend"}, market : Markets, side : Sides,
             lit : BOOLEAN, tap : 1 .. MaxTaps, stage : 1 .. 3]
Trips == [trip : 1 .. MaxTrips, market : Markets, owner : Owners, by : 0 .. MaxTaps]
Acts == [kind : Kinds, at : Ats, stage : 0 .. 3, market : Markets \cup {NoMarket},
         side : Sides, tap : 0 .. MaxTaps, trip : 0 .. MaxTrips]
Answers == [at : {"idle", "asked", "answered"}, snap : Snapshots, stamp : Nat]
Looks == [on : BOOLEAN, by : {"none", "order", "opened"}, trip : 0 .. MaxTrips,
          market : Markets \cup {NoMarket}, tries : 0 .. Attempts - 1]

AccountTypes ==
    /\ venue \in [Markets -> Positions]
    /\ \A m \in Markets : venue[m].trip = 0 <=> venue[m] = NoPosition
    /\ journal \in SUBSET Trips
    /\ stamp \in Nat
    /\ wire \in SUBSET Requests
ScreenTypes ==
    /\ place \in {"strategy", "lobby", "result"}
    /\ visit \in Visits
    /\ state \in Snapshots
    /\ shown \in Nat
    /\ chosen \in Markets
    /\ mark \in Markets \cup {NoMarket}
    /\ got \in [market : Markets \cup {NoMarket}, side : {"none"} \cup Sides]
    /\ asking \in Sides \cup {"none"}
    /\ reversing \in 0 .. MaxTrips
    /\ was \in 0 .. MaxTrips
    /\ result \in 0 .. MaxTrips
ActTypes ==
    /\ act \in [Visits -> Acts]
    /\ asks \in [{"poll", "act"} -> Answers]
    /\ look \in [Visits -> Looks]
    /\ taps \in 0 .. MaxTaps
    /\ opened \in [1 .. MaxTaps -> Nat]
    /\ mishaps \in SUBSET Mishaps
Typed == AccountTypes /\ ScreenTypes /\ ActTypes

-----------------------------------------------------------------------------
(* What holds whatever happens *)

(* Taps are counted: nothing is of one that is not there yet. *)
TapsAreCounted ==
    /\ \A r \in wire : r.tap <= taps
    /\ \A v \in Visits : act[v].tap <= taps
    /\ \A j \in journal : j.by <= taps
    /\ \A t \in 1 .. MaxTaps : t > taps => opened[t] = 0

(* An act is none, or has a tap of its own. *)
ActsAreTheirTaps ==
    /\ \A v \in Visits : act[v].kind = "none" => act[v] = NoAct
    /\ \A v \in Visits : act[v].kind # "none" => act[v].tap # 0 /\ act[v].stage # 0
    /\ \A v, w \in Visits : act[v].tap = act[w].tap /\ act[v].tap # 0 => v = w
    /\ \A v \in Visits : v > visit => act[v] = NoAct
    /\ asking = "none" \/ reversing = 0
    /\ asking # "none" \/ reversing # 0 => act[visit] = NoAct
    /\ asks["act"].at # "idle" => act[visit].at = "refresh" /\ place = "strategy"
    /\ \A v \in Visits : act[v].kind # "none" => act[v].market \in Markets
    /\ \A v \in Visits : act[v].stage \in 2 .. 3 => act[v].kind = "reverse"

RequestKind(a) ==
    CASE a.kind \in Sides -> "open"
      [] a.kind = "reverse" -> IF a.stage = 1 THEN "close" ELSE "open"
      [] OTHER -> a.kind

(* A request on its way is the one of its tap, and of the act that waits.  *)
RequestsAreTheirActs ==
    /\ \A r, q \in wire : r.tap = q.tap => r = q
    /\ \A r \in wire : \A v \in Visits :
          r.tap = act[v].tap =>
             /\ r.stage = act[v].stage /\ r.market = act[v].market
             /\ r.kind = RequestKind(act[v])
             /\ act[v].at \notin {"done", "failed", "cooldown"}
    /\ \A r \in wire : r.kind # "open" => r.stage = 1

(* A tap that may still open has not. *)
OpensAreSpent ==
    /\ \A t \in 1 .. MaxTaps : opened[t] <= 1
    /\ \A r \in wire : opened[r.tap] = 0
    /\ \A v \in Visits :
          /\ act[v].kind = "close" => opened[act[v].tap] = 0
          /\ act[v].kind = "reverse" /\ act[v].stage = 1 => opened[act[v].tap] = 0
          /\ act[v].at = "cooldown" => opened[act[v].tap] = 0

(* The taps that closed and will never open. *)
Dead(t) ==
    /\ t \in 1 .. taps /\ opened[t] = 0
    /\ \A r \in wire : r.tap = t => r.kind # "open"
    /\ \A v \in Visits : act[v].tap = t => act[v].kind # "reverse"

(* What an order is said to have closed, it closed. *)
OrdersClosed ==
    /\ \A v \in Visits :
          act[v].trip # 0 =>
             /\ act[v].kind = "close" \/ (InReverse(v, {1}) /\ act[v].at = "done")
             /\ \E j \in journal : j.trip = act[v].trip /\ j.by = act[v].tap
    /\ \A v \in Visits :
          look[v].on /\ look[v].by = "order" =>
             \E j \in journal : j.trip = look[v].trip /\ j.by # 0 /\ Dead(j.by)
    /\ \A v \in Visits : look[v].on <=> look[v].by # "none"
    /\ \A j \in journal : \A v \in Visits :
          j.by # 0 /\ j.by = act[v].tap =>
             /\ act[v].kind \in {"close", "reverse"}
             /\ j.market = act[v].market
    /\ \A j \in journal : \A r \in wire :
          j.by = r.tap => r.kind = "open" /\ j.market = r.market

(* Trips are numbered as they come, each once. *)
TripsOf == {venue[m].trip : m \in {n \in Markets : venue[n].trip # 0}}
           \cup {j.trip : j \in journal}
TripsAreNumbered ==
    /\ \E n \in 0 .. MaxTrips : TripsOf = 1 .. n
    /\ \A m, n \in Markets : venue[m].trip = venue[n].trip /\ venue[m].trip # 0 => m = n
    /\ \A i, j \in journal : i.trip = j.trip => i = j
    /\ \A m \in Markets : \A j \in journal : venue[m].trip # j.trip

Books ==
    /\ TapsAreCounted /\ ActsAreTheirTaps /\ RequestsAreTheirActs /\ OpensAreSpent
    /\ OrdersClosed /\ TripsAreNumbered

-----------------------------------------------------------------------------
(* What holds until the screen is deceived *)

Mine(m) == venue[m].owner = "mine"
Flat == \A m \in Markets : ~Mine(m)
Covers(s) == \A m \in Markets : Mine(m) => s[m].owner = "mine"

(* Only the visit there is has something under way, and waits for it. *)
OneAtWork ==
    /\ \A v \in Visits : v # visit \/ place # "strategy" => act[v] = NoAct
    /\ \A r \in wire : r.tap = act[visit].tap /\ act[visit].at = "sent"

(* An open is on its way, or will be. *)
Opening ==
    \/ act[visit].kind \in Sides /\ act[visit].at = "sent"
    \/ act[visit].kind = "reverse" /\ act[visit].stage = 1 /\ act[visit].at = "done"
    \/ act[visit].kind = "reverse" /\ act[visit].stage # 1
          /\ act[visit].at \in {"sent", "cooldown"}

OneOfMine ==
    /\ \A m, n \in Markets : Mine(m) /\ Mine(n) => m = n
    /\ \A m \in Markets : venue[m].size <= 1
    /\ \A m \in Markets : venue[m].trip # 0 => venue[m].owner # "none"
    /\ Opening => Flat

(* The screen shows each, but while the answer of the act that opened it   *)
(* is on the way; and one that does not show it is older than that answer. *)
Opened == act[visit].kind \in Sides \cup {"reverse"} /\ act[visit].at \in {"done", "refresh"}
Older(n) ==
    \/ asks["act"].at = "answered" /\ Opened /\ n < asks["act"].stamp
    \/ asks["act"].at # "answered" /\ Opened /\ n < stamp
    \/ n < shown
ShownIsAll ==
    /\ shown <= stamp
    /\ \A who \in {"poll", "act"} : asks[who].at = "answered" =>
          asks[who].stamp <= stamp /\ asks[who].snap # Unknown
    /\ state # Unknown => Covers(state) \/ Opened
    /\ asks["act"].at = "answered" => Covers(asks["act"].snap)
    /\ asks["poll"].at = "answered" => Covers(asks["poll"].snap) \/ Older(asks["poll"].stamp)

(* The mark is of an entry that followed a signal, on its way or there. *)
MarksAreTrue ==
    /\ \A r \in wire : r.kind = "open" /\ mark = r.market => r.lit
    /\ act[visit].kind = "reverse" => mark = NoMarket
    /\ \A m \in Markets : Mine(m) /\ mark = m => venue[m].onSignal

Undeceived == OneAtWork /\ OneOfMine /\ ShownIsAll /\ MarksAreTrue

-----------------------------------------------------------------------------
(* What holds while nothing came between *)

Turned(j) == j.by # 0 /\ opened[j.by] = 1
Followed(j) == \E i \in journal : i.owner = "mine" /\ i.market = j.market /\ i.trip > j.trip
Searching == \E v \in Visits : look[v].by = "opened"

Successors ==
    /\ \A j \in journal : Turned(j) =>
          \/ Followed(j)
          \/ /\ Mine(j.market) /\ venue[j.market].trip > j.trip
             /\ ~Searching /\ act[visit].kind \notin Sides
    /\ place = "result" => \A j \in journal : j.trip = result => ~Turned(j)

IInv ==
    /\ Typed /\ Books
    /\ ~Deceived => Undeceived
    /\ mishaps = {} => Successors

-----------------------------------------------------------------------------
(* What the screen reads *)

(* The markets are numbered from one: no market is none of them. *)
LEMMA NoneIsNoMarket ==
    ASSUME PhoneAssumption
    PROVE  NoMarket \notin Markets /\ Markets \subseteq Nat /\ Markets # {}
BY DEF PhoneAssumption, NoMarket

(* Some numbers have a smallest. *)
LEMMA SmallestExists ==
    ASSUME NEW S, S \subseteq Nat, S # {}
    PROVE  \E m \in S : \A n \in S : m <= n
<1>1. IsWellFoundedOn(OpToRel(<, Nat), Nat)
  BY NatLessThanWellFounded
<1>2. PICK m \in S : \A y \in S : ~ (<<y, m>> \in OpToRel(<, Nat))
  BY <1>1, WFMin
<1>3. \A y \in S : ~ (y < m)
  BY <1>2 DEF OpToRel
<1> QED BY <1>3

(* And, below a bound, a largest. *)
LEMMA LargestExists ==
    ASSUME NEW S, NEW n \in Nat, S \subseteq 0 .. n, S # {}
    PROVE  \E m \in S : \A k \in S : k <= m
<1> DEFINE T == {n - k : k \in S}
<1>1. T \subseteq Nat /\ T # {}
  <2>1. \A k \in S : n - k \in Nat
    OBVIOUS
  <2> QED BY <2>1
<1>2. PICK t \in T : \A u \in T : t <= u
  <2> HIDE DEF T
  <2> QED BY <1>1, SmallestExists
<1>3. PICK m \in S : t = n - m
  OBVIOUS
<1>4. ASSUME NEW k \in S PROVE k <= m
  <2>1. n - k \in T
    OBVIOUS
  <2>2. n - m <= n - k
    BY <2>1, <1>2, <1>3
  <2> QED BY <2>2
<1> QED BY <1>4

(* The first of some markets is one of them. *)
LEMMA FirstIsOne ==
    ASSUME PhoneAssumption, NEW S, S \subseteq Markets, S # {}
    PROVE  First(S) \in S
<1>1. \E m \in S : \A n \in S : m <= n
  BY NoneIsNoMarket, SmallestExists
<1> QED BY <1>1 DEF First

(* A state that was read has every market, the unknown one none. *)
LEMMA DomainsOfSnapshots ==
    ASSUME PhoneAssumption, NEW s \in Snapshots
    PROVE  /\ s = Unknown => DOMAIN s = {}
           /\ s # Unknown => s \in [Markets -> Positions] /\ DOMAIN s = Markets
           /\ [Markets -> Positions] \subseteq Snapshots /\ Unknown \in Snapshots
BY NoneIsNoMarket DEF Snapshots, Unknown

(***************************************************************************)
(* The position shown is one of the strategy's wherever there is one, and  *)
(* else nobody's on the chosen market.                                     *)
(***************************************************************************)
LEMMA PositionIs ==
    ASSUME PhoneAssumption, NEW s \in Snapshots, NEW ch \in Markets
    PROVE  /\ PositionIn(s, ch) \in Markets \cup {NoMarket}
           /\ PositionIn(s, ch) # NoMarket =>
                 /\ s # Unknown /\ s \in [Markets -> Positions]
                 /\ s[PositionIn(s, ch)].owner \in {"mine", "nobody"}
           /\ PositionIn(s, ch) = NoMarket =>
                 \A m \in DOMAIN s : s[m].owner # "mine"
<1> DEFINE own == {m \in DOMAIN s : s[m].owner = "mine"}
<1>1. own \subseteq Markets
  BY DomainsOfSnapshots
<1>2. DOMAIN s \subseteq Markets
  BY DomainsOfSnapshots
<1>3. CASE own # {}
  <2>1. First(own) \in own
    BY <1>1, <1>3, FirstIsOne
  <2>2. PositionIn(s, ch) = First(own)
    BY <1>3 DEF PositionIn
  <2>3. s # Unknown
    BY <1>3, DomainsOfSnapshots
  <2> HIDE DEF own
  <2>4. First(own) \in Markets /\ First(own) # NoMarket
    BY <2>1, <1>1, NoneIsNoMarket
  <2>5. s[First(own)].owner = "mine"
    BY <2>1 DEF own
  <2> QED BY <2>2, <2>3, <2>4, <2>5, DomainsOfSnapshots
<1>4. CASE own = {} /\ ch \in DOMAIN s /\ s[ch].owner = "nobody"
  <2>1. PositionIn(s, ch) = ch
    BY <1>4 DEF PositionIn
  <2>2. s # Unknown
    BY <1>4, DomainsOfSnapshots
  <2> QED BY <2>1, <2>2, <1>4, DomainsOfSnapshots, NoneIsNoMarket
<1>5. CASE own = {} /\ ~(ch \in DOMAIN s /\ s[ch].owner = "nobody")
  <2>1. PositionIn(s, ch) = NoMarket
    BY <1>5 DEF PositionIn
  <2> QED BY <2>1, <1>5
<1> QED BY <1>3, <1>4, <1>5

(* So a position shown is a position, of a trip. *)
LEMMA ShownPosition ==
    ASSUME PhoneAssumption, NEW s \in Snapshots, NEW ch \in Markets
    PROVE  /\ PositionIn(s, ch) # NoMarket =>
                 /\ PositionIn(s, ch) \in Markets
                 /\ s[PositionIn(s, ch)] \in Positions
                 /\ s[PositionIn(s, ch)].trip \in 0 .. MaxTrips
                 /\ s[PositionIn(s, ch)].side \in Sides
           /\ s # Unknown /\ PositionIn(s, ch) = NoMarket => \A m \in Markets : s[m].owner # "mine"
<1>1. CASE PositionIn(s, ch) # NoMarket
  <2>1. PositionIn(s, ch) \in Markets /\ s \in [Markets -> Positions]
    BY <1>1, PositionIs
  <2>2. s[PositionIn(s, ch)] \in Positions
    BY <2>1
  <2> QED BY <2>1, <2>2, <1>1 DEF Positions
<1>2. CASE PositionIn(s, ch) = NoMarket
  BY <1>2, PositionIs, DomainsOfSnapshots
<1> QED BY <1>1, <1>2

(* The market the screen is about. *)
LEMMA SymbolIs ==
    ASSUME PhoneAssumption, Typed
    PROVE  symbol \in Markets /\ position \in Markets \cup {NoMarket}
<1>1. position \in Markets \cup {NoMarket}
  BY PositionIs DEF position, Typed, ScreenTypes
<1> QED BY <1>1 DEF symbol, Typed, ScreenTypes

(* A search begun, or not. *)
LEMMA LookingTypes ==
    ASSUME PhoneAssumption, look \in [Visits -> Looks], NEW v \in Visits,
           NEW by \in {"order", "opened"}, NEW trip \in 0 .. MaxTrips,
           NEW m \in Markets \cup {NoMarket}
    PROVE  Looking(v, by, trip, m) \in [Visits -> Looks]
<1>1. 0 \in 0 .. Attempts - 1
  BY DEF PhoneAssumption
<1>2. [on |-> TRUE, by |-> by, trip |-> trip, market |-> m, tries |-> 0] \in Looks
  BY <1>1 DEF Looks
<1> QED BY <1>2 DEF Looking

(* A render leaves the screen typed. *)
LEMMA RenderTypes ==
    ASSUME PhoneAssumption, Typed, NEW s \in Snapshots, NEW doing,
           NEW closed \in 0 .. MaxTrips, Render(s, doing, closed)
    PROVE  /\ state' \in Snapshots /\ was' \in 0 .. MaxTrips /\ chosen' \in Markets
           /\ mark' \in Markets \cup {NoMarket} /\ look' \in [Visits -> Looks]
<1> USE DEF Typed, ScreenTypes, ActTypes
<1>1. state' \in Snapshots
  BY DEF Render
<1>2. was' \in 0 .. MaxTrips
  <2>1. 0 \in 0 .. MaxTrips
    BY DEF PhoneAssumption
  <2> QED BY <2>1, ShownPosition DEF Render
<1>3. chosen' \in Markets
  <2> DEFINE free == {m \in Markets : ~Held(s, chosen, m)}
  <2>1. free # {} => First(free) \in Markets
    <3>1. free \subseteq Markets
      OBVIOUS
    <3> HIDE DEF free
    <3> QED BY <3>1, FirstIsOne
  <2>2. PositionIn(s, chosen) # NoMarket => PositionIn(s, chosen) \in Markets
    BY PositionIs
  <2>3. chosen' \in {PositionIn(s, chosen), First(free), chosen}
         /\ (chosen' = PositionIn(s, chosen) => PositionIn(s, chosen) # NoMarket \/ chosen' = chosen \/ (free # {} /\ chosen' = First(free)))
         /\ (chosen' = First(free) => free # {} \/ chosen' = chosen \/ (PositionIn(s, chosen) # NoMarket /\ chosen' = PositionIn(s, chosen)))
    BY DEF Render
  <2> HIDE DEF free
  <2> QED BY <2>1, <2>2, <2>3
<1>4. mark' \in Markets \cup {NoMarket}
  BY DEF Render
<1>5. look' \in [Visits -> Looks]
  <2>1. visit \in Visits /\ chosen \in Markets \cup {NoMarket} /\ was \in 0 .. MaxTrips
    OBVIOUS
  <2>2. Looking(visit, "order", closed, chosen) \in [Visits -> Looks]
    BY <2>1, LookingTypes
  <2>3. Looking(visit, "opened", was, chosen) \in [Visits -> Looks]
    BY <2>1, LookingTypes
  <2> QED BY <2>2, <2>3 DEF Render
<1> QED BY <1>1, <1>2, <1>3, <1>4, <1>5

-----------------------------------------------------------------------------
(* The kinds of step *)

(* The steps of the platform, of the phone and of its user, one by one. *)
LEMMA StepsAre ==
    ASSUME [Next]_vars
    PROVE  \/ \E m \in Markets : PlatformEnds(m)
           \/ \E m \in Markets : OthersOpen(m)
           \/ \E r \in wire : ExecuteOpen(r)
           \/ \E r \in wire : ExecuteClose(r)
           \/ \E r \in wire : ExecuteAmend(r)
           \/ \E r \in wire : Refuse(r)
           \/ AnswerAct \/ Poll \/ PollFails \/ ReadSignal
           \/ TakePoll \/ TakeAct \/ ActPollFails
           \/ \E side \in Keys : Tap(side)
           \/ ConfirmOpen \/ CloseNow \/ Amend \/ ConfirmReverse
           \/ \E m \in Markets : Choose(m)
           \/ Dismiss \/ AskReverse \/ Leave \/ Return
           \/ \E v \in Visits : AfterClose(v)
           \/ \E v \in Visits : Retry(v)
           \/ \E v \in Visits : Succeeded(v)
           \/ \E v \in Visits : Failed(v)
           \/ \E v \in Visits : GoToResult(v)
           \/ \E v \in Visits : LookAgain(v)
           \/ \E v \in Visits : LoseAnswer(v)
           \/ UNCHANGED vars
BY DEF Next, Others, Platform, Handle, User, Continue, Phone, Faults

-----------------------------------------------------------------------------
(* Types *)

(* How many trips there have been, and that the next is new. *)
LEMMA NextTripIsNew ==
    ASSUME PhoneAssumption, Typed, TripsAreNumbered
    PROVE  /\ NextTrip \in Nat \ {0}
           /\ TripsOf = 1 .. (NextTrip - 1)
           /\ \A m \in Markets : venue[m].trip < NextTrip
           /\ \A j \in journal : j.trip < NextTrip
<1>1. PICK n \in 0 .. MaxTrips : TripsOf = 1 .. n
  BY DEF TripsAreNumbered
<1>2. n \in Nat
  BY DEF PhoneAssumption
<1>3. Cardinality(1 .. n) = n
  <2>1. \A a, b \in Int : Cardinality(a .. b) = IF a > b THEN 0 ELSE b - a + 1
    BY FS_Interval
  <2> QED BY <2>1, <1>2
<1>4. NextTrip = n + 1
  BY <1>1, <1>3 DEF NextTrip, TripsOf
<1>5. \A m \in Markets : venue[m].trip # 0 => venue[m].trip \in TripsOf
  BY DEF TripsOf
<1>6. \A j \in journal : j.trip \in TripsOf
  BY DEF TripsOf
<1>7. \A m \in Markets : venue[m].trip < NextTrip
  BY <1>1, <1>2, <1>4, <1>5
<1> QED BY <1>1, <1>2, <1>4, <1>6, <1>7

(* The positions of a venue are positions, the trips of a journal trips. *)
LEMMA PartsAreTyped ==
    ASSUME PhoneAssumption, Typed
    PROVE  /\ \A m \in Markets :
                 /\ venue[m] \in Positions /\ venue[m].trip \in 0 .. MaxTrips
                 /\ venue[m].owner \in Owners /\ venue[m].size \in Nat
                 /\ venue[m].onSignal \in BOOLEAN /\ venue[m].side \in Sides
           /\ \A j \in journal :
                 /\ j \in Trips /\ j.trip \in 1 .. MaxTrips /\ j.market \in Markets
                 /\ j.owner \in Owners /\ j.by \in 0 .. MaxTaps
           /\ \A r \in wire :
                 /\ r \in Requests /\ r.market \in Markets /\ r.tap \in 1 .. MaxTaps
                 /\ r.stage \in 1 .. 3 /\ r.kind \in {"open", "close", "amend"}
                 /\ r.side \in Sides /\ r.lit \in BOOLEAN
           /\ \A v \in Visits :
                 /\ act[v] \in Acts /\ act[v].kind \in Kinds /\ act[v].at \in Ats
                 /\ act[v].stage \in 0 .. 3 /\ act[v].market \in Markets \cup {NoMarket}
                 /\ act[v].side \in Sides /\ act[v].tap \in 0 .. MaxTaps
                 /\ act[v].trip \in 0 .. MaxTrips
           /\ \A v \in Visits :
                 /\ look[v] \in Looks /\ look[v].on \in BOOLEAN
                 /\ look[v].by \in {"none", "order", "opened"}
                 /\ look[v].trip \in 0 .. MaxTrips
                 /\ look[v].market \in Markets \cup {NoMarket}
                 /\ look[v].tries \in 0 .. Attempts - 1
           /\ \A who \in {"poll", "act"} :
                 /\ asks[who] \in Answers /\ asks[who].snap \in Snapshots
                 /\ asks[who].stamp \in Nat
                 /\ asks[who].at \in {"idle", "asked", "answered"}
<1> USE DEF Typed, AccountTypes, ActTypes
<1>1. \A m \in Markets : venue[m] \in Positions
  OBVIOUS
<1>2. \A j \in journal : j \in Trips
  OBVIOUS
<1>3. \A r \in wire : r \in Requests
  OBVIOUS
<1>4. \A v \in Visits : act[v] \in Acts /\ look[v] \in Looks
  OBVIOUS
<1>5. \A who \in {"poll", "act"} : asks[who] \in Answers
  OBVIOUS
<1> HIDE DEF Typed, AccountTypes, ActTypes
<1>6. \A p \in Positions : p.trip \in 0 .. MaxTrips /\ p.owner \in Owners /\ p.size \in Nat
                           /\ p.onSignal \in BOOLEAN /\ p.side \in Sides
  BY DEF Positions
<1>7. \A j \in Trips : j.trip \in 1 .. MaxTrips /\ j.market \in Markets
                       /\ j.owner \in Owners /\ j.by \in 0 .. MaxTaps
  BY DEF Trips
<1>8. \A r \in Requests :
          /\ r.market \in Markets /\ r.tap \in 1 .. MaxTaps
          /\ r.stage \in 1 .. 3 /\ r.kind \in {"open", "close", "amend"}
          /\ r.side \in Sides /\ r.lit \in BOOLEAN
  BY DEF Requests
<1>9. \A a \in Acts :
          /\ a.kind \in Kinds /\ a.at \in Ats
          /\ a.stage \in 0 .. 3 /\ a.market \in Markets \cup {NoMarket}
          /\ a.side \in Sides /\ a.tap \in 0 .. MaxTaps
          /\ a.trip \in 0 .. MaxTrips
  BY DEF Acts
<1>10. \A k \in Looks :
          /\ k.on \in BOOLEAN
          /\ k.by \in {"none", "order", "opened"}
          /\ k.trip \in 0 .. MaxTrips
          /\ k.market \in Markets \cup {NoMarket}
          /\ k.tries \in 0 .. Attempts - 1
  BY DEF Looks
<1>11. \A a \in Answers :
          /\ a.snap \in Snapshots
          /\ a.stamp \in Nat
          /\ a.at \in {"idle", "asked", "answered"}
  BY DEF Answers
<1> QED BY <1>1, <1>2, <1>3, <1>4, <1>5, <1>6, <1>7, <1>8, <1>9, <1>10, <1>11

(* The constants that stand for nothing are of the types too. *)
LEMMA NothingIsTyped ==
    ASSUME PhoneAssumption
    PROVE  /\ NoPosition \in Positions /\ NoAct \in Acts /\ NoLook \in Looks
           /\ Unknown \in Snapshots /\ NoAnswer \in Answers
           /\ [NoAnswer EXCEPT !.at = "asked"] \in Answers
           /\ 0 \in 0 .. MaxTrips /\ 0 \in 0 .. MaxTaps
<1>1. /\ 0 \in 0 .. MaxTrips /\ 0 \in 0 .. MaxTaps /\ 0 \in 0 .. Attempts - 1
  BY DEF PhoneAssumption
<1>2. Unknown \in Snapshots
  BY DEF Snapshots
<1>3. NoPosition \in Positions
  BY <1>1 DEF NoPosition, Positions, Sides, Owners
<1>4. NoAct \in Acts
  BY <1>1 DEF NoAct, Acts, Kinds, Ats, Sides
<1>5. NoLook \in Looks
  BY <1>1 DEF NoLook, Looks
<1>6. NoAnswer \in Answers
  BY <1>2 DEF NoAnswer, Answers
<1>7. [NoAnswer EXCEPT !.at = "asked"] \in Answers
  BY <1>2 DEF NoAnswer, Answers
<1> QED BY <1>1, <1>2, <1>3, <1>4, <1>5, <1>6, <1>7

(* An act changed in one field is an act. *)
LEMMA ActsAreUpdated ==
    ASSUME PhoneAssumption, Typed, NEW v \in Visits
    PROVE  /\ \A a \in Ats : [act[v] EXCEPT !.at = a] \in Acts
           /\ \A a \in Ats, i \in 0 .. MaxTrips : [act[v] EXCEPT !.at = a, !.trip = i] \in Acts
           /\ \A g \in 0 .. 3 : [act[v] EXCEPT !.at = "sent", !.stage = g, !.trip = 0] \in Acts
           /\ \A a \in Acts : [act EXCEPT ![v] = a] \in [Visits -> Acts]
<1>1. act[v] \in Acts
  BY PartsAreTyped
<1>2. 0 \in 0 .. MaxTrips
  BY NothingIsTyped
<1>3. ASSUME NEW b \in Acts
      PROVE  /\ \A a \in Ats : [b EXCEPT !.at = a] \in Acts
             /\ \A a \in Ats, i \in 0 .. MaxTrips : [b EXCEPT !.at = a, !.trip = i] \in Acts
             /\ \A g \in 0 .. 3 : [b EXCEPT !.at = "sent", !.stage = g, !.trip = 0] \in Acts
  <2>1. \A a \in Ats : [b EXCEPT !.at = a] \in Acts
    BY DEF Acts
  <2>2. \A a \in Ats, i \in 0 .. MaxTrips : [b EXCEPT !.at = a, !.trip = i] \in Acts
    BY DEF Acts
  <2>3. \A g \in 0 .. 3 : [b EXCEPT !.at = "sent", !.stage = g, !.trip = 0] \in Acts
    BY <1>2 DEF Acts, Ats
  <2> QED BY <2>1, <2>2, <2>3
<1>4. \A a \in Acts : [act EXCEPT ![v] = a] \in [Visits -> Acts]
  BY DEF Typed, ActTypes
<1> QED BY <1>1, <1>3, <1>4

(* An answer leaves the acts acts. *)
LEMMA AnsweredTypes ==
    ASSUME PhoneAssumption, Typed, NEW r \in wire, NEW a \in Ats, NEW i \in 0 .. MaxTrips
    PROVE  Answered(r, a, i) \in [Visits -> Acts]
<1>1. \A v \in Visits : act[v] \in Acts /\ [act[v] EXCEPT !.at = a, !.trip = i] \in Acts
  BY ActsAreUpdated, PartsAreTyped
<1> QED BY <1>1 DEF Answered

(* What is begun is a request of an act. *)
LEMMA BeginTypes ==
    ASSUME PhoneAssumption, Typed, taps < MaxTaps, NEW kind \in Kinds, NEW m \in Markets,
           NEW side \in Sides, NEW lit \in BOOLEAN, NEW request \in {"open", "close", "amend"},
           Begin(kind, 1, m, side, lit, request)
    PROVE  /\ taps' \in 0 .. MaxTaps
           /\ act' \in [Visits -> Acts]
           /\ wire' \in SUBSET Requests
<1>1. taps + 1 \in 1 .. MaxTaps /\ taps + 1 \in 0 .. MaxTaps
  BY DEF Typed, ActTypes, PhoneAssumption
<1>2. [kind |-> kind, at |-> "sent", stage |-> 1, market |-> m, side |-> side,
       tap |-> taps + 1, trip |-> 0] \in Acts
  BY <1>1, NothingIsTyped DEF Acts, Ats
<1>3. [kind |-> request, market |-> m, side |-> side, lit |-> lit, tap |-> taps + 1,
       stage |-> 1] \in Requests
  BY <1>1 DEF Requests
<1>4. act' \in [Visits -> Acts]
  BY <1>2, ActsAreUpdated DEF Begin, Typed, ScreenTypes
<1>5. wire' \in SUBSET Requests
  BY <1>3 DEF Begin, Typed, AccountTypes
<1> QED BY <1>1, <1>4, <1>5 DEF Begin

(* So is the other side of a reversal. *)
LEMMA SendOtherTypes ==
    ASSUME PhoneAssumption, Typed, ActsAreTheirTaps, NEW v \in Visits, act[v].kind = "reverse",
           NEW stage \in 2 .. 3, SendOther(v, stage)
    PROVE  act' \in [Visits -> Acts] /\ wire' \in SUBSET Requests
<1>1. act[v].market \in Markets /\ act[v].side \in Sides /\ act[v].tap \in 1 .. MaxTaps
  <2>1. act[v].market \in Markets /\ act[v].tap # 0
    BY DEF ActsAreTheirTaps
  <2>2. act[v].tap \in 0 .. MaxTaps /\ act[v].side \in Sides
    BY PartsAreTyped
  <2> QED BY <2>1, <2>2 DEF PhoneAssumption
<1>2. [kind |-> "open", market |-> act[v].market, side |-> act[v].side,
       lit |-> FALSE, tap |-> act[v].tap, stage |-> stage] \in Requests
  BY <1>1 DEF Requests
<1>3. wire' \in SUBSET Requests
  BY <1>2 DEF SendOther, Typed, AccountTypes
<1>4. act' = [act EXCEPT ![v] = [act[v] EXCEPT !.at = "sent", !.stage = stage, !.trip = 0]]
  BY DEF SendOther, Typed, ActTypes
<1>5. [act[v] EXCEPT !.at = "sent", !.stage = stage, !.trip = 0] \in Acts
  <2>1. stage \in 0 .. 3
    OBVIOUS
  <2> QED BY <2>1, ActsAreUpdated
<1>6. act' \in [Visits -> Acts]
  BY <1>4, <1>5, ActsAreUpdated
<1> QED BY <1>3, <1>6

(* And what a refresh leaves. *)
LEMMA RefreshTypes ==
    ASSUME PhoneAssumption, Typed, NEW v \in Visits, Refresh(v)
    PROVE  /\ act' \in [Visits -> Acts]
           /\ asks' \in [{"poll", "act"} -> Answers]
           /\ look' \in [Visits -> Looks]
<1>1. NoAct \in Acts /\ [NoAnswer EXCEPT !.at = "asked"] \in Answers
  BY NothingIsTyped
<1>2. [act[v] EXCEPT !.at = "refresh"] \in Acts
  BY ActsAreUpdated DEF Ats
<1>3. /\ act \in [Visits -> Acts] /\ asks \in [{"poll", "act"} -> Answers]
      /\ look \in [Visits -> Looks]
  BY DEF Typed, ActTypes
<1>4. CASE Mounted(v)
  <2>1. act' = [act EXCEPT ![v] = [act[v] EXCEPT !.at = "refresh"]]
    BY <1>3, <1>4 DEF Refresh
  <2>2. act' \in [Visits -> Acts]
    BY <2>1, <1>2, ActsAreUpdated
  <2>3. asks' = [asks EXCEPT !["act"] = [NoAnswer EXCEPT !.at = "asked"]] /\ look' = look
    BY <1>4 DEF Refresh
  <2> QED BY <2>2, <2>3, <1>1, <1>3
<1>5. CASE ~Mounted(v)
  <2>1. act' = [act EXCEPT ![v] = NoAct] /\ asks' = asks
    BY <1>5 DEF Refresh
  <2>2. act' \in [Visits -> Acts]
    BY <2>1, <1>1, ActsAreUpdated
  <2>3. act[v].trip \in 0 .. MaxTrips /\ act[v].market \in Markets \cup {NoMarket}
    BY PartsAreTyped
  <2>4. Looking(v, "order", act[v].trip, act[v].market) \in [Visits -> Looks]
    BY <2>3, <1>3, LookingTypes
  <2>5. look' \in [Visits -> Looks]
    BY <1>5, <2>4, <1>3 DEF Refresh
  <2> QED BY <2>1, <2>2, <2>5, <1>3
<1> QED BY <1>4, <1>5

-----------------------------------------------------------------------------
(* What a press begins *)

(* What an act asks for first. *)
FirstRequest(kind) ==
    IF kind \in Sides THEN "open" ELSE IF kind = "reverse" THEN "close" ELSE kind

(***************************************************************************)
(* A press that sends: an entry, on keys that are free or on a sheet that  *)
(* outlived them, a close, a reversal, an amendment.  Nothing is under way.*)
(***************************************************************************)
Starts(kind, m, side, lit) ==
    /\ Begin(kind, 1, m, side, lit, FirstRequest(kind))
    /\ taps < MaxTaps /\ place = "strategy" /\ act[visit].kind = "none"
    /\ kind \in Sides => /\ KeysFree \/ "sheet" \in mishaps'
                         /\ mark' = IF lit THEN m ELSE NoMarket
    /\ kind = "reverse" => mark' = NoMarket
    /\ kind \notin Sides \cup {"reverse"} => mark' = mark
    /\ asking' = "none" /\ reversing' = 0
    /\ mishaps' \in {mishaps, mishaps \cup {"sheet"}}
    /\ UNCHANGED <<accountVars, whereVars, viewVars, chosen, got, asks, look, opened>>

Starting ==
    \E kind \in Kinds \ {"none"}, m \in Markets, side \in Sides, lit \in BOOLEAN :
        Starts(kind, m, side, lit)

(* A press that sends nothing. *)
Standing ==
    /\ asking' \in Sides \cup {"none"} /\ reversing' \in {reversing, 0}
    /\ asking' = "none" \/ reversing' = 0
    /\ asking' # "none" \/ reversing' # 0 => act[visit].kind = "none"
    /\ mark' \in {mark, NoMarket}
    /\ mishaps' \in {mishaps, mishaps \cup {"sheet"}}
    /\ UNCHANGED <<accountVars, wire, whereVars, viewVars, chosen, got, act, asks, look,
                   countVars>>

(* An entry begins as the signal has it. *)
LEMMA OpenStarts ==
    ASSUME PhoneAssumption, Typed, NEW side \in Sides, Open(side)
    PROVE  \E lit \in BOOLEAN :
              /\ Begin(side, 1, symbol, side, lit, "open")
              /\ mark' = IF lit THEN symbol ELSE NoMarket
<1>1. (got.market = symbol /\ got.side # "none") \in BOOLEAN
  OBVIOUS
<1>2. (Lit # "none") <=> (got.market = symbol /\ got.side # "none")
  BY DEF Lit
<1> QED BY <1>1, <1>2 DEF Open

LEMMA PressesAre ==
    ASSUME PhoneAssumption, Typed, ActsAreTheirTaps
    PROVE  /\ \A side \in Keys : Tap(side) => Starting \/ Standing
           /\ ConfirmOpen => Starting
           /\ CloseNow => Starting
           /\ Amend => Starting
           /\ ConfirmReverse => Starting \/ Standing
<1> USE DEF Sides, Kinds, FirstRequest
<1>1. symbol \in Markets /\ position \in Markets \cup {NoMarket} /\ chosen \in Markets
  BY SymbolIs DEF Typed, ScreenTypes
<1>2. Keys \subseteq Sides
  BY DEF PhoneAssumption
<1>3. sheet => act[visit].kind = "none"
  BY DEF ActsAreTheirTaps, sheet, NoAct
<1>4. ASSUME NEW side \in Keys, Tap(side) PROVE Starting \/ Standing
  <2>1. asking = "none" /\ reversing = 0 /\ taps < MaxTaps /\ place = "strategy"
    BY <1>4 DEF Tap, InReach, sheet
  <2>2. KeysFree /\ act[visit].kind = "none"
    BY <1>4 DEF Tap, KeysFree, busy
  <2>3. CASE ~Armed /\ Lit = "none"
    BY <1>2, <1>4, <2>1, <2>2, <2>3 DEF Tap, Standing, storedVars, sheetVars, countVars
  <2>4. CASE ~(~Armed /\ Lit = "none")
    <3>1. Open(side) /\ asking' = asking /\ mishaps' = mishaps /\ reversing' = reversing
          /\ UNCHANGED <<accountVars, whereVars, viewVars, chosen, got, asks, look, opened>>
      BY <1>4, <2>4 DEF Tap
    <3>2. side \in Sides
      BY <1>2
    <3>3. PICK lit \in BOOLEAN : /\ Begin(side, 1, symbol, side, lit, "open")
                                 /\ mark' = IF lit THEN symbol ELSE NoMarket
      BY <3>1, <3>2, OpenStarts
    <3>4. Starts(side, symbol, side, lit)
      BY <2>1, <2>2, <3>1, <3>2, <3>3 DEF Starts
    <3> QED BY <1>1, <3>2, <3>4 DEF Starting
  <2> QED BY <2>3, <2>4
<1>5. ASSUME ConfirmOpen PROVE Starting
  <2>1. asking # "none" /\ taps < MaxTaps /\ place = "strategy" /\ asking \in Sides
    BY <1>5 DEF ConfirmOpen, Typed, ScreenTypes
  <2>2. act[visit].kind = "none" /\ reversing = 0
    BY <2>1, <1>3 DEF sheet, ActsAreTheirTaps
  <2>3. /\ Open(asking) /\ asking' = "none" /\ reversing' = reversing
        /\ mishaps' = IF KeysFree THEN mishaps ELSE mishaps \cup {"sheet"}
        /\ UNCHANGED <<accountVars, whereVars, viewVars, chosen, got, asks, look, opened>>
    BY <1>5 DEF ConfirmOpen
  <2>4. PICK lit \in BOOLEAN : /\ Begin(asking, 1, symbol, asking, lit, "open")
                               /\ mark' = IF lit THEN symbol ELSE NoMarket
    BY <2>1, <2>3, OpenStarts
  <2>5. (KeysFree \/ "sheet" \in mishaps') /\ mishaps' \in {mishaps, mishaps \cup {"sheet"}}
    BY <2>3
  <2>6. Starts(asking, symbol, asking, lit)
    BY <2>1, <2>2, <2>3, <2>4, <2>5 DEF Starts
  <2> QED BY <1>1, <2>1, <2>6 DEF Starting
<1>6. ASSUME CloseNow PROVE Starting
  <2>1. Starts("close", chosen, "up", FALSE)
    BY <1>6 DEF CloseNow, InReach, ExitsFree, busy, sheet, Starts, sheetVars, storedVars
  <2> QED BY <1>1, <2>1 DEF Starting
<1>7. ASSUME Amend PROVE Starting
  <2>1. Starts("amend", chosen, "up", FALSE)
    BY <1>7 DEF Amend, InReach, ExitsFree, busy, sheet, Starts, sheetVars, storedVars
  <2> QED BY <1>1, <2>1 DEF Starting
<1>8. ASSUME ConfirmReverse PROVE Starting \/ Standing
  <2>1. reversing # 0 /\ taps < MaxTaps /\ place = "strategy"
    BY <1>8 DEF ConfirmReverse
  <2>2. act[visit].kind = "none" /\ asking = "none"
    BY <2>1, <1>3 DEF sheet, ActsAreTheirTaps
  <2>3. mishaps' \in {mishaps, mishaps \cup {"sheet"}}
    BY <1>8 DEF ConfirmReverse, Moved
  <2>4. CASE position = NoMarket
    BY <1>8, <2>1, <2>2, <2>3, <2>4 DEF ConfirmReverse, Standing, countVars
  <2>5. CASE position # NoMarket
    <3> DEFINE other == Opposite(state[position].side)
    <3>1. other \in Sides
      BY DEF Opposite
    <3>2. /\ Begin("reverse", 1, position, other, FALSE, "close")
          /\ mark' = NoMarket /\ asking' = asking /\ reversing' = 0
          /\ UNCHANGED <<accountVars, whereVars, viewVars, chosen, got, asks, look, opened>>
      BY <1>8, <2>5 DEF ConfirmReverse
    <3> HIDE DEF other
    <3>3. Starts("reverse", position, other, FALSE)
      BY <3>2, <2>1, <2>2, <2>3 DEF Starts
    <3> QED BY <1>1, <2>5, <3>1, <3>3 DEF Starting
  <2> QED BY <2>4, <2>5
<1> QED BY <1>4, <1>5, <1>6, <1>7, <1>8

-----------------------------------------------------------------------------
(* Every step leaves every variable its type. *)

LEMMA InitTypes ==
    ASSUME PhoneAssumption, Init
    PROVE  Typed
<1> USE NothingIsTyped DEF Init
<1>1. 1 \in Visits
  BY DEF PhoneAssumption, Visits
<1>2. First(Markets) \in Markets
  BY FirstIsOne, NoneIsNoMarket
<1>3. AccountTypes
  <2>1. venue \in [Markets -> Positions] /\ \A m \in Markets : venue[m] = NoPosition
    OBVIOUS
  <2>2. NoPosition.trip = 0
    BY DEF NoPosition
  <2>3. journal = {} /\ stamp = 0 /\ wire = {}
    OBVIOUS
  <2> QED BY <2>1, <2>2, <2>3 DEF AccountTypes
<1>4. ScreenTypes
  BY <1>1, <1>2 DEF ScreenTypes
<1>5. ActTypes
  BY DEF ActTypes
<1> QED BY <1>3, <1>4, <1>5 DEF Typed

(* What leaves a group of variables alone leaves it typed. *)
LEMMA FramesAreTyped ==
    ASSUME Typed
    PROVE  /\ UNCHANGED <<accountVars, wire>> => AccountTypes'
           /\ UNCHANGED <<whereVars, viewVars, storedVars, got, sheetVars>> => ScreenTypes'
           /\ UNCHANGED <<act, asks, look, countVars, mishaps>> => ActTypes'
<1>1. UNCHANGED <<accountVars, wire>> => AccountTypes'
  BY DEF Typed, AccountTypes, accountVars
<1>2. UNCHANGED <<whereVars, viewVars, storedVars, got, sheetVars>> => ScreenTypes'
  BY DEF Typed, ScreenTypes, whereVars, viewVars, storedVars, sheetVars
<1>3. UNCHANGED <<act, asks, look, countVars, mishaps>> => ActTypes'
  BY DEF Typed, ActTypes, countVars
<1> QED BY <1>1, <1>2, <1>3

(* The platform's steps. *)
LEMMA VenueStepTypes ==
    ASSUME PhoneAssumption, Typed, TripsAreNumbered
    PROVE  /\ \A m \in Markets, tap \in 0 .. MaxTaps :
                 EndTrip(m, tap) /\ venue[m].trip # 0 /\ wire' \in SUBSET wire => AccountTypes'
           /\ \A m \in Markets : OthersOpen(m) => AccountTypes'
           /\ \A r \in wire : ExecuteOpen(r) => AccountTypes'
<1>1. ASSUME NEW m \in Markets, NEW tap \in 0 .. MaxTaps, EndTrip(m, tap), venue[m].trip # 0,
             wire' \in SUBSET wire
      PROVE  AccountTypes'
  <2>1. venue[m].trip \in 1 .. MaxTrips /\ venue[m].owner \in Owners
    <3>1. venue[m].trip \in 0 .. MaxTrips /\ venue[m].owner \in Owners
      BY PartsAreTyped
    <3> QED BY <3>1, <1>1 DEF PhoneAssumption
  <2>2. [trip |-> venue[m].trip, market |-> m, owner |-> venue[m].owner, by |-> tap] \in Trips
    BY <2>1 DEF Trips
  <2>3. venue' \in [Markets -> Positions]
    BY <1>1, NothingIsTyped DEF EndTrip, Typed, AccountTypes
  <2>4. \A n \in Markets : venue'[n].trip = 0 <=> venue'[n] = NoPosition
    <3>1. venue'[m] = NoPosition /\ NoPosition.trip = 0
      BY <1>1 DEF EndTrip, Typed, AccountTypes, NoPosition
    <3>2. \A n \in Markets \ {m} : venue'[n] = venue[n]
      BY <1>1 DEF EndTrip, Typed, AccountTypes
    <3> QED BY <3>1, <3>2 DEF Typed, AccountTypes
  <2>5. journal' \in SUBSET Trips /\ stamp' \in Nat /\ wire' \in SUBSET Requests
    BY <1>1, <2>2 DEF EndTrip, Typed, AccountTypes
  <2> QED BY <2>3, <2>4, <2>5 DEF AccountTypes
<1>2. ASSUME NEW m \in Markets, OthersOpen(m) PROVE AccountTypes'
  <2>1. NextTrip \in 1 .. MaxTrips
    BY <1>2, NextTripIsNew DEF OthersOpen, PhoneAssumption
  <2>2. PICK owner \in Outsiders : venue' = [venue EXCEPT ![m] = [trip |-> NextTrip,
            owner |-> owner, side |-> "up", onSignal |-> FALSE, size |-> 1]]
    BY <1>2 DEF OthersOpen
  <2>3. [trip |-> NextTrip, owner |-> owner, side |-> "up", onSignal |-> FALSE, size |-> 1]
           \in Positions
    <3>1. NextTrip \in 0 .. MaxTrips /\ owner \in Owners
      BY <2>1 DEF PhoneAssumption, Owners
    <3> QED BY <3>1 DEF Positions, Sides
  <2>4. venue' \in [Markets -> Positions]
    BY <2>2, <2>3 DEF Typed, AccountTypes
  <2>5. \A n \in Markets : venue'[n].trip = 0 <=> venue'[n] = NoPosition
    <3>1. venue'[m].trip = NextTrip /\ NextTrip # 0
      BY <2>1, <2>2 DEF Typed, AccountTypes
    <3>2. \A n \in Markets \ {m} : venue'[n] = venue[n]
      BY <2>2 DEF Typed, AccountTypes
    <3>3. NoPosition.trip = 0
      BY DEF NoPosition
    <3>4. \A n \in Markets \ {m} : venue[n].trip = 0 <=> venue[n] = NoPosition
      BY DEF Typed, AccountTypes
    <3>5. venue'[m].trip # 0 /\ venue'[m] # NoPosition
      BY <3>1, <3>3
    <3> QED BY <3>2, <3>4, <3>5
  <2> QED BY <1>2, <2>4, <2>5 DEF OthersOpen, Typed, AccountTypes
<1>3. ASSUME NEW r \in wire, ExecuteOpen(r) PROVE AccountTypes'
  <2>1. r.market \in Markets /\ r.side \in Sides /\ r.lit \in BOOLEAN
    BY PartsAreTyped
  <2> DEFINE m == r.market
  <2>2. \A n \in Markets \ {m} : venue'[n] = venue[n]
    BY <1>3, <2>1 DEF ExecuteOpen, Typed, AccountTypes
  <2>3. venue' \in [Markets -> Positions] /\ venue'[m].trip # 0
    <3>1. CASE venue[m].trip = 0
      <4>1. NextTrip \in 1 .. MaxTrips
        BY <1>3, <3>1, NextTripIsNew DEF ExecuteOpen, PhoneAssumption
      <4>2. [trip |-> NextTrip, owner |-> "mine", side |-> r.side, onSignal |-> r.lit,
             size |-> 1] \in Positions
        BY <4>1, <2>1 DEF Positions, Owners
      <4>3. venue' = [venue EXCEPT ![m] = [trip |-> NextTrip, owner |-> "mine",
                side |-> r.side, onSignal |-> r.lit, size |-> 1]]
        BY <1>3, <3>1 DEF ExecuteOpen
      <4> QED BY <4>1, <4>2, <4>3, <2>1 DEF Typed, AccountTypes
    <3>2. CASE venue[m].trip # 0
      <4>1. venue' = [venue EXCEPT ![m].size = @ + 1, ![m].owner = "mine"]
        BY <1>3, <3>2 DEF ExecuteOpen
      <4>2. venue[m] \in Positions
        BY <2>1, PartsAreTyped
      <4>3. [[venue[m] EXCEPT !.size = venue[m].size + 1] EXCEPT !.owner = "mine"] \in Positions
        <5>1. \A p \in Positions : [p EXCEPT !.size = p.size + 1] \in Positions
          BY DEF Positions
        <5>2. \A p \in Positions : [p EXCEPT !.owner = "mine"] \in Positions
          BY DEF Positions, Owners
        <5> QED BY <4>2, <5>1, <5>2
      <4>4. venue' = [venue EXCEPT ![m] =
                [[venue[m] EXCEPT !.size = venue[m].size + 1] EXCEPT !.owner = "mine"]]
        BY <4>1, <2>1 DEF Typed, AccountTypes
      <4>5. [[venue[m] EXCEPT !.size = venue[m].size + 1] EXCEPT !.owner = "mine"].trip
               = venue[m].trip
        BY <4>2 DEF Positions
      <4> QED BY <4>3, <4>4, <4>5, <3>2, <2>1 DEF Typed, AccountTypes
    <3> QED BY <3>1, <3>2
  <2>4. \A n \in Markets : venue'[n].trip = 0 <=> venue'[n] = NoPosition
    BY <2>2, <2>3 DEF Typed, AccountTypes, NoPosition
  <2>5. journal' = journal /\ stamp' = stamp + 1 /\ wire' \in SUBSET wire
    BY <1>3 DEF ExecuteOpen
  <2> QED BY <2>3, <2>4, <2>5 DEF Typed, AccountTypes
<1> QED BY <1>1, <1>2, <1>3

(* What has gone wrong is one of the mishaps. *)
LEMMA MishapsAreTyped ==
    ASSUME Typed
    PROVE  /\ mishaps \in SUBSET Mishaps
           /\ \A k \in Mishaps : mishaps \cup {k} \in SUBSET Mishaps
           /\ \A m \in Markets, r \in wire :
                 /\ mishaps \cup Met(m) \in SUBSET Mishaps
                 /\ mishaps \cup Met(m) \cup Searched(r) \in SUBSET Mishaps
<1>1. {"met", "search"} \subseteq Mishaps
  BY DEF Mishaps
<1>2. mishaps \in SUBSET Mishaps
  BY DEF Typed, ActTypes
<1>3. \A m \in Markets : Met(m) \subseteq Mishaps
  BY <1>1 DEF Met
<1>4. \A r \in wire : Searched(r) \subseteq Mishaps
  BY <1>1 DEF Searched
<1> QED BY <1>2, <1>3, <1>4

(* A press leaves everything typed. *)
LEMMA PressTypes ==
    ASSUME PhoneAssumption, Typed, Starting \/ Standing
    PROVE  Typed'
<1>1. mishaps' \in SUBSET Mishaps /\ NoMarket \in Markets \cup {NoMarket}
  BY MishapsAreTyped DEF Starting, Starts, Standing, Mishaps
<1>2. CASE Standing
  <2>1. AccountTypes'
    BY <1>2, FramesAreTyped DEF Standing
  <2>2. ScreenTypes'
    BY <1>2, NothingIsTyped DEF Standing, Typed, ScreenTypes, whereVars, viewVars
  <2>3. ActTypes'
    BY <1>1, <1>2 DEF Standing, Typed, ActTypes, countVars
  <2> QED BY <2>1, <2>2, <2>3 DEF Typed
<1>3. CASE Starting
  <2>1. PICK kind \in Kinds \ {"none"}, m \in Markets, side \in Sides, lit \in BOOLEAN :
            Starts(kind, m, side, lit)
    BY <1>3 DEF Starting
  <2>2. FirstRequest(kind) \in {"open", "close", "amend"}
    BY DEF FirstRequest, Kinds, Sides
  <2>3. Begin(kind, 1, m, side, lit, FirstRequest(kind)) /\ taps < MaxTaps
    BY <2>1 DEF Starts
  <2>4. taps' \in 0 .. MaxTaps /\ act' \in [Visits -> Acts] /\ wire' \in SUBSET Requests
    BY <2>2, <2>3, BeginTypes
  <2>5. mark' \in Markets \cup {NoMarket}
    BY <2>1 DEF Starts, Typed, ScreenTypes
  <2>6. AccountTypes'
    BY <2>1, <2>4 DEF Starts, Typed, AccountTypes, accountVars
  <2>7. ScreenTypes'
    BY <2>1, <2>5, NothingIsTyped DEF Starts, Typed, ScreenTypes, whereVars, viewVars
  <2>8. ActTypes'
    BY <1>1, <2>1, <2>4 DEF Starts, Typed, ActTypes
  <2> QED BY <2>6, <2>7, <2>8 DEF Typed
<1> QED BY <1>2, <1>3

(* So does what the platform does with a request. *)
LEMMA HandledTypes ==
    ASSUME PhoneAssumption, Typed, TripsAreNumbered, NEW r \in wire, Handle(r)
    PROVE  Typed'
<1>0. r.tap \in 1 .. MaxTaps /\ r.tap \in 0 .. MaxTaps /\ r.market \in Markets
  BY PartsAreTyped
<1>1. wire' \in SUBSET wire
  BY DEF Handle, ExecuteOpen, ExecuteClose, ExecuteAmend, Refuse
<1>2. \E a \in Ats, i \in 0 .. MaxTrips : act' = Answered(r, a, i)
  <2>1. {"done", "error", "cooldown", "failed"} \subseteq Ats /\ 0 \in 0 .. MaxTrips
    BY NothingIsTyped DEF Ats
  <2>2. venue[r.market].trip \in 0 .. MaxTrips
    BY <1>0, PartsAreTyped
  <2>3. CASE ExecuteOpen(r)
    BY <2>1, <2>3 DEF ExecuteOpen
  <2>4. CASE ExecuteClose(r)
    BY <2>1, <2>2, <2>4 DEF ExecuteClose
  <2>5. CASE ExecuteAmend(r)
    BY <2>1, <2>5 DEF ExecuteAmend
  <2>6. CASE Refuse(r)
    BY <2>1, <2>6 DEF Refuse
  <2> QED BY <2>3, <2>4, <2>5, <2>6 DEF Handle
<1>3. act' \in [Visits -> Acts]
  BY <1>2, AnsweredTypes
<1>4. ScreenTypes' /\ UNCHANGED <<asks, look, taps>>
  <2>1. UNCHANGED <<whereVars, viewVars, storedVars, got, asks, sheetVars, look, taps>>
    BY DEF Handle, ExecuteOpen, ExecuteClose, ExecuteAmend, Refuse, countVars
  <2> QED BY <2>1, FramesAreTyped
<1>5. opened' \in [1 .. MaxTaps -> Nat]
  <2>1. opened' = opened \/ opened' = [opened EXCEPT ![r.tap] = @ + 1]
    BY DEF Handle, ExecuteOpen, ExecuteClose, ExecuteAmend, Refuse, countVars
  <2>2. opened \in [1 .. MaxTaps -> Nat]
    BY DEF Typed, ActTypes
  <2> QED BY <1>0, <2>1, <2>2
<1>6. mishaps' \in SUBSET Mishaps
  BY <1>0, MishapsAreTyped DEF Handle, ExecuteOpen, ExecuteClose, ExecuteAmend, Refuse
<1>7. ActTypes'
  BY <1>3, <1>4, <1>5, <1>6 DEF Typed, ActTypes
<1>8. AccountTypes'
  <2>1. CASE ExecuteOpen(r)
    BY <2>1, VenueStepTypes
  <2>2. CASE ExecuteClose(r)
    <3>1. EndTrip(r.market, r.tap) /\ venue[r.market].trip # 0
      BY <2>2 DEF ExecuteClose
    <3> QED BY <3>1, <1>0, <1>1, VenueStepTypes
  <2>3. CASE ExecuteAmend(r) \/ Refuse(r)
    BY <2>3 DEF ExecuteAmend, Refuse, Typed, AccountTypes, accountVars
  <2> QED BY <2>1, <2>2, <2>3 DEF Handle
<1> QED BY <1>4, <1>7, <1>8 DEF Typed

(* So does what goes on by itself: the polls and the loops. *)
LEMMA LoopTypes ==
    ASSUME PhoneAssumption, Typed,
           AnswerAct \/ Poll \/ PollFails \/ ReadSignal \/ TakePoll \/ TakeAct \/ ActPollFails
    PROVE  Typed'
<1>1. /\ {"poll", "act"} \subseteq {"poll", "act"} /\ asks \in [{"poll", "act"} -> Answers]
      /\ act \in [Visits -> Acts] /\ look \in [Visits -> Looks] /\ visit \in Visits
      /\ state \in Snapshots /\ stamp \in Nat /\ chosen \in Markets
  BY DEF Typed, AccountTypes, ScreenTypes, ActTypes
<1>2. Snapshot \in Answers
  <2>1. venue \in Snapshots
    BY DEF Typed, AccountTypes, Snapshots
  <2> QED BY <2>1, <1>1 DEF Snapshot, Answers
<1>3. NoAnswer \in Answers /\ NoAct \in Acts
  BY NothingIsTyped
<1>4. mishaps \in SUBSET Mishaps /\ mishaps \cup {"crossed"} \in SUBSET Mishaps
      /\ mishaps \cup {"unread"} \in SUBSET Mishaps
  BY MishapsAreTyped DEF Mishaps
<1>5. CASE AnswerAct \/ Poll \/ PollFails
  <2>1. AccountTypes' /\ ScreenTypes'
    BY <1>5, FramesAreTyped DEF AnswerAct, Poll, PollFails
  <2>2. asks' \in [{"poll", "act"} -> Answers]
    BY <1>1, <1>2, <1>3, <1>5 DEF AnswerAct, Poll, PollFails
  <2>3. UNCHANGED <<act, look, countVars, mishaps>>
    BY <1>5 DEF AnswerAct, Poll, PollFails, countVars
  <2>4. ActTypes'
    BY <2>2, <2>3 DEF Typed, ActTypes, countVars
  <2> QED BY <2>1, <2>4 DEF Typed
<1>6. CASE ReadSignal
  <2>1. AccountTypes' /\ ActTypes'
    BY <1>6, FramesAreTyped DEF ReadSignal
  <2>2. got' \in [market : Markets \cup {NoMarket}, side : {"none"} \cup Sides]
    <3>1. symbol \in Markets
      BY SymbolIs
    <3>2. {"none"} \cup Keys \subseteq {"none"} \cup Sides
      BY DEF PhoneAssumption, Sides
    <3> QED BY <1>6, <3>1, <3>2 DEF ReadSignal
  <2>3. ScreenTypes'
    BY <1>6, <2>2 DEF ReadSignal, Typed, ScreenTypes, whereVars, viewVars, storedVars, sheetVars
  <2> QED BY <2>1, <2>3 DEF Typed
<1>7. CASE TakePoll \/ TakeAct
  <2>1. AccountTypes'
    BY <1>7, FramesAreTyped DEF TakePoll, TakeAct
  <2>2. \A who \in {"poll", "act"} : asks[who].snap \in Snapshots /\ asks[who].stamp \in Nat
    BY PartsAreTyped
  <2>3. PICK s \in Snapshots, doing \in {busy, "none"}, closed \in 0 .. MaxTrips :
            Render(s, doing, closed)
    <3>1. CASE TakePoll
      BY <3>1, <2>2, NothingIsTyped DEF TakePoll
    <3>2. CASE TakeAct
      <4>1. act[visit].trip \in 0 .. MaxTrips
        BY <1>1, PartsAreTyped
      <4> QED BY <3>2, <4>1, <2>2 DEF TakeAct
    <3> QED BY <1>7, <3>1, <3>2
  <2>4. /\ state' \in Snapshots /\ was' \in 0 .. MaxTrips /\ chosen' \in Markets
        /\ mark' \in Markets \cup {NoMarket} /\ look' \in [Visits -> Looks]
    BY <2>3, RenderTypes
  <2>5. shown' \in Nat /\ asks' \in [{"poll", "act"} -> Answers] /\ mishaps' \in SUBSET Mishaps
    <3>1. CASE TakePoll
      BY <3>1, <2>2, <1>1, <1>3, <1>4 DEF TakePoll
    <3>2. CASE TakeAct
      BY <3>2, <2>2, <1>1, <1>3, <1>4 DEF TakeAct
    <3> QED BY <1>7, <3>1, <3>2
  <2>6. act' \in [Visits -> Acts]
    BY <1>1, <1>3, <1>7 DEF TakePoll, TakeAct
  <2>7. UNCHANGED <<whereVars, got, sheetVars, countVars>>
    BY <1>7 DEF TakePoll, TakeAct
  <2>8. ScreenTypes'
    BY <2>4, <2>5, <2>7 DEF Typed, ScreenTypes, whereVars, sheetVars
  <2>9. ActTypes'
    BY <2>4, <2>5, <2>6, <2>7 DEF Typed, ActTypes, countVars
  <2> QED BY <2>1, <2>8, <2>9 DEF Typed
<1>8. CASE ActPollFails
  <2>1. AccountTypes' /\ ScreenTypes'
    BY <1>8, FramesAreTyped DEF ActPollFails
  <2>2. act[visit].trip \in 0 .. MaxTrips
    BY <1>1, PartsAreTyped
  <2>3. Looking(visit, "order", act[visit].trip, chosen) \in [Visits -> Looks]
    BY <1>1, <2>2, LookingTypes
  <2>4. look' \in [Visits -> Looks]
    BY <1>1, <1>8, <2>3 DEF ActPollFails
  <2>5. asks' \in [{"poll", "act"} -> Answers] /\ act' \in [Visits -> Acts]
        /\ mishaps' \in SUBSET Mishaps
    BY <1>1, <1>3, <1>4, <1>8 DEF ActPollFails
  <2>6. UNCHANGED <<taps, opened>>
    BY <1>8 DEF ActPollFails
  <2>7. ActTypes'
    BY <2>4, <2>5, <2>6 DEF Typed, ActTypes
  <2> QED BY <2>1, <2>7 DEF Typed
<1> QED BY <1>5, <1>6, <1>7, <1>8

(* And what the user does without a press, and the rest of an act. *)
LEMMA GoingTypes ==
    ASSUME PhoneAssumption, Typed, NEW m \in Markets,
           Choose(m) \/ Dismiss \/ AskReverse \/ Leave \/ Return
    PROVE  Typed'
<1>1. /\ act \in [Visits -> Acts] /\ look \in [Visits -> Looks] /\ visit \in Visits
      /\ state \in Snapshots /\ asks \in [{"poll", "act"} -> Answers]
  BY DEF Typed, ScreenTypes, ActTypes
<1>2. NoAnswer \in Answers /\ NoAct \in Acts /\ Unknown \in Snapshots /\ 0 \in 0 .. MaxTrips
  BY NothingIsTyped
<1>3. mishaps \in SUBSET Mishaps /\ mishaps \cup {"left"} \in SUBSET Mishaps
  BY MishapsAreTyped DEF Mishaps
<1>4. CASE Choose(m) \/ Dismiss \/ AskReverse
  <2>1. AccountTypes' /\ ActTypes'
    BY <1>4, FramesAreTyped DEF Choose, Dismiss, AskReverse
  <2>2. position # NoMarket => state[position].trip \in 0 .. MaxTrips
    BY <1>1, ShownPosition DEF position, Typed, ScreenTypes
  <2>3. ScreenTypes'
    BY <1>4, <1>2, <2>2 DEF Choose, Dismiss, AskReverse, InReach, ExitsFree, Typed, ScreenTypes,
                       whereVars, viewVars, storedVars, sheetVars
  <2> QED BY <2>1, <2>3 DEF Typed
<1>5. CASE Leave
  <2>1. AccountTypes'
    BY <1>5, FramesAreTyped DEF Leave
  <2>2. ScreenTypes'
    BY <1>5, <1>2 DEF Leave, Typed, ScreenTypes, storedVars, sheetVars
  <2>3. ActTypes'
    <3>1. act' \in [Visits -> Acts]
      BY <1>1, <1>2, <1>5 DEF Leave
    <3>2. asks' \in [{"poll", "act"} -> Answers] /\ mishaps' \in SUBSET Mishaps
      BY <1>1, <1>2, <1>3, <1>5 DEF Leave
    <3>3. UNCHANGED <<look, taps, opened>>
      BY <1>5 DEF Leave, countVars
    <3> QED BY <3>1, <3>2, <3>3 DEF Typed, ActTypes
  <2> QED BY <2>1, <2>2, <2>3 DEF Typed
<1>6. CASE Return
  <2>1. AccountTypes' /\ ActTypes'
    BY <1>6, FramesAreTyped DEF Return
  <2>2. visit' \in Visits
    BY <1>1, <1>6 DEF Return, Visits, PhoneAssumption
  <2>3. ScreenTypes'
    BY <1>6, <1>2, <2>2 DEF Return, Typed, ScreenTypes, viewVars, storedVars, sheetVars
  <2> QED BY <2>1, <2>3 DEF Typed
<1> QED BY <1>4, <1>5, <1>6

LEMMA ContinueTypes ==
    ASSUME PhoneAssumption, Typed, ActsAreTheirTaps, NEW v \in Visits,
           Continue(v) \/ LoseAnswer(v)
    PROVE  Typed'
<1>1. /\ act \in [Visits -> Acts] /\ look \in [Visits -> Looks] /\ visit \in Visits
      /\ asks \in [{"poll", "act"} -> Answers]
  BY DEF Typed, ScreenTypes, ActTypes
<1>2. NoAnswer \in Answers /\ NoAct \in Acts /\ Unknown \in Snapshots /\ 0 \in 0 .. MaxTrips
      /\ NoLook \in Looks
  BY NothingIsTyped
<1>3. mishaps \in SUBSET Mishaps /\ mishaps \cup {"left"} \in SUBSET Mishaps
      /\ mishaps \cup {"lost"} \in SUBSET Mishaps
  BY MishapsAreTyped DEF Mishaps
<1>4. CASE AfterClose(v) \/ Retry(v)
  <2>1. ScreenTypes' /\ UNCHANGED <<accountVars, countVars, mishaps>>
    BY <1>4, FramesAreTyped DEF AfterClose, Retry, Resumes
  <2>2. PICK stage \in 2 .. 3 : SendOther(v, stage)
    BY <1>4 DEF AfterClose, Retry
  <2>3. act[v].kind = "reverse"
    BY <1>4 DEF AfterClose, Retry, InReverse
  <2>4. act' \in [Visits -> Acts] /\ wire' \in SUBSET Requests
    BY <2>2, <2>3, SendOtherTypes
  <2>5. UNCHANGED <<asks, look>>
    BY <2>2 DEF SendOther
  <2> QED BY <2>1, <2>4, <2>5 DEF Typed, AccountTypes, ActTypes, accountVars, countVars
<1>5. CASE Succeeded(v) \/ Failed(v)
  <2>1. ScreenTypes' /\ AccountTypes' /\ UNCHANGED <<countVars, mishaps>>
    BY <1>5, FramesAreTyped DEF Succeeded, Failed, Resumes
  <2>2. CASE Refresh(v)
    BY <2>1, <2>2, RefreshTypes DEF Typed, ActTypes, countVars
  <2>3. CASE act' = [act EXCEPT ![v] = NoAct] /\ UNCHANGED <<asks, look>>
    BY <2>1, <2>3, <1>1, <1>2 DEF Typed, ActTypes, countVars
  <2> QED BY <1>5, <2>2, <2>3 DEF Succeeded, Failed
<1>6. CASE GoToResult(v)
  <2>1. AccountTypes'
    BY <1>6, FramesAreTyped DEF GoToResult
  <2>2. result' \in 0 .. MaxTrips
    <3> DEFINE S == Done(look[v])
    <3>1. S \subseteq journal /\ S # {}
      BY <1>6 DEF GoToResult, Done
    <3>2. \E j \in S : \A i \in S : i.trip <= j.trip
      <4> DEFINE N == {j.trip : j \in S}
      <4>1. \A j \in S : j.trip \in 0 .. MaxTrips
        BY <3>1, PartsAreTyped DEF PhoneAssumption
      <4>2. N \subseteq 0 .. MaxTrips /\ N # {} /\ MaxTrips \in Nat
        <5> HIDE DEF S
        <5> QED BY <3>1, <4>1 DEF PhoneAssumption
      <4>3. PICK n \in N : \A i \in N : i <= n
        <5> HIDE DEF N
        <5> QED BY <4>2, LargestExists
      <4> QED BY <4>3
    <3>3. Newest(S) \in S
      <4> HIDE DEF S
      <4> QED BY <3>2 DEF Newest
    <3>4. result' = Newest(S).trip
      BY <1>6 DEF GoToResult
    <3>5. Newest(S) \in journal
      BY <3>1, <3>3
    <3>6. Newest(S).trip \in 1 .. MaxTrips
      <4> HIDE DEF S
      <4> QED BY <3>5, PartsAreTyped
    <3> QED BY <3>4, <3>6 DEF PhoneAssumption
  <2>3. got' \in [market : Markets \cup {NoMarket}, side : {"none"} \cup Sides]
    BY <1>6 DEF GoToResult
  <2>4. ScreenTypes'
    BY <1>6, <1>2, <2>2, <2>3 DEF GoToResult, Typed, ScreenTypes, storedVars
  <2>5. ActTypes'
    <3>1. act' \in [Visits -> Acts]
      BY <1>1, <1>2, <1>6 DEF GoToResult
    <3>2. asks' \in [{"poll", "act"} -> Answers] /\ mishaps' \in SUBSET Mishaps
      BY <1>1, <1>2, <1>3, <1>6 DEF GoToResult
    <3>3. look' \in [Visits -> Looks]
      BY <1>1, <1>2, <1>6 DEF GoToResult
    <3>4. UNCHANGED <<taps, opened>>
      BY <1>6 DEF GoToResult, countVars
    <3> QED BY <3>1, <3>2, <3>3, <3>4 DEF Typed, ActTypes
  <2> QED BY <2>1, <2>4, <2>5 DEF Typed
<1>7. CASE LookAgain(v)
  <2>1. AccountTypes' /\ ScreenTypes'
    BY <1>7, FramesAreTyped DEF LookAgain
  <2>2. look[v] \in Looks /\ look[v].tries \in 0 .. Attempts - 1
    BY PartsAreTyped
  <2>3. look[v].tries + 1 < Attempts => [look[v] EXCEPT !.tries = look[v].tries + 1] \in Looks
    <3>1. look[v].tries + 1 < Attempts => look[v].tries + 1 \in 0 .. Attempts - 1
      BY <2>2 DEF PhoneAssumption
    <3>2. \A k \in Looks, i \in 0 .. Attempts - 1 : [k EXCEPT !.tries = i] \in Looks
      BY DEF Looks
    <3> QED BY <2>2, <3>1, <3>2
  <2>4. look' = [look EXCEPT ![v] = IF look[v].tries + 1 < Attempts
                    THEN [look[v] EXCEPT !.tries = look[v].tries + 1] ELSE NoLook]
    <3>1. CASE look[v].tries + 1 < Attempts
      BY <1>1, <1>7, <3>1 DEF LookAgain
    <3>2. CASE ~(look[v].tries + 1 < Attempts)
      BY <1>1, <1>7, <3>2 DEF LookAgain
    <3> QED BY <3>1, <3>2
  <2>5. look' \in [Visits -> Looks]
    BY <1>1, <1>2, <2>3, <2>4
  <2>6. UNCHANGED <<act, asks, countVars, mishaps>>
    BY <1>7 DEF LookAgain
  <2> QED BY <2>1, <2>5, <2>6 DEF Typed, ActTypes, countVars
<1>8. CASE LoseAnswer(v)
  <2>1. AccountTypes' /\ ScreenTypes'
    BY <1>8, FramesAreTyped DEF LoseAnswer
  <2>2. act' = [act EXCEPT ![v] = [act[v] EXCEPT !.at = "error"]]
    BY <1>1, <1>8 DEF LoseAnswer
  <2>3. act' \in [Visits -> Acts]
    <3>1. [act[v] EXCEPT !.at = "error"] \in Acts
      BY ActsAreUpdated DEF Ats
    <3> QED BY <2>2, <3>1, ActsAreUpdated
  <2>4. mishaps' \in SUBSET Mishaps /\ UNCHANGED <<asks, look, taps, opened>>
    BY <1>3, <1>8 DEF LoseAnswer
  <2> QED BY <2>1, <2>3, <2>4 DEF Typed, ActTypes
<1> QED BY <1>4, <1>5, <1>6, <1>7, <1>8 DEF Continue

(* Every step. *)
LEMMA StepTypes ==
    ASSUME PhoneAssumption, Typed, ActsAreTheirTaps, TripsAreNumbered, [Next]_vars
    PROVE  Typed'
<1>1. CASE \E m \in Markets : PlatformEnds(m) \/ OthersOpen(m)
  <2>1. ScreenTypes' /\ ActTypes' /\ wire' = wire
    BY <1>1, FramesAreTyped DEF PlatformEnds, OthersOpen
  <2>2. AccountTypes'
    <3>1. 0 \in 0 .. MaxTaps /\ wire \in SUBSET wire
      BY NothingIsTyped
    <3>2. CASE \E m \in Markets : PlatformEnds(m)
      <4>1. PICK m \in Markets : EndTrip(m, 0) /\ venue[m].trip # 0
        BY <3>2 DEF PlatformEnds
      <4> QED BY <2>1, <3>1, <4>1, VenueStepTypes
    <3>3. CASE \E m \in Markets : OthersOpen(m)
      BY <3>3, VenueStepTypes
    <3> QED BY <1>1, <3>2, <3>3
  <2> QED BY <2>1, <2>2 DEF Typed
<1>2. CASE \E r \in wire : Handle(r)
  BY <1>2, HandledTypes
<1>3. CASE AnswerAct \/ Poll \/ PollFails \/ ReadSignal \/ TakePoll \/ TakeAct \/ ActPollFails
  BY <1>3, LoopTypes
<1>4. CASE (\E side \in Keys : Tap(side)) \/ ConfirmOpen \/ CloseNow \/ Amend \/ ConfirmReverse
  BY <1>4, PressesAre, PressTypes
<1>5. CASE (\E m \in Markets : Choose(m)) \/ Dismiss \/ AskReverse \/ Leave \/ Return
  <2>1. PICK m \in Markets : Choose(m) \/ Dismiss \/ AskReverse \/ Leave \/ Return
    BY <1>5, NoneIsNoMarket
  <2> QED BY <2>1, GoingTypes
<1>6. CASE \E v \in Visits : Continue(v) \/ LoseAnswer(v)
  BY <1>6, ContinueTypes
<1>7. CASE UNCHANGED vars
  BY <1>7, FramesAreTyped DEF vars, Typed
<1> QED BY <1>1, <1>2, <1>3, <1>4, <1>5, <1>6, <1>7 DEF Next, Others, Platform, User, Phone, Faults

-----------------------------------------------------------------------------
(* The acts and their taps: what the steps do to them *)

(* The searches go on as they were, end, or are new. *)
Searches ==
    \A v \in Visits :
       \/ look'[v] = NoLook
       \/ /\ look'[v].on = look[v].on /\ look'[v].by = look[v].by
          /\ look'[v].trip = look[v].trip
       \/ look'[v].on /\ look'[v].by = "opened"
       \/ /\ look'[v].on /\ look'[v].by = "order"
          /\ \E u \in Visits : /\ act[u].kind = "close" /\ act[u].trip # 0
                               /\ look'[v].trip = act[u].trip

(* An act goes on as it was, is over, or only reads the state now. *)
Ebbs(v) ==
    \/ act'[v] = act[v]
    \/ act'[v] = NoAct
    \/ /\ act[v].kind # "none" /\ (act[v].trip # 0 => act[v].kind = "close")
       /\ act'[v] = [act[v] EXCEPT !.at = "refresh"]
    \/ act[v].at = "sent" /\ act'[v] = [act[v] EXCEPT !.at = "error"]

(* Steps that send nothing and execute nothing. *)
Drops ==
    /\ UNCHANGED <<venue, journal, wire, taps, opened, visit>>
    /\ \A v \in Visits : Ebbs(v)
    /\ Searches
    /\ asking' = "none" \/ reversing' = 0
    /\ asking' # "none" \/ reversing' # 0 => act'[visit] = NoAct
    /\ asks'["act"].at # "idle" => act'[visit].at = "refresh" /\ place' = "strategy"

(* A search is begun unless there is one. *)
LEMMA LookingIs ==
    ASSUME PhoneAssumption, Typed, NEW v \in Visits, NEW by, NEW trip, NEW m,
           look' = Looking(v, by, trip, m), NEW u \in Visits
    PROVE  \/ look'[u] = look[u]
           \/ look'[u] = [on |-> TRUE, by |-> by, trip |-> trip, market |-> m, tries |-> 0]
BY DEF Looking, Typed, ActTypes

LEMMA SearchingIs ==
    ASSUME PhoneAssumption, Typed, NEW v \in Visits, NEW m
    PROVE  /\ look' = look => Searches
           /\ \A trip : look' = Looking(v, "opened", trip, m) => Searches
           /\ \A u \in Visits :
                 act[u].kind = "close" /\ act[u].trip # 0
                 /\ look' = Looking(v, "order", act[u].trip, m) => Searches
<1>1. look' = look => Searches
  BY DEF Searches
<1>2. ASSUME NEW trip, look' = Looking(v, "opened", trip, m) PROVE Searches
  <2>1. ASSUME NEW u \in Visits
        PROVE  \/ look'[u] = look[u]
               \/ look'[u].on /\ look'[u].by = "opened"
    <3>1. \/ look'[u] = look[u]
          \/ look'[u] = [on |-> TRUE, by |-> "opened", trip |-> trip, market |-> m, tries |-> 0]
      BY <1>2, LookingIs
    <3> QED BY <3>1
  <2> QED BY <2>1 DEF Searches
<1>3. ASSUME NEW w \in Visits, act[w].kind = "close" /\ act[w].trip # 0,
             look' = Looking(v, "order", act[w].trip, m)
      PROVE  Searches
  <2>0. PICK trip : trip = act[w].trip
    OBVIOUS
  <2>1. ASSUME NEW u \in Visits
        PROVE  \/ look'[u] = look[u]
               \/ look'[u].on /\ look'[u].by = "order" /\ look'[u].trip = trip
    <3>0. look' = Looking(v, "order", trip, m)
      BY <1>3, <2>0
    <3>1. \/ look'[u] = look[u]
          \/ look'[u] = [on |-> TRUE, by |-> "order", trip |-> trip, market |-> m, tries |-> 0]
      BY <3>0, LookingIs
    <3> QED BY <3>1
  <2> QED BY <1>3, <2>0, <2>1 DEF Searches
<1> QED BY <1>1, <1>2, <1>3

(* What a render may begin to look for. *)
LEMMA RenderSearches ==
    ASSUME PhoneAssumption, Typed, NEW s, NEW doing, NEW closed, Render(s, doing, closed),
           closed # 0 => act[visit].kind = "close" /\ closed = act[visit].trip
    PROVE  Searches
<1>1. visit \in Visits
  BY DEF Typed, ScreenTypes
<1>2. \/ look' = look
      \/ look' = Looking(visit, "opened", was, chosen)
      \/ closed # 0 /\ look' = Looking(visit, "order", closed, chosen)
  BY DEF Render
<1>3. CASE look' = look
  BY <1>1, <1>3, SearchingIs
<1>4. CASE look' = Looking(visit, "opened", was, chosen)
  BY <1>1, <1>4, SearchingIs
<1>5. CASE closed # 0 /\ look' = Looking(visit, "order", closed, chosen)
  <2>1. look' = Looking(visit, "order", act[visit].trip, chosen)
    BY <1>5
  <2> QED BY <1>1, <1>5, <2>1, SearchingIs
<1> QED BY <1>2, <1>3, <1>4, <1>5

(* Nothing is asked for, and no sheet is open, unless nothing is sent. *)
LEMMA EndsAre ==
    ASSUME PhoneAssumption, Typed, ActsAreTheirTaps, OrdersClosed
    PROVE  /\ visit \in Visits /\ act \in [Visits -> Acts]
           /\ asks["act"].at # "idle" /\ act[visit].trip # 0 => act[visit].kind = "close"
           /\ NoAct.kind = "none" /\ NoAct.at = "idle" /\ NoAct.tap = 0 /\ NoAct.trip = 0
           /\ NoAnswer.at = "idle"
<1>1. visit \in Visits /\ act \in [Visits -> Acts]
  BY DEF Typed, ScreenTypes, ActTypes
<1>2. asks["act"].at # "idle" => act[visit].at # "done"
  BY DEF ActsAreTheirTaps
<1> QED BY <1>1, <1>2 DEF OrdersClosed, NoAct, NoAnswer

LEMMA QuietStepsDrop ==
    ASSUME PhoneAssumption, Typed, ActsAreTheirTaps, OrdersClosed,
           \/ Standing \/ AnswerAct \/ Poll \/ PollFails \/ ReadSignal \/ Dismiss
           \/ AskReverse \/ UNCHANGED vars
           \/ \E m \in Markets : Choose(m)
           \/ \E v \in Visits : LookAgain(v)
    PROVE  Drops
<1> USE DEF accountVars, whereVars, sheetVars, countVars, viewVars, storedVars
<1>1. UNCHANGED <<venue, journal, wire, act, taps, opened, visit, place>>
  BY DEF Standing, AnswerAct, Poll, PollFails, ReadSignal, Dismiss, AskReverse, vars, Choose,
         LookAgain
<1>2. \A v \in Visits : Ebbs(v)
  BY <1>1 DEF Ebbs
<1>3. Searches
  <2>1. CASE \E v \in Visits : LookAgain(v)
    <3>1. PICK v \in Visits : LookAgain(v)
      BY <2>1
    <3>2. look \in [Visits -> Looks] /\ look[v] \in Looks
      BY PartsAreTyped DEF Typed, ActTypes
    <3>3. \A u \in Visits \ {v} : look'[u] = look[u]
      BY <3>1, <3>2 DEF LookAgain
    <3>4. CASE look[v].tries + 1 < Attempts
      <4>1. look'[v] = [look[v] EXCEPT !.tries = look[v].tries + 1]
        BY <3>1, <3>2, <3>4 DEF LookAgain
      <4>2. look'[v].on = look[v].on /\ look'[v].by = look[v].by /\ look'[v].trip = look[v].trip
        BY <4>1, <3>2 DEF Looks
      <4> QED BY <3>3, <4>2 DEF Searches
    <3>5. CASE ~(look[v].tries + 1 < Attempts)
      <4>1. look'[v] = NoLook
        BY <3>1, <3>2, <3>5 DEF LookAgain
      <4> QED BY <3>3, <4>1 DEF Searches
    <3> QED BY <3>4, <3>5
  <2>2. CASE look' = look
    BY <2>2 DEF Searches
  <2> QED BY <2>1, <2>2 DEF Standing, AnswerAct, Poll, PollFails, ReadSignal, Dismiss,
                            AskReverse, vars, Choose
<1>4. /\ asking' = "none" \/ reversing' = 0
      /\ asking' # "none" \/ reversing' # 0 => act'[visit] = NoAct
  <2>1. act[visit].kind = "none" => act[visit] = NoAct
    BY DEF ActsAreTheirTaps, Typed, ScreenTypes
  <2>2. CASE Standing
    BY <1>1, <2>1, <2>2 DEF Standing
  <2>3. CASE AskReverse
    BY <1>1, <2>1, <2>3 DEF AskReverse, InReach, sheet, ExitsFree, busy
  <2>4. CASE Dismiss
    BY <2>4 DEF Dismiss
  <2>5. CASE UNCHANGED sheetVars
    BY <1>1, <2>5 DEF ActsAreTheirTaps
  <2> QED BY <2>2, <2>3, <2>4, <2>5 DEF AnswerAct, Poll, PollFails, ReadSignal, vars, Choose, LookAgain
<1>5. asks'["act"].at # "idle" => act'[visit].at = "refresh" /\ place' = "strategy"
  <2>1. asks'["act"].at # "idle" => asks["act"].at # "idle"
    <3>0. asks \in [{"poll", "act"} -> Answers]
      BY DEF Typed, ActTypes
    <3>1. CASE AnswerAct
      BY <3>1, <3>0 DEF AnswerAct
    <3>2. CASE Poll \/ PollFails
      BY <3>2, <3>0 DEF Poll, PollFails
    <3>3. CASE asks' = asks
      BY <3>3
    <3> QED BY <3>1, <3>2, <3>3 DEF Standing, ReadSignal, Dismiss, AskReverse, vars, Choose, LookAgain
  <2> QED BY <1>1, <2>1 DEF ActsAreTheirTaps
<1> QED BY <1>1, <1>2, <1>3, <1>4, <1>5 DEF Drops

(* The answers that are shown. *)
LEMMA TakenStepsDrop ==
    ASSUME PhoneAssumption, Typed, ActsAreTheirTaps, OrdersClosed,
           TakePoll \/ TakeAct \/ ActPollFails
    PROVE  Drops
<1> USE EndsAre DEF accountVars, whereVars, sheetVars, countVars
<1>0. asks \in [{"poll", "act"} -> Answers]
  BY DEF Typed, ActTypes
<1>1. CASE TakePoll
  <2>1. UNCHANGED <<venue, journal, wire, act, taps, opened, visit, place, asking, reversing>>
    BY <1>1 DEF TakePoll
  <2>2. Render(asks["poll"].snap, busy, 0)
    BY <1>1 DEF TakePoll
  <2>3. Searches
    BY <2>2, RenderSearches
  <2>4. asks'["act"] = asks["act"]
    BY <1>0, <1>1 DEF TakePoll
  <2> QED BY <2>1, <2>3, <2>4 DEF Drops, Ebbs, ActsAreTheirTaps
<1>2. CASE TakeAct
  <2>1. UNCHANGED <<venue, journal, wire, taps, opened, visit, place, asking, reversing>>
        /\ act' = [act EXCEPT ![visit] = NoAct] /\ asks' = [asks EXCEPT !["act"] = NoAnswer]
    BY <1>2 DEF TakeAct
  <2>2. Render(asks["act"].snap, "none", act[visit].trip) /\ asks["act"].at = "answered"
    BY <1>2 DEF TakeAct
  <2>3. Searches
    BY <2>2, RenderSearches
  <2>4. asks'["act"].at = "idle"
    BY <1>0, <2>1
  <2>5. act'[visit] = NoAct /\ \A v \in Visits : Ebbs(v)
    BY <2>1 DEF Ebbs
  <2>6. asking = "none" \/ reversing = 0
    BY DEF ActsAreTheirTaps
  <2> QED BY <2>1, <2>3, <2>4, <2>5, <2>6 DEF Drops
<1>3. CASE ActPollFails
  <2>1. UNCHANGED <<venue, journal, wire, taps, opened, visit, place, asking, reversing>>
        /\ act' = [act EXCEPT ![visit] = NoAct] /\ asks' = [asks EXCEPT !["act"] = NoAnswer]
    BY <1>3 DEF ActPollFails
  <2>2. asks["act"].at # "idle"
    BY <1>3 DEF ActPollFails
  <2>3. Searches
    <3>1. CASE act[visit].trip # 0
      <4>1. look' = Looking(visit, "order", act[visit].trip, chosen) /\ act[visit].kind = "close"
        BY <1>3, <2>2, <3>1 DEF ActPollFails
      <4> QED BY <3>1, <4>1, SearchingIs
    <3>2. CASE act[visit].trip = 0
      <4>1. look' = look
        BY <1>3, <3>2 DEF ActPollFails
      <4> QED BY <4>1 DEF Searches
    <3> QED BY <3>1, <3>2
  <2>4. asks'["act"].at = "idle"
    BY <1>0, <2>1
  <2>5. act'[visit] = NoAct /\ \A v \in Visits : Ebbs(v)
    BY <2>1 DEF Ebbs
  <2>6. asking = "none" \/ reversing = 0
    BY DEF ActsAreTheirTaps
  <2> QED BY <2>1, <2>3, <2>4, <2>5, <2>6 DEF Drops
<1> QED BY <1>1, <1>2, <1>3

(* The end of an act, and of a visit. *)
LEMMA EndingStepsDrop ==
    ASSUME PhoneAssumption, Typed, ActsAreTheirTaps, OrdersClosed, NEW v \in Visits,
           Succeeded(v) \/ Failed(v) \/ LoseAnswer(v) \/ GoToResult(v) \/ Leave
    PROVE  Drops
<1> USE EndsAre DEF accountVars, whereVars, sheetVars, countVars
<1>0. asks \in [{"poll", "act"} -> Answers] /\ look \in [Visits -> Looks]
  BY DEF Typed, ActTypes
<1>1. asking = "none" \/ reversing = 0
  BY DEF ActsAreTheirTaps
<1>2. CASE (Succeeded(v) \/ Failed(v)) /\ Refresh(v)
  <2>1. UNCHANGED <<venue, journal, wire, taps, opened, visit, place, asking, reversing>>
    BY <1>2 DEF Succeeded, Failed, Resumes
  <2>2. act[v].kind # "none" /\ (act[v].trip # 0 => act[v].kind = "close")
    <3>1. act[v].kind = "none" => act[v] = NoAct
      BY DEF ActsAreTheirTaps
    <3>2. act[v].at \in {"done", "failed", "error", "cooldown"}
      BY <1>2 DEF Succeeded, Failed
    <3>3. CASE Succeeded(v)
      BY <3>1, <3>2, <3>3 DEF Succeeded, OrdersClosed
    <3>4. CASE Failed(v)
      BY <3>1, <3>2, <3>4 DEF Failed, OrdersClosed
    <3> QED BY <1>2, <3>3, <3>4
  <2>3. CASE Mounted(v)
    <3>1. /\ act' = [act EXCEPT ![v] = [act[v] EXCEPT !.at = "refresh"]]
          /\ look' = look /\ v = visit /\ place = "strategy"
      BY <1>2, <2>3 DEF Refresh, Mounted
    <3>2. act'[v] = [act[v] EXCEPT !.at = "refresh"] /\ \A u \in Visits \ {v} : act'[u] = act[u]
      BY <3>1
    <3>3. act'[v].at = "refresh"
      BY <3>2, PartsAreTyped DEF Acts
    <3>4. Searches
      BY <3>1 DEF Searches
    <3>5. asking = "none" /\ reversing = 0
      BY <2>2, <3>1 DEF ActsAreTheirTaps
    <3>6. \A u \in Visits : Ebbs(u)
      BY <2>2, <3>2 DEF Ebbs
    <3> QED BY <2>1, <3>1, <3>3, <3>4, <3>5, <3>6 DEF Drops
  <2>4. CASE ~Mounted(v)
    <3>1. act' = [act EXCEPT ![v] = NoAct] /\ asks' = asks
      BY <1>2, <2>4 DEF Refresh
    <3>2. act'[v] = NoAct /\ \A u \in Visits \ {v} : act'[u] = act[u]
      BY <3>1
    <3>3. Searches
      <4>1. CASE act[v].kind = "close" /\ act[v].trip # 0
        <5>1. look' = Looking(v, "order", act[v].trip, act[v].market)
          BY <1>2, <2>4, <4>1 DEF Refresh
        <5> QED BY <4>1, <5>1, SearchingIs
      <4>2. CASE ~(act[v].kind = "close" /\ act[v].trip # 0)
        <5>1. look' = look
          BY <1>2, <2>4, <4>2 DEF Refresh
        <5> QED BY <5>1 DEF Searches
      <4> QED BY <4>1, <4>2
    <3>4. \A u \in Visits : Ebbs(u)
      BY <3>2 DEF Ebbs
    <3>5. asks["act"].at # "idle" => v # visit
      BY <2>4 DEF ActsAreTheirTaps, Mounted
    <3>6. asking # "none" \/ reversing # 0 => act'[visit] = NoAct
      BY <3>2 DEF ActsAreTheirTaps
    <3>7. asks'["act"].at # "idle" => act'[visit].at = "refresh" /\ place' = "strategy"
      BY <3>1, <3>2, <3>5, <2>1 DEF ActsAreTheirTaps
    <3> QED BY <1>1, <2>1, <3>3, <3>4, <3>6, <3>7 DEF Drops
  <2> QED BY <2>3, <2>4
<1>3. CASE Failed(v) /\ act' = [act EXCEPT ![v] = NoAct] /\ UNCHANGED <<asks, look>>
  <2>1. UNCHANGED <<venue, journal, wire, taps, opened, visit, place, asking, reversing>>
    BY <1>3 DEF Failed, Resumes
  <2>2. act'[v] = NoAct /\ \A u \in Visits \ {v} : act'[u] = act[u]
    BY <1>3
  <2>3. act[v].at # "refresh"
    BY <1>3 DEF Failed
  <2>4. \A u \in Visits : Ebbs(u)
    BY <2>2 DEF Ebbs
  <2>5. Searches
    BY <1>3 DEF Searches
  <2>6. asking # "none" \/ reversing # 0 => act'[visit] = NoAct
    BY <2>2 DEF ActsAreTheirTaps
  <2>7. asks'["act"].at # "idle" => act'[visit].at = "refresh" /\ place' = "strategy"
    BY <1>3, <2>1, <2>2, <2>3 DEF ActsAreTheirTaps
  <2> QED BY <1>1, <2>1, <2>4, <2>5, <2>6, <2>7 DEF Drops
<1>4. CASE LoseAnswer(v)
  <2>1. UNCHANGED <<venue, journal, wire, taps, opened, visit, place, asking, reversing, asks, look>>
    BY <1>4 DEF LoseAnswer
  <2>2. act[v].at = "sent" /\ act' = [act EXCEPT ![v] = [act[v] EXCEPT !.at = "error"]]
    BY <1>4 DEF LoseAnswer
  <2>3. act'[v] = [act[v] EXCEPT !.at = "error"] /\ \A u \in Visits \ {v} : act'[u] = act[u]
    BY <2>2
  <2>4. act[v] # NoAct
    BY <2>2
  <2>5. \A u \in Visits : Ebbs(u)
    BY <2>2, <2>3 DEF Ebbs
  <2>6. Searches
    BY <2>1 DEF Searches
  <2>7. asking # "none" \/ reversing # 0 => act'[visit] = NoAct
    BY <2>3, <2>4 DEF ActsAreTheirTaps
  <2>8. asks'["act"].at # "idle" => act'[visit].at = "refresh" /\ place' = "strategy"
    BY <2>1, <2>2, <2>3 DEF ActsAreTheirTaps
  <2> QED BY <1>1, <2>1, <2>5, <2>6, <2>7, <2>8 DEF Drops
<1>5. CASE GoToResult(v) \/ Leave
  <2>1. UNCHANGED <<venue, journal, wire, taps, opened, visit>>
    BY <1>5 DEF GoToResult, Leave
  <2>2. act' \in {act, [act EXCEPT ![visit] = NoAct]}
    BY <1>5 DEF GoToResult, Leave
  <2>3. \A u \in Visits : act'[u] \in {act[u], NoAct}
    BY <2>2
  <2>4. \A u \in Visits : Ebbs(u)
    BY <2>3 DEF Ebbs
  <2>5. Searches
    <3>1. look' = look \/ look' = [look EXCEPT ![v] = NoLook]
      BY <1>5 DEF GoToResult, Leave
    <3> QED BY <3>1, <1>0 DEF Searches
  <2>6. asking' = "none" /\ reversing' = 0
    BY <1>5 DEF GoToResult, Leave, sheet
  <2>7. asks'["act"].at = "idle"
    BY <1>5, <1>0 DEF GoToResult, Leave
  <2> QED BY <2>1, <2>4, <2>5, <2>6, <2>7 DEF Drops
<1> QED BY <1>2, <1>3, <1>4, <1>5 DEF Succeeded, Failed

-----------------------------------------------------------------------------
(* The acts and their taps: what the steps keep *)

(* What is left of an act that ebbs. *)
LEMMA EbbIs ==
    ASSUME PhoneAssumption, Typed, ActsAreTheirTaps, NEW v \in Visits, Ebbs(v)
    PROVE  \/ act'[v] = NoAct
           \/ /\ act'[v].kind = act[v].kind /\ act'[v].tap = act[v].tap
              /\ act'[v].stage = act[v].stage /\ act'[v].market = act[v].market
              /\ act'[v].trip = act[v].trip /\ act'[v].side = act[v].side
              /\ act[v].kind # "none"
              /\ \/ act'[v].at = act[v].at
                 \/ act'[v].at = "refresh" /\ (act[v].trip # 0 => act[v].kind = "close")
                 \/ act'[v].at = "error" /\ act[v].at = "sent"
<1>1. act[v] \in Acts
  BY PartsAreTyped
<1>2. act[v].kind = "none" => act[v] = NoAct
  BY DEF ActsAreTheirTaps
<1>3. NoAct.at = "idle"
  BY DEF NoAct
<1>4. CASE act'[v] = act[v]
  BY <1>2, <1>4
<1>5. CASE act'[v] = [act[v] EXCEPT !.at = "refresh"] /\ act[v].kind # "none"
           /\ (act[v].trip # 0 => act[v].kind = "close")
  BY <1>1, <1>5 DEF Acts
<1>6. CASE act[v].at = "sent" /\ act'[v] = [act[v] EXCEPT !.at = "error"]
  <2>1. act[v].kind # "none"
    BY <1>2, <1>3, <1>6
  <2> QED BY <1>1, <1>6, <2>1 DEF Acts
<1> QED BY <1>4, <1>5, <1>6 DEF Ebbs

(* What nothing is. *)
LEMMA NothingIs ==
    /\ NoAct.kind = "none" /\ NoAct.at = "idle" /\ NoAct.stage = 0 /\ NoAct.tap = 0
    /\ NoAct.trip = 0 /\ NoLook.on = FALSE /\ NoLook.by = "none" /\ NoLook.trip = 0
    /\ NoAnswer.at = "idle" /\ NoPosition.trip = 0 /\ NoPosition.owner = "none"
    /\ NoPosition.size = 0
BY DEF NoAct, NoLook, NoAnswer, NoPosition

(* A tap stays dead while no act with it begins. *)
LEMMA DeadStayDead ==
    ASSUME PhoneAssumption, Typed, TapsAreCounted, NEW t \in Nat, Dead(t),
           taps <= taps', taps' \in Nat, opened'[t] = opened[t],
           \A r \in wire' : r.tap = t /\ r.kind = "open" => r \in wire,
           \A v \in Visits : act'[v].tap = t => (act[v].tap = t /\ act'[v].kind = act[v].kind)
                                                \/ act'[v].kind # "reverse"
    PROVE  Dead(t)'
<1>1. t \in 1 .. taps'
  BY DEF Dead, Typed, ActTypes, PhoneAssumption
<1>2. opened'[t] = 0
  BY DEF Dead
<1>3. \A r \in wire' : r.tap = t => r.kind # "open"
  BY DEF Dead
<1>4. \A v \in Visits : act'[v].tap = t => act'[v].kind # "reverse"
  BY DEF Dead
<1> QED BY <1>1, <1>2, <1>3, <1>4 DEF Dead

LEMMA DropsKeepActs ==
    ASSUME PhoneAssumption, Typed, Typed', Books, Drops
    PROVE  TapsAreCounted' /\ ActsAreTheirTaps' /\ RequestsAreTheirActs' /\ OpensAreSpent'
<1> USE NothingIs DEF Books
<1>0. UNCHANGED <<venue, journal, wire, taps, opened, visit>> /\ taps \in 0 .. MaxTaps
  BY DEF Drops, Typed, ActTypes
<1>1. \A v \in Visits : Ebbs(v)
  BY DEF Drops
<1>2. \A v \in Visits :
         \/ act'[v] = NoAct
         \/ /\ act'[v].kind = act[v].kind /\ act'[v].tap = act[v].tap
            /\ act'[v].stage = act[v].stage /\ act'[v].market = act[v].market
            /\ act[v].kind # "none"
            /\ act'[v].at \in {act[v].at, "refresh", "error"}
  BY <1>1, EbbIs
<1>3. \A r \in wire : r.tap \in 1 .. MaxTaps
  BY PartsAreTyped
<1>4. TapsAreCounted'
  BY <1>0, <1>2 DEF TapsAreCounted
<1>5. ActsAreTheirTaps'
  <2>1. \A v \in Visits : act'[v].kind = "none" => act'[v] = NoAct
    BY <1>2
  <2>2. \A v \in Visits : act'[v].kind # "none" => act'[v].tap # 0 /\ act'[v].stage # 0
    BY <1>2 DEF ActsAreTheirTaps
  <2>3. \A v, w \in Visits : act'[v].tap = act'[w].tap /\ act'[v].tap # 0 => v = w
    BY <1>2 DEF ActsAreTheirTaps
  <2>4. \A v \in Visits : v > visit' => act'[v] = NoAct
    BY <1>0, <1>2 DEF ActsAreTheirTaps
  <2>5. \A v \in Visits : act'[v].kind # "none" => act'[v].market \in Markets
    BY <1>2 DEF ActsAreTheirTaps
  <2>6. \A v \in Visits : act'[v].stage \in 2 .. 3 => act'[v].kind = "reverse"
    BY <1>2 DEF ActsAreTheirTaps
  <2>7. /\ asking' = "none" \/ reversing' = 0
        /\ asking' # "none" \/ reversing' # 0 => act'[visit'] = NoAct
        /\ asks'["act"].at # "idle" => act'[visit'].at = "refresh" /\ place' = "strategy"
    BY <1>0 DEF Drops
  <2> QED BY <2>1, <2>2, <2>3, <2>4, <2>5, <2>6, <2>7 DEF ActsAreTheirTaps
<1>6. RequestsAreTheirActs'
  <2>1. \A r, q \in wire' : r.tap = q.tap => r = q
    BY <1>0 DEF RequestsAreTheirActs
  <2>2. \A r \in wire' : r.kind # "open" => r.stage = 1
    BY <1>0 DEF RequestsAreTheirActs
  <2>3. ASSUME NEW r \in wire', NEW v \in Visits, r.tap = act'[v].tap
        PROVE  /\ r.stage = act'[v].stage /\ r.market = act'[v].market
               /\ r.kind = RequestKind(act'[v])
               /\ act'[v].at \notin {"done", "failed", "cooldown"}
    <3>1. r \in wire /\ r.tap # 0
      BY <1>0, <1>3
    <3>2. act'[v] # NoAct
      BY <2>3, <3>1
    <3>3. /\ r.stage = act[v].stage /\ r.market = act[v].market
          /\ r.kind = RequestKind(act[v])
          /\ act[v].at \notin {"done", "failed", "cooldown"}
      BY <1>2, <2>3, <3>1, <3>2 DEF RequestsAreTheirActs
    <3>4. RequestKind(act'[v]) = RequestKind(act[v])
      BY <1>2, <3>2 DEF RequestKind
    <3> QED BY <1>2, <3>2, <3>3, <3>4
  <2> QED BY <2>1, <2>2, <2>3 DEF RequestsAreTheirActs
<1>7. OpensAreSpent'
  <2>1. \A v \in Visits :
          /\ act'[v].kind = "close" => opened[act'[v].tap] = 0
          /\ act'[v].kind = "reverse" /\ act'[v].stage = 1 => opened[act'[v].tap] = 0
          /\ act'[v].at = "cooldown" => opened[act'[v].tap] = 0
    BY <1>2 DEF OpensAreSpent
  <2> QED BY <1>0, <2>1 DEF OpensAreSpent
<1> QED BY <1>4, <1>5, <1>6, <1>7

LEMMA DropsKeepOrders ==
    ASSUME PhoneAssumption, Typed, Typed', Books, Drops
    PROVE  OrdersClosed' /\ TripsAreNumbered'
<1> USE NothingIs DEF Books
<1>0. UNCHANGED <<venue, journal, wire, taps, opened, visit>> /\ taps \in 0 .. MaxTaps
  BY DEF Drops, Typed, ActTypes
<1>1. \A v \in Visits : Ebbs(v)
  BY DEF Drops
<1>2. \A v \in Visits :
         \/ act'[v] = NoAct
         \/ /\ act'[v].kind = act[v].kind /\ act'[v].tap = act[v].tap
            /\ act'[v].stage = act[v].stage /\ act'[v].market = act[v].market
            /\ act'[v].trip = act[v].trip
            /\ \/ act'[v].at = act[v].at
               \/ act[v].trip # 0 => act[v].kind = "close" \/ act[v].at = "sent"
  BY <1>1, EbbIs
<1>3. TripsAreNumbered'
  BY <1>0 DEF TripsAreNumbered, TripsOf
<1>4. ASSUME NEW v \in Visits, act'[v].trip # 0
      PROVE  /\ act'[v].kind = "close" \/ (InReverse(v, {1})' /\ act'[v].at = "done")
             /\ \E j \in journal' : j.trip = act'[v].trip /\ j.by = act'[v].tap
  <2>1. /\ act'[v].kind = act[v].kind /\ act'[v].tap = act[v].tap
        /\ act'[v].stage = act[v].stage /\ act'[v].trip = act[v].trip
        /\ \/ act'[v].at = act[v].at
           \/ act[v].trip # 0 => act[v].kind = "close" \/ act[v].at = "sent"
    BY <1>2, <1>4
  <2>2. /\ act[v].kind = "close" \/ (InReverse(v, {1}) /\ act[v].at = "done")
        /\ \E j \in journal : j.trip = act[v].trip /\ j.by = act[v].tap
    BY <1>4, <2>1 DEF OrdersClosed
  <2> QED BY <1>0, <1>4, <2>1, <2>2 DEF InReverse
<1>5. ASSUME NEW t \in Nat, Dead(t) PROVE Dead(t)'
  <2>1. \A v \in Visits : act'[v].tap = t => (act[v].tap = t /\ act'[v].kind = act[v].kind)
                                            \/ act'[v].kind # "reverse"
    BY <1>2
  <2>2. taps \in Nat /\ opened'[t] = opened[t] /\ wire' = wire /\ taps' = taps
    BY <1>0 DEF PhoneAssumption
  <2> QED BY <1>5, <2>1, <2>2, DeadStayDead
<1>6. \A j \in journal : j.by \in Nat
  BY PartsAreTyped DEF PhoneAssumption
<1>7. ASSUME NEW v \in Visits, act[v].kind = "close", act[v].trip # 0
      PROVE  \E j \in journal : j.trip = act[v].trip /\ j.by # 0 /\ Dead(j.by)
  <2>1. PICK j \in journal : j.trip = act[v].trip /\ j.by = act[v].tap
    BY <1>7 DEF OrdersClosed
  <2>2. act[v].tap # 0 /\ act[v].tap <= taps /\ act[v].tap \in 0 .. MaxTaps
    BY <1>7, PartsAreTyped DEF ActsAreTheirTaps, TapsAreCounted
  <2>3. opened[act[v].tap] = 0
    BY <1>7 DEF OpensAreSpent
  <2>4. \A r \in wire : r.tap = act[v].tap => r.kind # "open"
    BY <1>7 DEF RequestsAreTheirActs, RequestKind, Sides
  <2>5. \A u \in Visits : act[u].tap = act[v].tap => act[u].kind # "reverse"
    BY <1>7, <2>2 DEF ActsAreTheirTaps
  <2>6. act[v].tap \in 1 .. taps
    BY <2>2, <1>0 DEF PhoneAssumption
  <2>7. Dead(j.by)
    BY <2>1, <2>3, <2>4, <2>5, <2>6 DEF Dead
  <2> QED BY <2>1, <2>2, <2>7
<1>8. ASSUME NEW v \in Visits, look'[v].on, look'[v].by = "order"
      PROVE  \E j \in journal' : j.trip = look'[v].trip /\ j.by # 0 /\ Dead(j.by)'
  <2>1. \E j \in journal : j.trip = look'[v].trip /\ j.by # 0 /\ Dead(j.by)
    <3>1. CASE look'[v].on = look[v].on /\ look'[v].by = look[v].by
               /\ look'[v].trip = look[v].trip
      BY <1>8, <3>1 DEF OrdersClosed
    <3>2. CASE \E u \in Visits : /\ act[u].kind = "close" /\ act[u].trip # 0
                                 /\ look'[v].trip = act[u].trip
      BY <3>2, <1>7
    <3> QED BY <1>8, <3>1, <3>2 DEF Drops, Searches
  <2>2. PICK j \in journal : j.trip = look'[v].trip /\ j.by # 0 /\ Dead(j.by)
    BY <2>1
  <2>3. PICK t \in Nat : t = j.by
    BY <1>6
  <2>4. Dead(t)'
    BY <1>5, <2>2, <2>3
  <2>5. j.trip = look'[v].trip /\ j.by # 0 /\ Dead(j.by)' /\ j \in journal'
    BY <1>0, <2>2, <2>3, <2>4
  <2> QED BY <2>5
<1>9. \A v \in Visits : look'[v].on <=> look'[v].by # "none"
  BY DEF Drops, Searches, OrdersClosed
<1>10. \A j \in journal' : \A v \in Visits :
          j.by # 0 /\ j.by = act'[v].tap =>
             /\ act'[v].kind \in {"close", "reverse"}
             /\ j.market = act'[v].market
  BY <1>0, <1>2 DEF OrdersClosed
<1>11. \A j \in journal' : \A r \in wire' :
          j.by = r.tap => r.kind = "open" /\ j.market = r.market
  BY <1>0 DEF OrdersClosed
<1> QED BY <1>3, <1>4, <1>8, <1>9, <1>10, <1>11 DEF OrdersClosed

(* A press begins an act of a new tap, and sends its first request. *)
LEMMA StartsAre ==
    ASSUME PhoneAssumption, Typed, Books, NEW kind \in Kinds \ {"none"}, NEW m \in Markets,
           NEW side \in Sides, NEW lit \in BOOLEAN, Starts(kind, m, side, lit)
    PROVE  /\ act'[visit].kind = kind /\ act'[visit].at = "sent" /\ act'[visit].stage = 1
           /\ act'[visit].market = m /\ act'[visit].side = side
           /\ act'[visit].tap = taps + 1 /\ act'[visit].trip = 0
           /\ \A v \in Visits \ {visit} : act'[v] = act[v]
           /\ taps' = taps + 1 /\ taps + 1 \in 1 .. MaxTaps /\ taps \in Nat
           /\ wire' = wire \cup {[kind |-> FirstRequest(kind), market |-> m, side |-> side,
                                  lit |-> lit, tap |-> taps + 1, stage |-> 1]}
           /\ UNCHANGED <<venue, journal, opened, look, visit, place, asks>>
           /\ asks["act"].at = "idle" /\ act[visit] = NoAct
           /\ asking' = "none" /\ reversing' = 0 /\ visit \in Visits
<1>1. visit \in Visits /\ act \in [Visits -> Acts] /\ taps \in 0 .. MaxTaps
  BY DEF Typed, ScreenTypes, ActTypes
<1>2. Begin(kind, 1, m, side, lit, FirstRequest(kind)) /\ taps < MaxTaps
  BY DEF Starts
<1>3. taps \in Nat /\ taps + 1 \in 1 .. MaxTaps
  BY <1>1, <1>2 DEF PhoneAssumption
<1>4. act' = [act EXCEPT ![visit] = [kind |-> kind, at |-> "sent", stage |-> 1, market |-> m,
                  side |-> side, tap |-> taps + 1, trip |-> 0]]
  BY <1>2 DEF Begin
<1>5. act[visit].kind = "none" /\ act[visit] = NoAct
  BY <1>1 DEF Starts, Books, ActsAreTheirTaps
<1>6. asks["act"].at = "idle"
  BY <1>5, NothingIs DEF Books, ActsAreTheirTaps
<1>7. UNCHANGED <<venue, journal, opened, look, visit, place, asks>>
      /\ asking' = "none" /\ reversing' = 0
  BY DEF Starts, accountVars, whereVars
<1>8. taps' = taps + 1
      /\ wire' = wire \cup {[kind |-> FirstRequest(kind), market |-> m, side |-> side,
                             lit |-> lit, tap |-> taps + 1, stage |-> 1]}
  BY <1>2 DEF Begin
<1> QED BY <1>1, <1>3, <1>4, <1>5, <1>6, <1>7, <1>8

LEMMA StartsKeepBooks ==
    ASSUME PhoneAssumption, Typed, Typed', Books, Starting
    PROVE  Books'
<1> USE NothingIs DEF Books
<1>0. PICK kind \in Kinds \ {"none"}, m \in Markets, side \in Sides, lit \in BOOLEAN :
          Starts(kind, m, side, lit)
  BY DEF Starting
<1> DEFINE req == [kind |-> FirstRequest(kind), market |-> m, side |-> side,
                   lit |-> lit, tap |-> taps + 1, stage |-> 1]
<1>1. /\ act'[visit].kind = kind /\ act'[visit].at = "sent" /\ act'[visit].stage = 1
      /\ act'[visit].market = m /\ act'[visit].side = side
      /\ act'[visit].tap = taps + 1 /\ act'[visit].trip = 0
      /\ \A v \in Visits \ {visit} : act'[v] = act[v]
      /\ taps' = taps + 1 /\ taps + 1 \in 1 .. MaxTaps /\ taps \in Nat
      /\ wire' = wire \cup {req}
      /\ UNCHANGED <<venue, journal, opened, look, visit, place, asks>>
      /\ asks["act"].at = "idle" /\ act[visit] = NoAct
      /\ asking' = "none" /\ reversing' = 0 /\ visit \in Visits
  BY <1>0, StartsAre
<1>2. /\ req.kind = FirstRequest(kind) /\ req.market = m /\ req.tap = taps + 1
      /\ req.stage = 1
  OBVIOUS
<1> HIDE DEF req
<1>3. \A r \in wire : r.tap \in 1 .. MaxTaps /\ r.tap <= taps
  BY PartsAreTyped DEF TapsAreCounted
<1>4. \A v \in Visits : act[v].tap \in 0 .. MaxTaps /\ act[v].tap <= taps
  BY PartsAreTyped DEF TapsAreCounted
<1>5. \A j \in journal : j.by \in 0 .. MaxTaps /\ j.by <= taps
  BY PartsAreTyped DEF TapsAreCounted
<1>6. MaxTaps \in Nat
  BY DEF PhoneAssumption
<1>7. TapsAreCounted'
  <2>1. \A r \in wire' : r.tap <= taps'
    BY <1>1, <1>2, <1>3, <1>6
  <2>2. \A v \in Visits : act'[v].tap <= taps'
    BY <1>1, <1>4, <1>6
  <2>3. \A j \in journal' : j.by <= taps'
    BY <1>1, <1>5, <1>6
  <2>4. \A t \in 1 .. MaxTaps : t > taps' => opened'[t] = 0
    BY <1>1, <1>6 DEF TapsAreCounted
  <2> QED BY <2>1, <2>2, <2>3, <2>4 DEF TapsAreCounted
<1>8. kind # "none" /\ kind \in Kinds
  OBVIOUS
<1>9. ActsAreTheirTaps'
  <2>1. \A v \in Visits : act'[v].kind = "none" => act'[v] = NoAct
    BY <1>1, <1>8 DEF ActsAreTheirTaps
  <2>2. \A v \in Visits : act'[v].kind # "none" => act'[v].tap # 0 /\ act'[v].stage # 0
    BY <1>1, <1>8 DEF ActsAreTheirTaps
  <2>3. \A v, w \in Visits : act'[v].tap = act'[w].tap /\ act'[v].tap # 0 => v = w
    <3>1. \A v \in Visits \ {visit} : act'[v].tap # taps + 1
      BY <1>1, <1>4
    <3> QED BY <1>1, <3>1 DEF ActsAreTheirTaps
  <2>4. \A v \in Visits : v > visit' => act'[v] = NoAct
    <3>1. visit \in Nat
      BY <1>1 DEF Visits, PhoneAssumption
    <3> QED BY <1>1, <3>1 DEF ActsAreTheirTaps
  <2>5. \A v \in Visits : act'[v].kind # "none" => act'[v].market \in Markets
    BY <1>1 DEF ActsAreTheirTaps
  <2>6. \A v \in Visits : act'[v].stage \in 2 .. 3 => act'[v].kind = "reverse"
    BY <1>1 DEF ActsAreTheirTaps
  <2> QED BY <1>1, <2>1, <2>2, <2>3, <2>4, <2>5, <2>6 DEF ActsAreTheirTaps
<1>10. FirstRequest(kind) = RequestKind(act'[visit])
  BY <1>1, <1>8 DEF FirstRequest, RequestKind, Kinds, Sides
<1>11. RequestsAreTheirActs'
  <2>1. \A r, q \in wire' : r.tap = q.tap => r = q
    BY <1>1, <1>2, <1>3, <1>6 DEF RequestsAreTheirActs
  <2>2. \A r \in wire' : r.kind # "open" => r.stage = 1
    BY <1>1, <1>2 DEF RequestsAreTheirActs
  <2>3. ASSUME NEW r \in wire', NEW v \in Visits, r.tap = act'[v].tap
        PROVE  /\ r.stage = act'[v].stage /\ r.market = act'[v].market
               /\ r.kind = RequestKind(act'[v])
               /\ act'[v].at \notin {"done", "failed", "cooldown"}
    <3>1. CASE r \in wire
      <4>1. v # visit
        BY <1>1, <1>3, <1>6, <2>3, <3>1
      <4> QED BY <1>1, <2>3, <3>1, <4>1 DEF RequestsAreTheirActs
    <3>2. CASE r = req
      <4>1. v = visit
        BY <1>1, <1>2, <1>4, <1>6, <2>3, <3>2
      <4> QED BY <1>1, <1>2, <1>10, <3>2, <4>1
    <3> QED BY <1>1, <3>1, <3>2
  <2> QED BY <2>1, <2>2, <2>3 DEF RequestsAreTheirActs
<1>12. opened[taps + 1] = 0
  BY <1>1 DEF TapsAreCounted
<1>13. OpensAreSpent'
  <2>1. \A r \in wire' : opened'[r.tap] = 0
    BY <1>1, <1>2, <1>12 DEF OpensAreSpent
  <2>2. \A v \in Visits :
          /\ act'[v].kind = "close" => opened'[act'[v].tap] = 0
          /\ act'[v].kind = "reverse" /\ act'[v].stage = 1 => opened'[act'[v].tap] = 0
          /\ act'[v].at = "cooldown" => opened'[act'[v].tap] = 0
    BY <1>1, <1>12 DEF OpensAreSpent
  <2> QED BY <1>1, <2>1, <2>2 DEF OpensAreSpent
<1>14. TripsAreNumbered'
  <2>1. venue' = venue /\ journal' = journal
    BY <1>1
  <2>2. TripsOf' = TripsOf
    BY <2>1 DEF TripsOf
  <2>3. TripsAreNumbered
    OBVIOUS
  <2>4. /\ \E n \in 0 .. MaxTrips : TripsOf' = 1 .. n
        /\ \A i, j \in journal' : i.trip = j.trip => i = j
    BY <2>1, <2>2, <2>3 DEF TripsAreNumbered
  <2> QED BY <2>1, <2>3, <2>4 DEF TripsAreNumbered
<1>15. OrdersClosed'
  <2>1. ASSUME NEW v \in Visits, act'[v].trip # 0
        PROVE  /\ act'[v].kind = "close" \/ (InReverse(v, {1})' /\ act'[v].at = "done")
               /\ \E j \in journal' : j.trip = act'[v].trip /\ j.by = act'[v].tap
    <3>1. v # visit /\ act'[v] = act[v]
      BY <1>1, <2>1
    <3>2. /\ act[v].kind = "close" \/ (InReverse(v, {1}) /\ act[v].at = "done")
          /\ \E j \in journal : j.trip = act[v].trip /\ j.by = act[v].tap
      BY <2>1, <3>1 DEF OrdersClosed
    <3> QED BY <1>1, <3>1, <3>2 DEF InReverse
  <2>2. ASSUME NEW t \in Nat, Dead(t) PROVE Dead(t)'
    <3>0. t <= taps
      BY <1>1, <2>2 DEF Dead
    <3>1. \A v \in Visits : act'[v].tap = t => (act[v].tap = t /\ act'[v].kind = act[v].kind)
                                              \/ act'[v].kind # "reverse"
      BY <1>1, <2>2, <3>0
    <3>2. \A r \in wire' : r.tap = t /\ r.kind = "open" => r \in wire
      BY <1>1, <1>2, <3>0
    <3> QED BY <1>1, <2>2, <3>1, <3>2, DeadStayDead
  <2>3. ASSUME NEW v \in Visits, look'[v].on, look'[v].by = "order"
        PROVE  \E j \in journal' : j.trip = look'[v].trip /\ j.by # 0 /\ Dead(j.by)'
    <3>1. PICK j \in journal : j.trip = look[v].trip /\ j.by # 0 /\ Dead(j.by)
      BY <1>1, <2>3 DEF OrdersClosed
    <3>2. PICK t \in Nat : t = j.by
      BY <1>5, <1>6
    <3>3. Dead(t)'
      BY <2>2, <3>1, <3>2
    <3>4. j.trip = look'[v].trip /\ j.by # 0 /\ Dead(j.by)' /\ j \in journal'
      BY <1>1, <3>1, <3>2, <3>3
    <3> QED BY <3>4
  <2>4. \A v \in Visits : look'[v].on <=> look'[v].by # "none"
    BY <1>1 DEF OrdersClosed
  <2>5. \A j \in journal' : \A v \in Visits :
          j.by # 0 /\ j.by = act'[v].tap =>
             /\ act'[v].kind \in {"close", "reverse"}
             /\ j.market = act'[v].market
    <3>1. \A j \in journal : j.by # taps + 1
      BY <1>1, <1>5
    <3> QED BY <1>1, <3>1 DEF OrdersClosed
  <2>6. \A j \in journal' : \A r \in wire' :
          j.by = r.tap => r.kind = "open" /\ j.market = r.market
    <3>1. \A j \in journal : j.by # taps + 1
      BY <1>1, <1>5
    <3> QED BY <1>1, <1>2, <3>1 DEF OrdersClosed
  <2> QED BY <2>1, <2>3, <2>4, <2>5, <2>6 DEF OrdersClosed
<1> QED BY <1>7, <1>9, <1>11, <1>13, <1>14, <1>15

-----------------------------------------------------------------------------
(* The trips: what the venue does to them *)

(* A trip that ends goes from the venue to the journal. *)
LEMMA EndingIs ==
    ASSUME PhoneAssumption, Typed, TripsAreNumbered, NEW m \in Markets,
           NEW tap \in 0 .. MaxTaps, EndTrip(m, tap), venue[m].trip # 0
    PROVE  /\ venue'[m] = NoPosition /\ \A n \in Markets \ {m} : venue'[n] = venue[n]
           /\ \E e \in journal' :
                 /\ journal' = journal \cup {e} /\ e \notin journal
                 /\ e.trip = venue[m].trip /\ e.market = m
                 /\ e.owner = venue[m].owner /\ e.by = tap
           /\ TripsAreNumbered'
<1> DEFINE e == [trip |-> venue[m].trip, market |-> m, owner |-> venue[m].owner, by |-> tap]
<1>1. venue'[m] = NoPosition /\ \A n \in Markets \ {m} : venue'[n] = venue[n]
  BY DEF EndTrip, Typed, AccountTypes
<1>2. journal' = journal \cup {e}
  BY DEF EndTrip
<1>3. e.trip = venue[m].trip /\ e.market = m /\ e.owner = venue[m].owner /\ e.by = tap
  OBVIOUS
<1> HIDE DEF e
<1>4. e \notin journal
  BY <1>3 DEF TripsAreNumbered
<1>5. TripsAreNumbered'
  <2>1. TripsOf' = TripsOf
    <3>1. \A t : t \in TripsOf' => t \in TripsOf
      <4>1. \A n \in Markets : venue'[n].trip # 0 => venue[n].trip = venue'[n].trip
        BY <1>1, NothingIs
      <4>2. \A j \in journal' : \/ j \in journal
                                \/ j.trip = venue[m].trip
        BY <1>2, <1>3
      <4> QED BY <4>1, <4>2 DEF TripsOf
    <3>2. \A t : t \in TripsOf => t \in TripsOf'
      <4>1. \A n \in Markets : venue[n].trip # 0 =>
                (n # m /\ venue'[n].trip = venue[n].trip) \/ (e \in journal' /\ e.trip = venue[n].trip)
        BY <1>1, <1>2, <1>3
      <4>2. journal \subseteq journal'
        BY <1>2
      <4> QED BY <4>1, <4>2 DEF TripsOf
    <3> QED BY <3>1, <3>2
  <2>2. \E n \in 0 .. MaxTrips : TripsOf' = 1 .. n
    BY <2>1 DEF TripsAreNumbered
  <2>0. /\ \A k, n \in Markets : venue[k].trip = venue[n].trip /\ venue[k].trip # 0 => k = n
        /\ \A n \in Markets : \A j \in journal : venue[n].trip # j.trip
        /\ venue'[m].trip = 0
    BY <1>1, NothingIs DEF TripsAreNumbered
  <2>3. \A k, n \in Markets : venue'[k].trip = venue'[n].trip /\ venue'[k].trip # 0 => k = n
    <3>1. \A n \in Markets : venue'[n].trip # 0 => n # m /\ venue'[n].trip = venue[n].trip
      BY <1>1, <2>0
    <3>2. \A k, n \in Markets : venue[k].trip = venue[n].trip /\ venue[k].trip # 0 => k = n
      BY <2>0
    <3> QED BY <3>1, <3>2
  <2>4. \A i, j \in journal' : i.trip = j.trip => i = j
    BY <1>2, <1>3 DEF TripsAreNumbered
  <2>5. \A n \in Markets : \A j \in journal' : venue'[n].trip # j.trip
    <3>1. \A j \in journal' : j.trip # 0
      <4>1. \A j \in journal : j.trip # 0
        BY PartsAreTyped
      <4> QED BY <4>1, <1>2, <1>3
    <3>2. \A j \in journal' : venue'[m].trip # j.trip
      BY <3>1, <1>1, NothingIs
    <3>3. \A n \in Markets \ {m} : \A j \in journal' : venue'[n].trip # j.trip
      <4>1. \A n \in Markets \ {m} : venue'[n].trip = venue[n].trip /\ venue[n].trip # venue[m].trip
        BY <1>1, <2>0
      <4>2. \A j \in journal' : j \in journal \/ j.trip = venue[m].trip
        BY <1>2, <1>3
      <4> QED BY <4>1, <4>2, <2>0
    <3> QED BY <3>2, <3>3
  <2> QED BY <2>2, <2>3, <2>4, <2>5 DEF TripsAreNumbered
<1> QED BY <1>1, <1>2, <1>3, <1>4, <1>5

(* A position that is new is the next trip. *)
LEMMA NewTripIs ==
    ASSUME PhoneAssumption, Typed, TripsAreNumbered, NEW m \in Markets,
           venue[m].trip = 0, NextTrip <= MaxTrips, venue'[m].trip = NextTrip,
           \A n \in Markets \ {m} : venue'[n] = venue[n], journal' = journal
    PROVE  TripsAreNumbered'
<1>1. NextTrip \in Nat \ {0} /\ TripsOf = 1 .. (NextTrip - 1)
      /\ (\A n \in Markets : venue[n].trip < NextTrip) /\ (\A j \in journal : j.trip < NextTrip)
  BY NextTripIsNew
<1>2. \A n \in Markets : venue[n].trip \in Int
  BY PartsAreTyped
<1>3. \A j \in journal : j.trip \in Int
  BY PartsAreTyped
<1>4. PICK k \in Nat \ {0} : k = NextTrip
  BY <1>1
<1>5. TripsOf' = TripsOf \cup {k}
  <2>1. \A t : t \in TripsOf' <=> t \in TripsOf \/ t = k
    <3>1. \A n \in Markets : n # m => venue'[n].trip = venue[n].trip
      OBVIOUS
    <3>2. venue'[m].trip = k /\ k # 0 /\ venue[m].trip = 0
      BY <1>4
    <3> QED BY <3>1, <3>2 DEF TripsOf
  <2> QED BY <2>1
<1>6. TripsOf' = 1 .. k
  <2>1. TripsOf = 1 .. (k - 1)
    BY <1>1, <1>4
  <2>2. (1 .. (k - 1)) \cup {k} = 1 .. k
    OBVIOUS
  <2> QED BY <1>5, <2>1, <2>2
<1>7. \E n \in 0 .. MaxTrips : TripsOf' = 1 .. n
  BY <1>4, <1>6 DEF PhoneAssumption
<1>8. \A a, n \in Markets : venue'[a].trip = venue'[n].trip /\ venue'[a].trip # 0 => a = n
  <2>1. \A n \in Markets \ {m} : venue'[n].trip # k
    <3>1. \A n \in Markets : venue[n].trip # k
      BY <1>1, <1>2, <1>4
    <3> QED BY <3>1
  <2>2. \A a, n \in Markets : venue[a].trip = venue[n].trip /\ venue[a].trip # 0 => a = n
    BY DEF TripsAreNumbered
  <2>3. \A n \in Markets \ {m} : venue'[n].trip = venue[n].trip
    OBVIOUS
  <2>4. venue'[m].trip = k
    BY <1>4
  <2> QED BY <2>1, <2>2, <2>3, <2>4
<1>9. \A n \in Markets : \A j \in journal' : venue'[n].trip # j.trip
  <2>1. \A j \in journal : j.trip # k
    BY <1>1, <1>3, <1>4
  <2> QED BY <2>1, <1>4 DEF TripsAreNumbered
<1>10. \A i, j \in journal' : i.trip = j.trip => i = j
  BY DEF TripsAreNumbered
<1> QED BY <1>7, <1>8, <1>9, <1>10 DEF TripsAreNumbered

(* More of a position is no trip. *)
LEMMA SameTripsAre ==
    ASSUME TripsAreNumbered, \A n \in Markets : venue'[n].trip = venue[n].trip, journal' = journal
    PROVE  TripsAreNumbered'
<1>1. TripsOf' = TripsOf
  <2>1. \A t : t \in TripsOf' <=> t \in TripsOf
    BY DEF TripsOf
  <2> QED BY <2>1
<1> QED BY <1>1 DEF TripsAreNumbered

(***************************************************************************)
(* A position ended or opened by others: no act hears of it, and a journal *)
(* with one more trip still names what an order closed.                    *)
(***************************************************************************)
LEMMA OthersKeepBooks ==
    ASSUME PhoneAssumption, Typed, Typed', Books, Others
    PROVE  Books'
<1> USE DEF Books
<1>0. UNCHANGED <<wire, act, asks, look, taps, opened, visit, place, asking, reversing>>
  BY DEF Others, PlatformEnds, OthersOpen, whereVars, sheetVars, countVars
<1>1. /\ journal \subseteq journal' /\ \A j \in journal' : j \in journal \/ j.by = 0
      /\ TripsAreNumbered'
  <2>1. CASE \E m \in Markets : PlatformEnds(m)
    <3>1. PICK m \in Markets : EndTrip(m, 0) /\ venue[m].trip # 0
      BY <2>1 DEF PlatformEnds
    <3>2. 0 \in 0 .. MaxTaps
      BY NothingIsTyped
    <3>3. /\ \E e \in journal' : journal' = journal \cup {e} /\ e.by = 0
          /\ TripsAreNumbered'
      BY <3>1, <3>2, EndingIs
    <3> QED BY <3>3
  <2>2. CASE \E m \in Markets : OthersOpen(m)
    <3>1. PICK m \in Markets : OthersOpen(m)
      BY <2>2
    <3>2. PICK owner \in Outsiders : venue' = [venue EXCEPT ![m] = [trip |-> NextTrip,
              owner |-> owner, side |-> "up", onSignal |-> FALSE, size |-> 1]]
      BY <3>1 DEF OthersOpen
    <3>3. venue'[m].trip = NextTrip /\ \A n \in Markets \ {m} : venue'[n] = venue[n]
      BY <3>2 DEF Typed, AccountTypes
    <3>4. venue[m].trip = 0 /\ NextTrip <= MaxTrips /\ journal' = journal
      BY <3>1 DEF OthersOpen
    <3>5. TripsAreNumbered'
      BY <3>3, <3>4, NewTripIs
    <3> QED BY <3>4, <3>5
  <2> QED BY <2>1, <2>2 DEF Others
<1>2. ActsAreTheirTaps' /\ RequestsAreTheirActs' /\ OpensAreSpent'
  BY <1>0 DEF ActsAreTheirTaps, RequestsAreTheirActs, OpensAreSpent
<1>3. taps \in Nat /\ \A r \in wire : r.tap # 0
  BY PartsAreTyped DEF Typed, ActTypes, PhoneAssumption
<1>4. TapsAreCounted'
  <2>1. \A j \in journal' : j.by <= taps
    BY <1>1, <1>3 DEF TapsAreCounted
  <2> QED BY <1>0, <2>1 DEF TapsAreCounted
<1>5. \A t : Dead(t) => Dead(t)'
  BY <1>0 DEF Dead
<1>6. OrdersClosed'
  <2>1. \A v \in Visits :
          act'[v].trip # 0 =>
             /\ act'[v].kind = "close" \/ (InReverse(v, {1})' /\ act'[v].at = "done")
             /\ \E j \in journal' : j.trip = act'[v].trip /\ j.by = act'[v].tap
    BY <1>0, <1>1 DEF OrdersClosed, InReverse
  <2>2. ASSUME NEW v \in Visits, look'[v].on, look'[v].by = "order"
        PROVE  \E j \in journal' : j.trip = look'[v].trip /\ j.by # 0 /\ Dead(j.by)'
    <3>1. PICK j \in journal : j.trip = look[v].trip /\ j.by # 0 /\ Dead(j.by)
      BY <1>0, <2>2 DEF OrdersClosed
    <3>2. PICK t : t = j.by
      OBVIOUS
    <3>3. Dead(t)'
      BY <1>5, <3>1, <3>2
    <3>4. j.trip = look'[v].trip /\ j.by # 0 /\ Dead(j.by)' /\ j \in journal'
      BY <1>0, <1>1, <3>1, <3>2, <3>3
    <3> QED BY <3>4
  <2>3. \A v \in Visits : look'[v].on <=> look'[v].by # "none"
    BY <1>0 DEF OrdersClosed
  <2>4. \A j \in journal' : \A v \in Visits :
          j.by # 0 /\ j.by = act'[v].tap =>
             /\ act'[v].kind \in {"close", "reverse"}
             /\ j.market = act'[v].market
    BY <1>0, <1>1 DEF OrdersClosed
  <2>5. \A j \in journal' : \A r \in wire' :
          j.by = r.tap => r.kind = "open" /\ j.market = r.market
    BY <1>0, <1>1, <1>3 DEF OrdersClosed
  <2> QED BY <2>1, <2>2, <2>3, <2>4, <2>5 DEF OrdersClosed
<1> QED BY <1>1, <1>2, <1>4, <1>6

-----------------------------------------------------------------------------
(* What the platform does with a request *)

(***************************************************************************)
(* An act that waits for the answer has it; every other goes on.           *)
(***************************************************************************)
LEMMA AnsweredIs ==
    ASSUME PhoneAssumption, Typed, Books, NEW r \in wire, NEW a \in Ats, NEW i \in 0 .. MaxTrips,
           act' = Answered(r, a, i), NEW v \in Visits
    PROVE  \/ act'[v] = act[v] /\ ~Waits(v, r)
           \/ /\ Waits(v, r)
              /\ act[v].tap = r.tap /\ act[v].at = "sent" /\ act[v].kind # "none"
              /\ act'[v].kind = act[v].kind /\ act'[v].tap = act[v].tap
              /\ act'[v].stage = act[v].stage /\ act'[v].market = act[v].market
              /\ act'[v].side = act[v].side /\ act'[v].at = a /\ act'[v].trip = i
<1>1. act[v] \in Acts
  BY PartsAreTyped
<1>2. act'[v] = IF Waits(v, r) THEN [act[v] EXCEPT !.at = a, !.trip = i] ELSE act[v]
  BY DEF Answered
<1>3. CASE Waits(v, r)
  <2>1. act[v].tap = r.tap /\ act[v].at = "sent" /\ act[v].kind # "none"
    BY <1>3, NothingIs DEF Waits, Books, ActsAreTheirTaps
  <2> QED BY <1>1, <1>2, <1>3, <2>1 DEF Acts
<1>4. CASE ~Waits(v, r)
  BY <1>2, <1>4
<1> QED BY <1>3, <1>4

(***************************************************************************)
(* The answered act, its request gone: what every answer has in common.    *)
(* `why' is what it is told; only an open that executes is counted.        *)
(***************************************************************************)
Answers1(r, why, trip) ==
    /\ act' = Answered(r, why, trip) /\ wire' = wire \ {r}
    /\ UNCHANGED <<asks, look, taps, visit, place, asking, reversing>>

LEMMA AnswersAre ==
    ASSUME PhoneAssumption, Typed, NEW r \in wire, Handle(r)
    PROVE  /\ \E why \in Ats, trip \in 0 .. MaxTrips :
                 /\ Answers1(r, why, trip) /\ why \in {"done", "failed", "error", "cooldown"}
                 /\ why = "cooldown" => r.kind = "open"
                 /\ trip # 0 => ExecuteClose(r) /\ why = "done" /\ trip = venue[r.market].trip
           /\ opened' = IF ExecuteOpen(r) THEN [opened EXCEPT ![r.tap] = @ + 1] ELSE opened
           /\ ExecuteOpen(r) \/ ExecuteClose(r) \/ UNCHANGED accountVars
<1> USE DEF whereVars, sheetVars, countVars, Ats
<1>1. 0 \in 0 .. MaxTrips /\ venue[r.market].trip \in 0 .. MaxTrips
  BY NothingIsTyped, PartsAreTyped
<1>2. CASE ExecuteOpen(r)
  BY <1>1, <1>2 DEF ExecuteOpen, Answers1
<1>3. CASE ExecuteClose(r)
  <2>1. r.kind = "close"
    BY <1>3 DEF ExecuteClose
  <2>2. ~ExecuteOpen(r)
    BY <2>1 DEF ExecuteOpen
  <2>3. Answers1(r, "done", venue[r.market].trip) /\ opened' = opened
    BY <1>3 DEF ExecuteClose, Answers1
  <2> QED BY <1>1, <1>3, <2>2, <2>3
<1>4. CASE ExecuteAmend(r)
  <2>1. r.kind = "amend"
    BY <1>4 DEF ExecuteAmend
  <2>2. ~ExecuteOpen(r)
    BY <2>1 DEF ExecuteOpen
  <2>3. Answers1(r, "done", 0) /\ opened' = opened /\ UNCHANGED accountVars
    BY <1>4 DEF ExecuteAmend, Answers1
  <2> QED BY <1>1, <2>2, <2>3
<1>5. CASE Refuse(r) /\ ~ExecuteOpen(r)
  <2>1. PICK why \in IF r.kind = "open" THEN {"error", "cooldown", "failed"} ELSE {"error"} :
            act' = Answered(r, why, 0)
    BY <1>5 DEF Refuse
  <2>2. why \in Ats /\ why \in {"done", "failed", "error", "cooldown"}
        /\ (why = "cooldown" => r.kind = "open")
    BY <2>1
  <2>3. Answers1(r, why, 0) /\ opened' = opened /\ UNCHANGED accountVars
    BY <1>5, <2>1 DEF Refuse, Answers1
  <2> QED BY <1>1, <1>5, <2>2, <2>3
<1> QED BY <1>2, <1>3, <1>4, <1>5 DEF Handle

(* A request that is handled leaves none of its tap. *)
LEMMA HandledKeepActs ==
    ASSUME PhoneAssumption, Typed, Typed', Books, NEW r \in wire, Handle(r)
    PROVE  ActsAreTheirTaps' /\ RequestsAreTheirActs' /\ OpensAreSpent'
<1> USE DEF Books
<1>1. PICK why \in Ats, trip \in 0 .. MaxTrips :
          /\ Answers1(r, why, trip) /\ why \in {"done", "failed", "error", "cooldown"}
          /\ why = "cooldown" => r.kind = "open"
  BY AnswersAre
<1>2. /\ act' = Answered(r, why, trip) /\ wire' = wire \ {r}
      /\ UNCHANGED <<asks, look, taps, visit, place, asking, reversing>>
  BY <1>1 DEF Answers1
<1>3. \A v \in Visits :
         \/ act'[v] = act[v] /\ ~Waits(v, r)
         \/ /\ act[v].tap = r.tap /\ act[v].at = "sent" /\ act[v].kind # "none"
            /\ act'[v].kind = act[v].kind /\ act'[v].tap = act[v].tap
            /\ act'[v].stage = act[v].stage /\ act'[v].market = act[v].market
            /\ act'[v].at = why
  BY <1>2, AnsweredIs
<1>4. \A v \in Visits : act'[v].kind = act[v].kind /\ act'[v].tap = act[v].tap
            /\ act'[v].stage = act[v].stage /\ act'[v].market = act[v].market
  BY <1>3
<1>5. \A q \in wire : q.tap = r.tap => q = r
  BY DEF RequestsAreTheirActs
<1>6. ActsAreTheirTaps'
  <2>1. \A v \in Visits : act'[v].kind = "none" => act'[v] = NoAct
    BY <1>3 DEF ActsAreTheirTaps
  <2>2. \A v \in Visits : act[v] = NoAct => act'[v] = NoAct
    BY <1>3, NothingIs
  <2>3. asks'["act"].at # "idle" => act'[visit].at = "refresh" /\ place' = "strategy"
    <3>1. visit \in Visits
      BY DEF Typed, ScreenTypes
    <3> QED BY <1>2, <1>3, <3>1 DEF ActsAreTheirTaps
  <2>4. \A v \in Visits : v > visit' => act'[v] = NoAct
    BY <1>2, <2>2 DEF ActsAreTheirTaps
  <2>5. asking' # "none" \/ reversing' # 0 => act'[visit'] = NoAct
    BY <1>2, <2>2 DEF ActsAreTheirTaps, Typed, ScreenTypes
  <2> QED BY <1>2, <1>4, <2>1, <2>3, <2>4, <2>5 DEF ActsAreTheirTaps
<1>7. RequestsAreTheirActs'
  <2>1. ASSUME NEW q \in wire', NEW v \in Visits, q.tap = act'[v].tap
        PROVE  /\ q.stage = act'[v].stage /\ q.market = act'[v].market
               /\ q.kind = RequestKind(act'[v])
               /\ act'[v].at \notin {"done", "failed", "cooldown"}
    <3>1. q \in wire /\ q # r /\ q.tap # r.tap
      BY <1>2, <1>5
    <3>2. act'[v] = act[v]
      BY <1>3, <2>1, <3>1
    <3> QED BY <2>1, <3>1, <3>2 DEF RequestsAreTheirActs
  <2> QED BY <1>2, <2>1 DEF RequestsAreTheirActs
<1>8. opened' = IF ExecuteOpen(r) THEN [opened EXCEPT ![r.tap] = @ + 1] ELSE opened
  BY AnswersAre
<1>9. r.tap \in 1 .. MaxTaps /\ opened \in [1 .. MaxTaps -> Nat] /\ opened[r.tap] = 0
  BY PartsAreTyped DEF OpensAreSpent, Typed, ActTypes
<1>10. \A t \in 1 .. MaxTaps : t # r.tap => opened'[t] = opened[t]
  BY <1>8, <1>9
<1>11. opened'[r.tap] \in {0, 1} /\ (opened'[r.tap] # 0 => ExecuteOpen(r))
  BY <1>8, <1>9
<1>12. OpensAreSpent'
  <2>1. \A t \in 1 .. MaxTaps : opened'[t] <= 1
    BY <1>10, <1>11 DEF OpensAreSpent
  <2>2. \A q \in wire' : opened'[q.tap] = 0
    <3>1. \A q \in wire' : q \in wire /\ q.tap # r.tap /\ q.tap \in 1 .. MaxTaps
      BY <1>2, <1>5, PartsAreTyped
    <3> QED BY <3>1, <1>10 DEF OpensAreSpent
  <2>3. ASSUME NEW v \in Visits,
               \/ act'[v].kind = "close"
               \/ act'[v].kind = "reverse" /\ act'[v].stage = 1
               \/ act'[v].at = "cooldown"
        PROVE  opened'[act'[v].tap] = 0
    <3>0. act[v].kind # "none" \/ act'[v].at # "cooldown"
      BY <1>3, NothingIs DEF ActsAreTheirTaps
    <3>1. act[v].tap \in 1 .. MaxTaps
      BY <2>3, <3>0, <1>4, PartsAreTyped DEF ActsAreTheirTaps
    <3>2. CASE act[v].tap # r.tap
      <4>1. act'[v] = act[v]
        BY <1>3, <3>2
      <4> QED BY <2>3, <3>1, <3>2, <4>1, <1>10 DEF OpensAreSpent
    <3>3. CASE act[v].tap = r.tap
      <4>1. r.kind = RequestKind(act[v]) /\ act[v].at # "cooldown"
        BY <3>3 DEF RequestsAreTheirActs
      <4>2. CASE act'[v].kind = "close" \/ (act'[v].kind = "reverse" /\ act'[v].stage = 1)
        <5>1. r.kind = "close"
          BY <1>4, <4>1, <4>2 DEF RequestKind, Sides
        <5>2. ~ExecuteOpen(r)
          BY <5>1 DEF ExecuteOpen
        <5> QED BY <1>4, <1>8, <1>9, <3>3, <5>2
      <4>3. CASE act'[v].at = "cooldown"
        <5>1. why = "cooldown"
          BY <1>3, <4>1, <4>3
        <5>2. ~ExecuteOpen(r)
          <6>1. ASSUME ExecuteOpen(r) PROVE FALSE
            <7>1. act' = Answered(r, "done", 0)
              BY <6>1 DEF ExecuteOpen
            <7>2. 0 \in 0 .. MaxTrips /\ "done" \in Ats
              BY NothingIsTyped DEF Ats
            <7>3. act'[v] = act[v] \/ act'[v].at = "done"
              BY <7>1, <7>2, AnsweredIs
            <7> QED BY <7>3, <4>1, <4>3
          <6> QED BY <6>1
        <5> QED BY <1>4, <1>8, <1>9, <3>3, <5>2
      <4> QED BY <2>3, <4>2, <4>3
    <3> QED BY <3>2, <3>3
  <2> QED BY <2>1, <2>2, <2>3 DEF OpensAreSpent
<1> QED BY <1>6, <1>7, <1>12

(* What the platform does with a request to the trips. *)
LEMMA HandledTrips ==
    ASSUME PhoneAssumption, Typed, Books, NEW r \in wire, Handle(r)
    PROVE  /\ TripsAreNumbered' /\ journal \subseteq journal'
           /\ \A j \in journal' :
                 \/ j \in journal
                 \/ /\ ExecuteClose(r) /\ r.kind = "close" /\ j.by = r.tap
                    /\ j.market = r.market /\ j.trip = venue[r.market].trip
           /\ ExecuteClose(r) => \E j \in journal' : j.by = r.tap /\ j.trip = venue[r.market].trip
<1> USE DEF Books
<1>0. r.market \in Markets /\ r.tap \in 0 .. MaxTaps
  BY PartsAreTyped DEF PhoneAssumption
<1>1. CASE ExecuteOpen(r)
  <2>0. journal' = journal /\ ~ExecuteClose(r)
    BY <1>1 DEF ExecuteOpen, ExecuteClose
  <2>1. CASE venue[r.market].trip = 0
    <3>1. /\ NextTrip <= MaxTrips
          /\ venue' = [venue EXCEPT ![r.market] = [trip |-> NextTrip, owner |-> "mine",
                            side |-> r.side, onSignal |-> r.lit, size |-> 1]]
      BY <1>1, <2>1 DEF ExecuteOpen
    <3>2. venue'[r.market].trip = NextTrip /\ \A n \in Markets \ {r.market} : venue'[n] = venue[n]
      BY <3>1, <1>0 DEF Typed, AccountTypes
    <3>3. TripsAreNumbered'
      BY <1>0, <2>0, <2>1, <3>1, <3>2, NewTripIs
    <3> QED BY <2>0, <3>3
  <2>2. CASE venue[r.market].trip # 0
    <3>1. venue' = [venue EXCEPT ![r.market].size = @ + 1, ![r.market].owner = "mine"]
      BY <1>1, <2>2 DEF ExecuteOpen
    <3>2. \A n \in Markets : venue[n] \in Positions
      BY PartsAreTyped
    <3>3. \A n \in Markets : venue'[n].trip = venue[n].trip
      BY <3>1, <3>2, <1>0 DEF Typed, AccountTypes, Positions
    <3>4. TripsAreNumbered'
      BY <2>0, <3>3, SameTripsAre
    <3> QED BY <2>0, <3>4
  <2> QED BY <2>1, <2>2
<1>2. CASE ExecuteClose(r)
  <2>1. EndTrip(r.market, r.tap) /\ venue[r.market].trip # 0 /\ r.kind = "close"
    BY <1>2 DEF ExecuteClose
  <2>2. /\ \E e \in journal' :
                 /\ journal' = journal \cup {e}
                 /\ e.trip = venue[r.market].trip /\ e.market = r.market /\ e.by = r.tap
        /\ TripsAreNumbered'
    BY <2>1, <1>0, EndingIs
  <2> QED BY <2>1, <2>2, <1>2
<1>3. CASE UNCHANGED accountVars /\ ~ExecuteClose(r)
  <2>1. journal' = journal /\ venue' = venue
    BY <1>3 DEF accountVars
  <2>2. TripsAreNumbered'
    BY <2>1, SameTripsAre
  <2> QED BY <1>3, <2>1, <2>2
<1> QED BY <1>1, <1>2, <1>3, AnswersAre

(***************************************************************************)
(* A close that is executed is journaled under its tap, and its act is     *)
(* told which trip it was.                                                 *)
(***************************************************************************)
LEMMA HandledKeepOrders ==
    ASSUME PhoneAssumption, Typed, Typed', Books, NEW r \in wire, Handle(r)
    PROVE  TapsAreCounted' /\ OrdersClosed' /\ TripsAreNumbered'
<1> USE DEF Books
<1>1. PICK why \in Ats, trip \in 0 .. MaxTrips :
          /\ Answers1(r, why, trip) /\ why \in {"done", "failed", "error", "cooldown"}
          /\ trip # 0 => ExecuteClose(r) /\ why = "done" /\ trip = venue[r.market].trip
  BY AnswersAre
<1>2. /\ act' = Answered(r, why, trip) /\ wire' = wire \ {r}
      /\ UNCHANGED <<asks, look, taps, visit, place, asking, reversing>>
  BY <1>1 DEF Answers1
<1>3. \A v \in Visits :
         \/ act'[v] = act[v] /\ ~Waits(v, r)
         \/ /\ act[v].tap = r.tap /\ act[v].at = "sent" /\ act[v].kind # "none"
            /\ act'[v].kind = act[v].kind /\ act'[v].tap = act[v].tap
            /\ act'[v].stage = act[v].stage /\ act'[v].market = act[v].market
            /\ act'[v].at = why /\ act'[v].trip = trip
  BY <1>2, AnsweredIs
<1>4. \A v \in Visits : act'[v].kind = act[v].kind /\ act'[v].tap = act[v].tap
            /\ act'[v].stage = act[v].stage /\ act'[v].market = act[v].market
  BY <1>3
<1>5. \A q \in wire : q.tap = r.tap => q = r
  BY DEF RequestsAreTheirActs
<1>6. /\ TripsAreNumbered' /\ journal \subseteq journal'
      /\ \A j \in journal' :
            \/ j \in journal
            \/ /\ ExecuteClose(r) /\ r.kind = "close" /\ j.by = r.tap
               /\ j.market = r.market /\ j.trip = venue[r.market].trip
      /\ ExecuteClose(r) => \E j \in journal' : j.by = r.tap /\ j.trip = venue[r.market].trip
  BY HandledTrips
<1>7. opened' = IF ExecuteOpen(r) THEN [opened EXCEPT ![r.tap] = @ + 1] ELSE opened
  BY AnswersAre
<1>8. r.tap \in 1 .. MaxTaps /\ opened \in [1 .. MaxTaps -> Nat] /\ r.tap <= taps
      /\ taps \in 0 .. MaxTaps /\ MaxTaps \in Nat
  BY PartsAreTyped DEF TapsAreCounted, Typed, ActTypes, PhoneAssumption
<1>9. \A t \in 1 .. MaxTaps : t # r.tap => opened'[t] = opened[t]
  BY <1>7, <1>8
<1>10. TapsAreCounted'
  <2>1. \A t \in 1 .. MaxTaps : t > taps' => opened'[t] = 0
    <3>1. \A t \in 1 .. MaxTaps : t > taps => t # r.tap
      BY <1>8
    <3> QED BY <1>2, <1>9, <3>1 DEF TapsAreCounted
  <2>2. \A j \in journal' : j.by <= taps'
    BY <1>2, <1>6, <1>8 DEF TapsAreCounted
  <2> QED BY <1>2, <1>4, <2>1, <2>2 DEF TapsAreCounted
<1>11. ASSUME NEW t \in Nat, Dead(t) PROVE Dead(t)'
  <2>1. t \in 1 .. MaxTaps
    BY <1>8, <1>11 DEF Dead
  <2>2. opened'[t] = opened[t]
    <3>1. CASE t # r.tap
      BY <2>1, <3>1, <1>9
    <3>2. CASE t = r.tap
      <4>1. r.kind # "open"
        BY <3>2, <1>11 DEF Dead
      <4> QED BY <4>1, <1>7 DEF ExecuteOpen
    <3> QED BY <3>1, <3>2
  <2>3. taps <= taps' /\ taps' \in Nat
    BY <1>2, <1>8
  <2>4. \A q \in wire' : q \in wire
    BY <1>2
  <2> QED BY <1>4, <1>11, <2>2, <2>3, <2>4, DeadStayDead
<1>12. \A j \in journal : j.by \in Nat
  BY PartsAreTyped DEF PhoneAssumption
<1>13. ASSUME NEW v \in Visits, act'[v].trip # 0
       PROVE  /\ act'[v].kind = "close" \/ (InReverse(v, {1})' /\ act'[v].at = "done")
              /\ \E j \in journal' : j.trip = act'[v].trip /\ j.by = act'[v].tap
  <2>1. CASE act'[v] = act[v]
    BY <1>6, <1>13, <2>1 DEF OrdersClosed, InReverse
  <2>2. CASE act'[v] # act[v]
    <3>1. act[v].tap = r.tap /\ act'[v].at = why /\ act'[v].trip = trip /\ act[v].kind # "none"
      BY <2>2, <1>3
    <3>2. ExecuteClose(r) /\ why = "done" /\ trip = venue[r.market].trip
      BY <3>1, <1>1, <1>13
    <3>3. RequestKind(act[v]) = "close" /\ act[v].kind \in Kinds
      BY <3>1, <3>2, PartsAreTyped DEF RequestsAreTheirActs, ExecuteClose
    <3>4. act[v].kind = "close" \/ (act[v].kind = "reverse" /\ act[v].stage = 1)
      BY <3>3 DEF RequestKind, Sides
    <3> QED BY <1>4, <1>6, <3>1, <3>2, <3>4 DEF InReverse
  <2> QED BY <2>1, <2>2
<1>14. ASSUME NEW v \in Visits, look'[v].on, look'[v].by = "order"
       PROVE  \E j \in journal' : j.trip = look'[v].trip /\ j.by # 0 /\ Dead(j.by)'
  <2>1. PICK j \in journal : j.trip = look[v].trip /\ j.by # 0 /\ Dead(j.by)
    BY <1>2, <1>14 DEF OrdersClosed
  <2>2. PICK t \in Nat : t = j.by
    BY <1>12
  <2>3. Dead(t)'
    BY <1>11, <2>1, <2>2
  <2>4. j.trip = look'[v].trip /\ j.by # 0 /\ Dead(j.by)' /\ j \in journal'
    BY <1>2, <1>6, <2>1, <2>2, <2>3
  <2> QED BY <2>4
<1>15. \A v \in Visits : look'[v].on <=> look'[v].by # "none"
  BY <1>2 DEF OrdersClosed
<1>16. ASSUME NEW j \in journal', NEW v \in Visits, j.by # 0, j.by = act'[v].tap
       PROVE  act'[v].kind \in {"close", "reverse"} /\ j.market = act'[v].market
  <2>1. CASE j \in journal
    BY <1>4, <1>16, <2>1 DEF OrdersClosed
  <2>2. CASE r.kind = "close" /\ j.by = r.tap /\ j.market = r.market
    <3>0. r.tap = act[v].tap /\ act[v].kind \in Kinds
      BY <1>4, <1>16, <2>2, PartsAreTyped
    <3>1. RequestKind(act[v]) = "close" /\ act[v].market = r.market
      BY <2>2, <3>0 DEF RequestsAreTheirActs
    <3>2. act[v].kind \in {"close", "reverse"}
      BY <3>0, <3>1 DEF RequestKind, Sides
    <3> QED BY <1>4, <2>2, <3>1, <3>2
  <2> QED BY <1>6, <2>1, <2>2
<1>17. ASSUME NEW j \in journal', NEW q \in wire', j.by = q.tap
       PROVE  q.kind = "open" /\ j.market = q.market
  <2>1. q \in wire /\ q.tap # r.tap
    BY <1>2, <1>5
  <2>2. j \in journal
    BY <1>6, <1>17, <2>1
  <2> QED BY <1>17, <2>1, <2>2 DEF OrdersClosed
<1> QED BY <1>6, <1>10, <1>13, <1>14, <1>15, <1>16, <1>17 DEF OrdersClosed

(***************************************************************************)
(* The other side of a reversal is of the same tap: nothing of it is on    *)
(* its way, and none of it was executed.                                   *)
(***************************************************************************)
LEMMA OtherSideIs ==
    ASSUME PhoneAssumption, Typed, Books, NEW v \in Visits, AfterClose(v) \/ Retry(v)
    PROVE  /\ act[v].kind = "reverse" /\ act[v].tap \in 1 .. MaxTaps /\ act[v].tap <= taps
           /\ act[v].at \in {"done", "cooldown"} /\ opened[act[v].tap] = 0
           /\ \A r \in wire : r.tap # act[v].tap
           /\ act[v].market \in Markets /\ act[v].side \in Sides
           /\ act'[v].kind = "reverse" /\ act'[v].at = "sent" /\ act'[v].stage \in 2 .. 3
           /\ act'[v].market = act[v].market /\ act'[v].side = act[v].side
           /\ act'[v].tap = act[v].tap /\ act'[v].trip = 0
           /\ \A u \in Visits \ {v} : act'[u] = act[u]
           /\ wire' = wire \cup {[kind |-> "open", market |-> act[v].market,
                        side |-> act[v].side, lit |-> FALSE, tap |-> act[v].tap,
                        stage |-> act'[v].stage]}
           /\ UNCHANGED <<venue, journal, stamp, place, visit, result, state, shown, was, chosen,
                          mark, got, asking, reversing, taps, opened, mishaps, asks, look>>
<1> USE DEF Books
<1>1. PICK stage \in 2 .. 3 :
          /\ SendOther(v, stage) /\ Resumes(v) /\ act[v].kind = "reverse"
          /\ \/ act[v].stage = 1 /\ act[v].at = "done"
             \/ act[v].at = "cooldown"
  BY DEF AfterClose, Retry, InReverse
<1>2. act[v] \in Acts /\ act[v].side \in Sides /\ act[v].tap \in 0 .. MaxTaps
  BY PartsAreTyped
<1>3. act[v].tap # 0 /\ act[v].market \in Markets /\ act[v].tap <= taps
  BY <1>1 DEF ActsAreTheirTaps, TapsAreCounted
<1>4. act[v].tap \in 1 .. MaxTaps
  BY <1>2, <1>3 DEF PhoneAssumption
<1>5. opened[act[v].tap] = 0
  BY <1>1 DEF OpensAreSpent
<1>6. \A r \in wire : r.tap # act[v].tap
  BY <1>1 DEF RequestsAreTheirActs
<1>7. act' = [act EXCEPT ![v].at = "sent", ![v].stage = stage, ![v].trip = 0]
  BY <1>1 DEF SendOther
<1>8. act \in [Visits -> Acts]
  BY DEF Typed, ActTypes
<1>9. \A u \in Visits \ {v} : act'[u] = act[u]
  BY <1>7, <1>8
<1>10. /\ act'[v].kind = act[v].kind /\ act'[v].at = "sent" /\ act'[v].stage = stage
       /\ act'[v].market = act[v].market /\ act'[v].side = act[v].side
       /\ act'[v].tap = act[v].tap /\ act'[v].trip = 0
  BY <1>2, <1>7, <1>8 DEF Acts
<1>11. wire' = wire \cup {[kind |-> "open", market |-> act[v].market,
                        side |-> act[v].side, lit |-> FALSE, tap |-> act[v].tap,
                        stage |-> act'[v].stage]}
  BY <1>1, <1>10 DEF SendOther
<1>12. UNCHANGED <<venue, journal, stamp, place, visit, result, state, shown, was, chosen,
                   mark, got, asking, reversing, taps, opened, mishaps, asks, look>>
  BY <1>1 DEF SendOther, Resumes, accountVars, whereVars, viewVars, storedVars, sheetVars,
              countVars
<1> QED BY <1>1, <1>2, <1>3, <1>4, <1>5, <1>6, <1>9, <1>10, <1>11, <1>12

LEMMA OtherSideKeepsBooks ==
    ASSUME PhoneAssumption, Typed, Typed', Books, NEW v \in Visits, AfterClose(v) \/ Retry(v)
    PROVE  Books'
<1> USE NothingIs DEF Books
<1> DEFINE q == [kind |-> "open", market |-> act[v].market, side |-> act[v].side,
                 lit |-> FALSE, tap |-> act[v].tap, stage |-> act'[v].stage]
<1>1. /\ act[v].kind = "reverse" /\ act[v].tap \in 1 .. MaxTaps /\ act[v].tap <= taps
      /\ act[v].at \in {"done", "cooldown"} /\ opened[act[v].tap] = 0
      /\ \A r \in wire : r.tap # act[v].tap
      /\ act[v].market \in Markets
  BY OtherSideIs
<1>2. /\ act'[v].kind = "reverse" /\ act'[v].at = "sent" /\ act'[v].stage \in 2 .. 3
      /\ act'[v].market = act[v].market
      /\ act'[v].tap = act[v].tap /\ act'[v].trip = 0
      /\ \A u \in Visits \ {v} : act'[u] = act[u]
  BY OtherSideIs
<1>3. wire' = wire \cup {q}
  BY OtherSideIs
<1>4. UNCHANGED <<venue, journal, place, visit, asking, reversing, taps, opened, asks, look>>
  BY OtherSideIs
<1>5. /\ q.kind = "open" /\ q.market = act[v].market /\ q.tap = act[v].tap
      /\ q.stage = act'[v].stage
  OBVIOUS
<1> HIDE DEF q
<1>6. \A u \in Visits : act'[u].tap = act[u].tap /\ act'[u].kind = act[u].kind
                        /\ act'[u].market = act[u].market
  BY <1>1, <1>2
<1>7. \A u \in Visits : u # v => act[u].tap # act[v].tap
  BY <1>1 DEF ActsAreTheirTaps
<1>8. taps \in Nat /\ act[v].tap # 0
  BY <1>1 DEF Typed, ActTypes, PhoneAssumption
<1>9. TapsAreCounted'
  BY <1>1, <1>3, <1>4, <1>5, <1>6 DEF TapsAreCounted
<1>10. ActsAreTheirTaps'
  <2>1. act[v] # NoAct
    BY <1>1
  <2>2. v # visit \/ asks["act"].at = "idle"
    BY <1>1 DEF ActsAreTheirTaps
  <2>3. \A u \in Visits : act'[u].kind = "none" => act'[u] = NoAct
    BY <1>2 DEF ActsAreTheirTaps
  <2>4. \A u \in Visits : act'[u].kind # "none" => act'[u].tap # 0 /\ act'[u].stage # 0
    BY <1>2, <1>8 DEF ActsAreTheirTaps
  <2>5. \A u \in Visits : u > visit => act'[u] = NoAct
    BY <1>2, <2>1 DEF ActsAreTheirTaps
  <2>6. asking # "none" \/ reversing # 0 => act'[visit] = NoAct
    BY <1>2, <2>1 DEF ActsAreTheirTaps, Typed, ScreenTypes
  <2>7. asks["act"].at # "idle" => act'[visit].at = "refresh" /\ place = "strategy"
    BY <1>2, <2>2 DEF ActsAreTheirTaps, Typed, ScreenTypes
  <2>8. \A u \in Visits : act'[u].stage \in 2 .. 3 => act'[u].kind = "reverse"
    BY <1>2 DEF ActsAreTheirTaps
  <2>9. \A u, w \in Visits : act'[u].tap = act'[w].tap /\ act'[u].tap # 0 => u = w
    BY <1>6 DEF ActsAreTheirTaps
  <2>10. \A u \in Visits : act'[u].kind # "none" => act'[u].market \in Markets
    BY <1>6 DEF ActsAreTheirTaps
  <2>11. asking = "none" \/ reversing = 0
    BY DEF ActsAreTheirTaps
  <2> QED BY <1>4, <2>3, <2>4, <2>5, <2>6, <2>7, <2>8, <2>9, <2>10, <2>11 DEF ActsAreTheirTaps
<1>11. RequestsAreTheirActs'
  <2>1. \A r, s \in wire' : r.tap = s.tap => r = s
    BY <1>1, <1>3, <1>5 DEF RequestsAreTheirActs
  <2>2. \A r \in wire' : r.kind # "open" => r.stage = 1
    BY <1>3, <1>5 DEF RequestsAreTheirActs
  <2>3. ASSUME NEW r \in wire', NEW u \in Visits, r.tap = act'[u].tap
        PROVE  /\ r.stage = act'[u].stage /\ r.market = act'[u].market
               /\ r.kind = RequestKind(act'[u])
               /\ act'[u].at \notin {"done", "failed", "cooldown"}
    <3>1. CASE r = q
      <4>1. u = v
        BY <2>3, <3>1, <1>5, <1>6, <1>7
      <4>2. RequestKind(act'[v]) = "open"
        BY <1>2 DEF RequestKind, Sides
      <4> QED BY <3>1, <4>1, <4>2, <1>2, <1>5
    <3>2. CASE r \in wire
      <4>1. u # v
        BY <2>3, <3>2, <1>1, <1>6
      <4>2. act'[u] = act[u]
        BY <4>1, <1>2
      <4> QED BY <2>3, <3>2, <4>2 DEF RequestsAreTheirActs
    <3> QED BY <3>1, <3>2, <1>3
  <2> QED BY <2>1, <2>2, <2>3 DEF RequestsAreTheirActs
<1>12. OpensAreSpent'
  <2>1. \A r \in wire' : opened[r.tap] = 0
    BY <1>1, <1>3, <1>5 DEF OpensAreSpent
  <2>2. \A u \in Visits :
          /\ act'[u].kind = "close" => opened[act'[u].tap] = 0
          /\ act'[u].kind = "reverse" /\ act'[u].stage = 1 => opened[act'[u].tap] = 0
          /\ act'[u].at = "cooldown" => opened[act'[u].tap] = 0
    BY <1>1, <1>2 DEF OpensAreSpent
  <2>3. \A t \in 1 .. MaxTaps : opened[t] <= 1
    BY DEF OpensAreSpent
  <2> QED BY <1>4, <2>1, <2>2, <2>3 DEF OpensAreSpent
<1>13. ASSUME NEW t \in Nat, Dead(t) PROVE Dead(t)'
  <2>1. t # act[v].tap
    BY <1>1, <1>13 DEF Dead
  <2>2. \A r \in wire' : r.tap = t => r \in wire
    BY <1>3, <1>5, <2>1
  <2>3. taps <= taps' /\ taps' \in Nat /\ opened'[t] = opened[t]
    BY <1>4, <1>8
  <2> QED BY <1>6, <1>13, <2>2, <2>3, DeadStayDead
<1>14. \A j \in journal : j.by \in Nat
  BY PartsAreTyped DEF PhoneAssumption
<1>15. OrdersClosed'
  <2>1. \A u \in Visits :
          act'[u].trip # 0 =>
             /\ act'[u].kind = "close" \/ (InReverse(u, {1})' /\ act'[u].at = "done")
             /\ \E j \in journal' : j.trip = act'[u].trip /\ j.by = act'[u].tap
    <3>1. \A u \in Visits : act'[u].trip # 0 => act'[u] = act[u]
      BY <1>2
    <3> QED BY <1>4, <3>1 DEF OrdersClosed, InReverse
  <2>2. ASSUME NEW u \in Visits, look'[u].on, look'[u].by = "order"
        PROVE  \E j \in journal' : j.trip = look'[u].trip /\ j.by # 0 /\ Dead(j.by)'
    <3>1. PICK j \in journal : j.trip = look[u].trip /\ j.by # 0 /\ Dead(j.by)
      BY <1>4, <2>2 DEF OrdersClosed
    <3>2. PICK t \in Nat : t = j.by
      BY <1>14
    <3>3. Dead(t)'
      BY <1>13, <3>1, <3>2
    <3>4. j.trip = look'[u].trip /\ j.by # 0 /\ Dead(j.by)' /\ j \in journal'
      BY <1>4, <3>1, <3>2, <3>3
    <3> QED BY <3>4
  <2>3. \A u \in Visits : look'[u].on <=> look'[u].by # "none"
    BY <1>4 DEF OrdersClosed
  <2>4. \A j \in journal' : \A u \in Visits :
          j.by # 0 /\ j.by = act'[u].tap =>
             /\ act'[u].kind \in {"close", "reverse"}
             /\ j.market = act'[u].market
    BY <1>4, <1>6 DEF OrdersClosed
  <2>5. \A j \in journal' : \A r \in wire' :
          j.by = r.tap => r.kind = "open" /\ j.market = r.market
    BY <1>3, <1>4, <1>5, <1>8 DEF OrdersClosed
  <2> QED BY <2>1, <2>2, <2>3, <2>4, <2>5 DEF OrdersClosed
<1>16. TripsAreNumbered'
  BY <1>4, SameTripsAre
<1> QED BY <1>9, <1>10, <1>11, <1>12, <1>15, <1>16

(* A new visit begins with nothing under way, and nothing asked.           *)
LEMMA ReturnKeepsBooks ==
    ASSUME PhoneAssumption, Typed, Typed', Books, Return
    PROVE  Books'
<1> USE DEF Books
<1>1. /\ visit' = visit + 1 /\ visit + 1 \in Visits /\ visit \in Visits /\ place # "strategy"
      /\ UNCHANGED <<venue, journal, wire, act, asks, asking, reversing, look, taps, opened>>
  BY DEF Return, accountVars, sheetVars, countVars, Typed, ScreenTypes, Visits, PhoneAssumption
<1>2. TapsAreCounted' /\ RequestsAreTheirActs' /\ OpensAreSpent'
  BY <1>1 DEF TapsAreCounted, RequestsAreTheirActs, OpensAreSpent
<1>3. ActsAreTheirTaps'
  <2>1. act[visit + 1] = NoAct
    BY <1>1 DEF ActsAreTheirTaps, Visits
  <2>2. \A v \in Visits : v > visit + 1 => act[v] = NoAct
    BY <1>1 DEF ActsAreTheirTaps, Visits
  <2>3. asks["act"].at = "idle"
    BY <1>1 DEF ActsAreTheirTaps
  <2> QED BY <1>1, <2>1, <2>2, <2>3 DEF ActsAreTheirTaps
<1>4. OrdersClosed'
  <2>1. \A t : Dead(t) => Dead(t)'
    BY <1>1 DEF Dead
  <2>2. ASSUME NEW u \in Visits, look'[u].on, look'[u].by = "order"
        PROVE  \E j \in journal' : j.trip = look'[u].trip /\ j.by # 0 /\ Dead(j.by)'
    <3>1. PICK j \in journal : j.trip = look[u].trip /\ j.by # 0 /\ Dead(j.by)
      BY <1>1, <2>2 DEF OrdersClosed
    <3>2. PICK t : t = j.by
      OBVIOUS
    <3>3. Dead(t)'
      BY <2>1, <3>1, <3>2
    <3>4. j.trip = look'[u].trip /\ j.by # 0 /\ Dead(j.by)' /\ j \in journal'
      BY <1>1, <3>1, <3>2, <3>3
    <3> QED BY <3>4
  <2> QED BY <1>1, <2>2 DEF OrdersClosed, InReverse
<1>5. TripsAreNumbered'
  BY <1>1, SameTripsAre
<1> QED BY <1>2, <1>3, <1>4, <1>5

(* Before anything was done, nothing was. *)
LEMMA InitBooks ==
    ASSUME PhoneAssumption, Init
    PROVE  Books
<1> USE NothingIs
<1>1. /\ venue = [m \in Markets |-> NoPosition] /\ journal = {} /\ wire = {} /\ taps = 0
      /\ act = [v \in Visits |-> NoAct] /\ look = [v \in Visits |-> NoLook]
      /\ opened = [t \in 1 .. MaxTaps |-> 0] /\ visit = 1
      /\ asks = [who \in {"poll", "act"} |-> NoAnswer] /\ asking = "none" /\ reversing = 0
  BY DEF Init
<1>2. TapsAreCounted
  BY <1>1 DEF TapsAreCounted
<1>3. \A v \in Visits : act[v] = NoAct
  BY <1>1
<1>4. 1 \in Visits
  BY DEF Visits, PhoneAssumption
<1>5. ActsAreTheirTaps
  BY <1>1, <1>3, <1>4 DEF ActsAreTheirTaps
<1>6. RequestsAreTheirActs
  BY <1>1 DEF RequestsAreTheirActs
<1>7. OpensAreSpent
  BY <1>1, <1>3 DEF OpensAreSpent
<1>8. OrdersClosed
  BY <1>1, <1>3 DEF OrdersClosed
<1>9. TripsAreNumbered
  <2>1. TripsOf = 1 .. 0
    BY <1>1 DEF TripsOf
  <2>2. 0 \in 0 .. MaxTrips
    BY NothingIsTyped
  <2> QED BY <1>1, <2>1, <2>2 DEF TripsAreNumbered
<1> QED BY <1>2, <1>5, <1>6, <1>7, <1>8, <1>9 DEF Books

(* The books are kept by every step. *)
LEMMA StepBooks ==
    ASSUME PhoneAssumption, Typed, Books, [Next]_vars
    PROVE  Typed' /\ Books'
<1>0. Typed'
  BY StepTypes DEF Books
<1> USE <1>0
<1>1. CASE Others
  BY <1>1, OthersKeepBooks
<1>2. CASE \E r \in wire : Handle(r)
  BY <1>2, HandledKeepActs, HandledKeepOrders DEF Books
<1>3. CASE Starting
  BY <1>3, StartsKeepBooks
<1>4. CASE \E v \in Visits : AfterClose(v) \/ Retry(v)
  BY <1>4, OtherSideKeepsBooks
<1>5. CASE Return
  BY <1>5, ReturnKeepsBooks
<1>6. CASE Drops
  BY <1>6, DropsKeepActs, DropsKeepOrders DEF Books
<1>7. CASE \/ AnswerAct \/ Poll \/ PollFails \/ ReadSignal \/ Dismiss \/ Standing
           \/ AskReverse \/ UNCHANGED vars
           \/ \E m \in Markets : Choose(m)
           \/ \E v \in Visits : LookAgain(v)
  BY <1>6, <1>7, QuietStepsDrop DEF Books
<1>8. CASE TakePoll \/ TakeAct \/ ActPollFails
  BY <1>6, <1>8, TakenStepsDrop DEF Books
<1>9. CASE \/ Leave
           \/ \E v \in Visits : Succeeded(v) \/ Failed(v) \/ LoseAnswer(v) \/ GoToResult(v)
  <2>1. visit \in Visits
    BY DEF Typed, ScreenTypes
  <2>2. \E v \in Visits : Succeeded(v) \/ Failed(v) \/ LoseAnswer(v) \/ GoToResult(v) \/ Leave
    BY <1>9, <2>1
  <2> QED BY <1>6, <2>2, EndingStepsDrop DEF Books
<1>10. (\E side \in Keys : Tap(side)) \/ ConfirmOpen \/ CloseNow \/ Amend \/ ConfirmReverse
         => Starting \/ Standing
  BY PressesAre DEF Books
<1> QED BY <1>1, <1>2, <1>3, <1>4, <1>5, <1>7, <1>8, <1>9, <1>10, StepsAre DEF Others, Handle

(* Whatever happens, everything has its type and the books are kept.       *)
THEOREM AlwaysBooks ==
    ASSUME PhoneAssumption
    PROVE  Spec => [](Typed /\ Books)
<1>1. Init => Typed /\ Books
  BY InitTypes, InitBooks
<1>2. (Typed /\ Books) /\ [Next]_vars => (Typed /\ Books)'
  BY StepBooks
<1> QED BY <1>1, <1>2, PTL DEF Spec

(* The parts of the types that the screen is said to have. *)
LEMMA TypedIsTypeOK ==
    ASSUME PhoneAssumption, Typed
    PROVE  TypeOK
<1>1. \A m \in Markets : venue[m].trip \in 0 .. MaxTrips /\ venue[m].owner \in Owners
  BY PartsAreTyped
<1>2. \A m \in Markets : venue[m].trip = 0 <=> venue[m] = NoPosition
  BY DEF Typed, AccountTypes
<1>3. DOMAIN state \in {{}, Markets}
  <2>1. state \in Snapshots
    BY DEF Typed, ScreenTypes
  <2> QED BY <2>1, DomainsOfSnapshots
<1>4. \A v \in Visits : /\ act[v].kind \in Sides \cup {"none", "close", "reverse", "amend"}
                        /\ look[v].tries \in 0 .. Attempts - 1
  BY PartsAreTyped DEF Kinds, Sides
<1> QED BY <1>1, <1>2, <1>3, <1>4 DEF TypeOK, Typed, ScreenTypes, ActTypes, Owners

(***************************************************************************)
(* One tap is one order: a request that opens carries the tap it is of,    *)
(* and a tap whose open was executed sends no other, whichever answers are *)
(* lost, refused or waited out and whichever screens are left.             *)
(***************************************************************************)
THEOREM TapsOpenOnce ==
    ASSUME PhoneAssumption
    PROVE  Spec => []OneOpenPerTap
<1>1. Typed /\ Books => OneOpenPerTap
  <2>1. ASSUME Typed, Books PROVE OneOpenPerTap
    <3>1. TypeOK
      BY <2>1, TypedIsTypeOK
    <3>2. DOMAIN opened = 1 .. MaxTaps
      BY <2>1 DEF Typed, ActTypes
    <3> QED BY <2>1, <3>1, <3>2 DEF OneOpenPerTap, Books, OpensAreSpent
  <2> QED BY <2>1
<1>2. Spec => [](Typed /\ Books)
  BY AlwaysBooks
<1> QED BY <1>1, <1>2, PTL

-----------------------------------------------------------------------------
(* Until the screen is deceived *)

(* Nobody forgets a mishap. *)
LEMMA MishapsGrow ==
    ASSUME [Next]_vars
    PROVE  mishaps \subseteq mishaps' /\ (Deceived => Deceived')
<1>1. mishaps \subseteq mishaps'
  BY StepsAre
     DEF PlatformEnds, OthersOpen, ExecuteOpen, ExecuteClose, ExecuteAmend, Refuse, AnswerAct,
         Poll, PollFails, ReadSignal, TakePoll, TakeAct, ActPollFails, Tap, ConfirmOpen,
         CloseNow, Amend, ConfirmReverse, Choose, Dismiss, AskReverse, Leave, Return,
         AfterClose, Retry, Succeeded, Failed, GoToResult, LookAgain, LoseAnswer, Resumes, vars
<1> QED BY <1>1 DEF Deceived

(***************************************************************************)
(* What is under way is the act of the screen there is; a request on its   *)
(* way is the only one, and the one that act waits for.                    *)
(***************************************************************************)
LEMMA AtWorkIs ==
    ASSUME PhoneAssumption, Typed, Books, Undeceived
    PROVE  /\ visit \in Visits /\ act \in [Visits -> Acts] /\ act[visit] \in Acts
           /\ \A v \in Visits : act[v].at # "idle" \/ act[v].kind # "none" =>
                 v = visit /\ place = "strategy"
           /\ act[visit].kind = "none" => act[visit] = NoAct
           /\ act[visit].at # "idle" => act[visit].kind # "none"
           /\ act[visit].at # "sent" => wire = {}
           /\ \A r \in wire :
                 /\ wire = {r} /\ Waits(visit, r)
                 /\ r.kind = RequestKind(act[visit]) /\ r.market = act[visit].market
                 /\ r.market \in Markets /\ act[visit].at = "sent" /\ place = "strategy"
           /\ asks["act"].at # "idle" => act[visit].at = "refresh"
<1> USE NothingIs DEF Books, Undeceived
<1>1. visit \in Visits /\ act \in [Visits -> Acts]
  BY DEF Typed, ScreenTypes, ActTypes
<1>2. \A v \in Visits : act[v].at # "idle" \/ act[v].kind # "none" =>
                 v = visit /\ place = "strategy"
  BY DEF OneAtWork
<1>3. act[visit].kind = "none" => act[visit] = NoAct
  BY <1>1 DEF ActsAreTheirTaps
<1>4. ASSUME NEW r \in wire
      PROVE  /\ wire = {r} /\ Waits(visit, r)
             /\ r.kind = RequestKind(act[visit]) /\ r.market = act[visit].market
             /\ r.market \in Markets /\ act[visit].at = "sent"
  <2>1. \A q \in wire : q.tap = act[visit].tap /\ act[visit].at = "sent"
    BY DEF OneAtWork
  <2>2. wire = {r}
    BY <2>1 DEF RequestsAreTheirActs
  <2>3. /\ r.stage = act[visit].stage /\ r.market = act[visit].market
        /\ r.kind = RequestKind(act[visit])
    BY <1>1, <2>1 DEF RequestsAreTheirActs
  <2>4. r.market \in Markets
    BY PartsAreTyped
  <2> QED BY <2>1, <2>2, <2>3, <2>4 DEF Waits
<1>5. act[visit].at # "sent" => wire = {}
  BY <1>4
<1>6. asks["act"].at # "idle" => act[visit].at = "refresh"
  BY DEF ActsAreTheirTaps
<1> QED BY <1>1, <1>2, <1>3, <1>4, <1>5, <1>6

(* Where the account and the act are as they were, so is what they owe.    *)
LEMMA SameWorkIs ==
    ASSUME Undeceived, UNCHANGED <<venue, wire, act, visit>>,
           place' = "strategy" \/ act[visit] = NoAct,
           place = "strategy" \/ place' # "strategy",
           mark' = mark \/ mark' = NoMarket, NoMarket \notin Markets,
           \A r \in wire : r.market \in Markets
    PROVE  OneAtWork' /\ OneOfMine' /\ MarksAreTrue'
<1> USE DEF Undeceived
<1>1. OneAtWork'
  BY DEF OneAtWork
<1>2. OneOfMine'
  BY DEF OneOfMine, Mine, Flat, Opening
<1>3. MarksAreTrue'
  BY DEF MarksAreTrue, Mine
<1> QED BY <1>1, <1>2, <1>3

(* Steps that show nothing, and ask or are answered at most. *)
LEMMA QuietStepsKeep ==
    ASSUME PhoneAssumption, Typed, Books, Undeceived,
           \/ Standing \/ AnswerAct \/ Poll \/ PollFails \/ ReadSignal \/ Dismiss
           \/ AskReverse \/ UNCHANGED vars
           \/ \E m \in Markets : Choose(m)
           \/ \E v \in Visits : LookAgain(v)
    PROVE  Undeceived'
<1>1. /\ UNCHANGED <<venue, stamp, wire, act, visit, place, state, shown>>
      /\ mark' = mark \/ mark' = NoMarket
      /\ \/ asks' = asks
         \/ asks["act"].at = "asked" /\ asks' = [asks EXCEPT !["act"] = Snapshot]
         \/ asks' = [asks EXCEPT !["poll"] = Snapshot]
         \/ asks' = [asks EXCEPT !["poll"] = NoAnswer]
  <2> USE DEF accountVars, whereVars, viewVars, storedVars, sheetVars, countVars
  <2>1. CASE Standing
    BY <2>1 DEF Standing
  <2>2. CASE AnswerAct \/ Poll \/ PollFails \/ ReadSignal
    BY <2>2 DEF AnswerAct, Poll, PollFails, ReadSignal
  <2>3. CASE Dismiss \/ AskReverse \/ UNCHANGED vars
    BY <2>3 DEF Dismiss, AskReverse, vars
  <2>4. CASE \E m \in Markets : Choose(m)
    BY <2>4 DEF Choose
  <2>5. CASE \E v \in Visits : LookAgain(v)
    BY <2>5 DEF LookAgain
  <2> QED BY <2>1, <2>2, <2>3, <2>4, <2>5
<1>2. NoMarket \notin Markets /\ \A r \in wire : r.market \in Markets
  BY NoneIsNoMarket, PartsAreTyped
<1>3. OneAtWork' /\ OneOfMine' /\ MarksAreTrue'
  <2>1. place = "strategy" \/ act[visit] = NoAct
    BY DEF Undeceived, OneAtWork, Typed, ScreenTypes
  <2> QED BY <1>1, <1>2, <2>1, SameWorkIs
<1>4. venue # Unknown /\ stamp \in Nat /\ asks \in [{"poll", "act"} -> Answers]
  <2>1. venue \in [Markets -> Positions]
    BY DEF Typed, AccountTypes
  <2> QED BY <2>1, NoneIsNoMarket DEF Typed, AccountTypes, ActTypes, Unknown
<1>5. Snapshot.at = "answered" /\ Snapshot.snap = venue /\ Snapshot.stamp = stamp
      /\ Covers(venue) /\ NoAnswer.at = "idle"
  BY DEF Snapshot, Covers, Mine, NoAnswer
<1>6. ShownIsAll
  BY DEF Undeceived
<1>7. ShownIsAll'
  <2>1. CASE asks' = asks
    BY <1>1, <1>6, <2>1 DEF ShownIsAll, Covers, Mine, Opened, Older
  <2>2. CASE asks["act"].at = "asked" /\ asks' = [asks EXCEPT !["act"] = Snapshot]
    <3>1. asks'["act"] = Snapshot /\ asks'["poll"] = asks["poll"] /\ asks["poll"].stamp \in Nat
      BY <1>4, <2>2, PartsAreTyped
    <3>2. asks'["act"].at = "answered" /\ asks'["act"].snap = venue
          /\ asks'["act"].stamp = stamp
      BY <3>1, <1>5
    <3> QED BY <1>1, <1>4, <1>5, <1>6, <2>2, <3>1, <3>2
          DEF ShownIsAll, Covers, Mine, Opened, Older
  <2>3. CASE asks' = [asks EXCEPT !["poll"] = Snapshot]
    <3>1. asks'["poll"].at = "answered" /\ asks'["poll"].snap = venue
          /\ asks'["poll"].stamp = stamp /\ asks'["act"] = asks["act"]
      BY <1>4, <1>5, <2>3
    <3> QED BY <1>1, <1>4, <1>5, <1>6, <3>1 DEF ShownIsAll, Covers, Mine, Opened, Older
  <2>4. CASE asks' = [asks EXCEPT !["poll"] = NoAnswer]
    <3>1. asks'["poll"].at = "idle" /\ asks'["act"] = asks["act"]
      BY <1>4, <1>5, <2>4
    <3> QED BY <1>1, <1>6, <3>1 DEF ShownIsAll, Covers, Mine, Opened, Older
  <2> QED BY <1>1, <2>1, <2>2, <2>3, <2>4
<1> QED BY <1>3, <1>7 DEF Undeceived

(***************************************************************************)
(* A screen that is left with nothing under way leaves nothing behind, and *)
(* the next one begins without a state.                                    *)
(***************************************************************************)
LEMMA LeavingKeeps ==
    ASSUME PhoneAssumption, Typed, Books, Undeceived, ~Deceived',
           Leave \/ \E v \in Visits : GoToResult(v)
    PROVE  Undeceived'
<1> USE NothingIs
<1>1. /\ UNCHANGED <<venue, stamp, wire, visit, mark>> /\ place' # "strategy"
      /\ state' = Unknown /\ shown' = 0 /\ asks' = [who \in DOMAIN asks |-> NoAnswer]
      /\ act' = IF act[visit].at = "refresh" THEN [act EXCEPT ![visit] = NoAct] ELSE act
      /\ mishaps' = IF busy # "none" THEN mishaps \cup {"left"} ELSE mishaps
  BY DEF Leave, GoToResult, accountVars, storedVars
<1>2. act[visit] = NoAct
  <2>1. busy = "none"
    BY <1>1 DEF Deceived
  <2> QED BY <2>1, AtWorkIs DEF busy
<1>3. act' = act
  BY <1>1, <1>2
<1>4. OneAtWork' /\ OneOfMine' /\ MarksAreTrue'
  <2>1. NoMarket \notin Markets /\ \A r \in wire : r.market \in Markets
    BY NoneIsNoMarket, PartsAreTyped
  <2> QED BY <1>1, <1>2, <1>3, <2>1, SameWorkIs
<1>5. asks'["act"].at = "idle" /\ asks'["poll"].at = "idle" /\ stamp \in Nat
  BY <1>1 DEF Typed, ActTypes, AccountTypes
<1>6. ShownIsAll'
  BY <1>1, <1>5 DEF ShownIsAll
<1> QED BY <1>4, <1>6 DEF Undeceived

LEMMA ReturnKeeps ==
    ASSUME PhoneAssumption, Typed, Books, Undeceived, Return
    PROVE  Undeceived'
<1> USE NothingIs DEF Undeceived
<1>1. /\ visit' = visit + 1 /\ visit + 1 \in Visits /\ visit \in Visits /\ place # "strategy"
      /\ UNCHANGED <<venue, stamp, wire, act, asks, mark, state, shown>>
  BY DEF Return, accountVars, viewVars, storedVars, Typed, ScreenTypes, Visits, PhoneAssumption
<1>2. /\ \A v \in Visits : act[v] = NoAct
      /\ act[visit] = NoAct /\ act[visit + 1] = NoAct
  BY <1>1 DEF OneAtWork
<1>3. wire = {}
  BY <1>2 DEF OneAtWork
<1>4. OneAtWork' /\ OneOfMine' /\ MarksAreTrue'
  BY <1>1, <1>2, <1>3 DEF OneAtWork, OneOfMine, Mine, Flat, Opening, MarksAreTrue
<1>5. ShownIsAll'
  <2>1. ~Opened /\ ~Opened'
    BY <1>1, <1>2 DEF Opened
  <2> QED BY <1>1, <2>1 DEF ShownIsAll, Covers, Mine, Older
<1> QED BY <1>4, <1>5

(***************************************************************************)
(* An answer that is shown, and is no older than what was, has each        *)
(* position, or the act's own is still to come.                            *)
(***************************************************************************)
LEMMA TakePollKeeps ==
    ASSUME PhoneAssumption, Typed, Books, Undeceived, ~Deceived', TakePoll
    PROVE  Undeceived'
<1> USE NothingIs
<1>1. /\ asks["poll"].at = "answered" /\ state' = asks["poll"].snap
      /\ shown' = asks["poll"].stamp
      /\ mishaps' = IF asks["poll"].stamp < shown THEN mishaps \cup {"crossed"} ELSE mishaps
      /\ asks' = [asks EXCEPT !["poll"] = NoAnswer]
      /\ mark' = mark \/ mark' = NoMarket
      /\ UNCHANGED <<venue, stamp, wire, visit, place, act>>
  BY DEF TakePoll, Render, accountVars, whereVars
<1>2. asks["poll"].stamp >= shown
  <2>1. ~(asks["poll"].stamp < shown)
    BY <1>1 DEF Deceived
  <2> QED BY <2>1, PartsAreTyped DEF Typed, ScreenTypes
<1>3. OneAtWork' /\ OneOfMine' /\ MarksAreTrue'
  <2>1. NoMarket \notin Markets /\ \A r \in wire : r.market \in Markets
    BY NoneIsNoMarket, PartsAreTyped
  <2>2. place = "strategy" \/ act[visit] = NoAct
    BY DEF Undeceived, OneAtWork, Typed, ScreenTypes
  <2> QED BY <1>1, <2>1, <2>2, SameWorkIs
<1>4. asks'["act"] = asks["act"] /\ asks'["poll"].at = "idle"
  BY <1>1 DEF Typed, ActTypes
<1>5. Covers(asks["poll"].snap) \/ Opened
  <2>1. Covers(asks["poll"].snap) \/ Older(asks["poll"].stamp)
    BY <1>1 DEF Undeceived, ShownIsAll
  <2>2. shown \in Nat /\ asks["poll"].stamp \in Nat
    BY PartsAreTyped DEF Typed, ScreenTypes
  <2> QED BY <1>2, <2>1, <2>2 DEF Older
<1>6. ShownIsAll'
  <2>1. asks["poll"].stamp <= stamp
    BY <1>1 DEF Undeceived, ShownIsAll
  <2> QED BY <1>1, <1>4, <1>5, <2>1 DEF Undeceived, ShownIsAll, Covers, Mine, Opened
<1> QED BY <1>3, <1>6 DEF Undeceived

LEMMA TakeActKeeps ==
    ASSUME PhoneAssumption, Typed, Books, Undeceived, ~Deceived', TakeAct
    PROVE  Undeceived'
<1> USE NothingIs
<1>1. /\ asks["act"].at = "answered" /\ state' = asks["act"].snap
      /\ shown' = asks["act"].stamp
      /\ mishaps' = IF asks["act"].stamp < shown THEN mishaps \cup {"crossed"} ELSE mishaps
      /\ asks' = [asks EXCEPT !["act"] = NoAnswer]
      /\ act' = [act EXCEPT ![visit] = NoAct]
      /\ mark' = mark \/ mark' = NoMarket
      /\ UNCHANGED <<venue, stamp, wire, visit, place>>
  BY DEF TakeAct, Render, accountVars, whereVars
<1>2. asks["act"].stamp >= shown
  <2>1. ~(asks["act"].stamp < shown)
    BY <1>1 DEF Deceived
  <2> QED BY <2>1, PartsAreTyped DEF Typed, ScreenTypes
<1>3. act'[visit] = NoAct /\ wire = {} /\ \A v \in Visits : act'[v] = act[v] \/ act'[v] = NoAct
  BY <1>1, AtWorkIs
<1>4. OneAtWork' /\ OneOfMine' /\ MarksAreTrue'
  <2>1. NoMarket \notin Markets
    BY NoneIsNoMarket
  <2>2. OneAtWork'
    BY <1>1, <1>3 DEF Undeceived, OneAtWork
  <2>3. OneOfMine'
    BY <1>1, <1>3 DEF Undeceived, OneOfMine, Mine, Opening
  <2>4. MarksAreTrue'
    BY <1>1, <1>3, <2>1 DEF Undeceived, MarksAreTrue, Mine
  <2> QED BY <2>2, <2>3, <2>4
<1>5. asks'["poll"] = asks["poll"] /\ asks'["act"].at = "idle"
  BY <1>1 DEF Typed, ActTypes
<1>6. ShownIsAll'
  <2>1. Covers(asks["act"].snap) /\ asks["act"].stamp <= stamp
    BY <1>1 DEF Undeceived, ShownIsAll
  <2>2. ASSUME asks["poll"].at = "answered"
        PROVE  Covers(asks["poll"].snap) \/ asks["poll"].stamp < asks["act"].stamp
    <3>1. Covers(asks["poll"].snap) \/ Older(asks["poll"].stamp)
      BY <2>2 DEF Undeceived, ShownIsAll
    <3>2. shown \in Nat /\ asks["poll"].stamp \in Nat /\ asks["act"].stamp \in Nat
      BY PartsAreTyped DEF Typed, ScreenTypes
    <3> QED BY <1>1, <1>2, <3>1, <3>2 DEF Older
  <2>3. asks["poll"].at = "answered" =>
            asks["poll"].stamp <= stamp /\ asks["poll"].snap # Unknown
    BY DEF Undeceived, ShownIsAll
  <2> QED BY <1>1, <1>5, <2>1, <2>2, <2>3 DEF ShownIsAll, Covers, Mine, Older
<1> QED BY <1>4, <1>6 DEF Undeceived

(***************************************************************************)
(* Free keys mean a screen that shows each position, and shows none of the *)
(* strategy's: there is none.                                              *)
(***************************************************************************)
LEMMA FreeKeysMeanFlat ==
    ASSUME PhoneAssumption, Typed, Undeceived, KeysFree, act[visit] = NoAct
    PROVE  Flat
<1>1. position = NoMarket /\ state # Unknown
  BY DEF KeysFree
<1>2. state \in Snapshots /\ chosen \in Markets
  BY DEF Typed, ScreenTypes
<1>3. \A m \in Markets : state[m].owner # "mine"
  BY <1>1, <1>2, ShownPosition DEF position
<1>4. Covers(state)
  BY <1>1, NothingIs DEF Undeceived, ShownIsAll, Opened
<1> QED BY <1>3, <1>4 DEF Flat, Covers, Mine

LEMMA StartingKeeps ==
    ASSUME PhoneAssumption, Typed, Books, Undeceived, ~Deceived', Starting
    PROVE  Undeceived'
<1> USE NothingIs
<1>1. PICK kind \in Kinds \ {"none"}, m \in Markets, side \in Sides, lit \in BOOLEAN :
          Starts(kind, m, side, lit)
  BY DEF Starting
<1> DEFINE q == [kind |-> FirstRequest(kind), market |-> m, side |-> side,
                 lit |-> lit, tap |-> taps + 1, stage |-> 1]
<1>2. /\ act'[visit].kind = kind /\ act'[visit].at = "sent" /\ act'[visit].stage = 1
      /\ act'[visit].tap = taps + 1
      /\ \A v \in Visits \ {visit} : act'[v] = act[v]
      /\ wire' = wire \cup {q}
      /\ UNCHANGED <<venue, visit, place, asks>>
      /\ asks["act"].at = "idle" /\ act[visit] = NoAct /\ visit \in Visits
  BY <1>1, StartsAre
<1>3. q.kind = FirstRequest(kind) /\ q.market = m /\ q.lit = lit /\ q.tap = taps + 1
  OBVIOUS
<1> HIDE DEF q
<1>4. /\ place = "strategy" /\ UNCHANGED <<stamp, state, shown>>
      /\ kind \in Sides => KeysFree /\ mark' = IF lit THEN m ELSE NoMarket
      /\ kind = "reverse" => mark' = NoMarket
      /\ kind \notin Sides \cup {"reverse"} => mark' = mark
  <2>1. "sheet" \notin mishaps'
    BY DEF Deceived
  <2> QED BY <1>1, <2>1 DEF Starts, accountVars, whereVars, viewVars
<1>5. wire = {}
  BY <1>2, AtWorkIs
<1>6. kind \in Sides => Flat
  BY <1>2, <1>4, FreeKeysMeanFlat
<1>7. OneAtWork'
  BY <1>2, <1>3, <1>4, <1>5 DEF Undeceived, OneAtWork
<1>8. OneOfMine'
  <2>1. Opening' => kind \in Sides
    BY <1>2 DEF Opening
  <2> QED BY <1>2, <1>6, <2>1 DEF Undeceived, OneOfMine, Mine, Flat
<1>9. MarksAreTrue'
  <2>1. NoMarket \notin Markets /\ m \in Markets
    BY NoneIsNoMarket
  <2>2. FirstRequest(kind) = "open" => kind \in Sides
    BY DEF FirstRequest, Kinds
  <2>3. \A r \in wire' : r.kind = "open" /\ mark' = r.market => r.lit
    BY <1>3, <1>2, <1>4, <1>5, <2>1, <2>2
  <2>4. \A n \in Markets : Mine(n)' /\ mark' = n => venue'[n].onSignal
    BY <1>2, <1>4, <1>6, <2>1 DEF Undeceived, MarksAreTrue, Flat, Mine, Sides
  <2> QED BY <1>2, <1>4, <2>3, <2>4 DEF MarksAreTrue
<1>10. ShownIsAll'
  <2>1. ~Opened /\ ~Opened'
    BY <1>2 DEF Opened
  <2> QED BY <1>2, <1>4, <2>1 DEF Undeceived, ShownIsAll, Covers, Mine, Older
<1> QED BY <1>7, <1>8, <1>9, <1>10 DEF Undeceived

(* What others do takes positions of the strategy's away at most. *)
LEMMA OthersKeep ==
    ASSUME PhoneAssumption, Typed, Books, Undeceived, Others
    PROVE  Undeceived'
<1> USE NothingIs
<1>1. /\ UNCHANGED <<wire, act, visit, place, mark, state, shown, asks>>
      /\ stamp' = stamp + 1
  BY DEF Others, PlatformEnds, OthersOpen, EndTrip, whereVars, storedVars, viewVars
<1>2. /\ \A n \in Markets : venue'[n].size <= 1
      /\ \A n \in Markets : venue'[n].trip # 0 => venue'[n].owner # "none"
      /\ \A n \in Markets : Mine(n)' => venue'[n] = venue[n]
  <2>1. venue \in [Markets -> Positions]
    BY DEF Typed, AccountTypes
  <2>2. CASE \E m \in Markets : PlatformEnds(m)
    <3>1. PICK m \in Markets : venue' = [venue EXCEPT ![m] = NoPosition]
      BY <2>2 DEF PlatformEnds, EndTrip
    <3>2. \A n \in Markets : venue'[n] = venue[n] \/ venue'[n] = NoPosition
      BY <2>1, <3>1
    <3> QED BY <3>2 DEF Undeceived, OneOfMine, Mine
  <2>3. CASE \E m \in Markets : OthersOpen(m)
    <3>1. PICK m \in Markets, owner \in Outsiders :
              venue' = [venue EXCEPT ![m] = [trip |-> NextTrip, owner |-> owner,
                              side |-> "up", onSignal |-> FALSE, size |-> 1]]
      BY <2>3 DEF OthersOpen
    <3>2. owner \in {"other", "nobody"}
      BY DEF PhoneAssumption
    <3>3. \A n \in Markets : \/ venue'[n] = venue[n]
                             \/ venue'[n].owner = owner /\ venue'[n].size = 1
      BY <2>1, <3>1
    <3>4. \A n \in Markets : venue[n].size <= 1 /\ (venue[n].trip # 0 => venue[n].owner # "none")
      BY DEF Undeceived, OneOfMine
    <3>5. ASSUME NEW n \in Markets
          PROVE  /\ venue'[n].size <= 1
                 /\ venue'[n].trip # 0 => venue'[n].owner # "none"
                 /\ Mine(n)' => venue'[n] = venue[n]
      <4>1. CASE venue'[n] = venue[n]
        BY <3>4, <4>1
      <4>2. CASE venue'[n].owner = owner /\ venue'[n].size = 1
        BY <3>2, <4>2 DEF Mine
      <4> QED BY <3>3, <4>1, <4>2
    <3> QED BY <3>5
  <2> QED BY <2>2, <2>3 DEF Others
<1>3. \A n \in Markets : Mine(n)' => Mine(n)
  BY <1>2 DEF Mine
<1>4. OneAtWork'
  BY <1>1 DEF Undeceived, OneAtWork
<1>5. OneOfMine'
  <2>1. Opening' = Opening
    BY <1>1 DEF Opening
  <2> QED BY <1>2, <1>3, <2>1 DEF Undeceived, OneOfMine, Flat
<1>6. MarksAreTrue'
  BY <1>1, <1>2, <1>3 DEF Undeceived, MarksAreTrue
<1>7. ShownIsAll'
  <2>1. stamp \in Nat /\ shown \in Nat /\ asks["poll"].stamp \in Nat /\ asks["act"].stamp \in Nat
    BY PartsAreTyped DEF Typed, AccountTypes, ScreenTypes
  <2>2. Opened' = Opened
    BY <1>1 DEF Opened
  <2>3. \A s : Covers(s) => (\A n \in Markets : Mine(n)' => s[n].owner = "mine")
    BY <1>3 DEF Covers
  <2>4. /\ Covers(state) => Covers(state)'
        /\ Covers(asks["act"].snap) => Covers(asks["act"].snap)'
        /\ Covers(asks["poll"].snap) => Covers(asks["poll"].snap)'
    BY <1>1, <2>3 DEF Covers
  <2>5. Older(asks["poll"].stamp) => Older(asks["poll"].stamp)'
    BY <1>1, <2>1, <2>2 DEF Older
  <2> QED BY <1>1, <2>1, <2>2, <2>4, <2>5 DEF Undeceived, ShownIsAll
<1> QED BY <1>4, <1>5, <1>6, <1>7 DEF Undeceived

(***************************************************************************)
(* An answer leaves nothing on its way, and the act there is with it; what *)
(* was shown before is older, or still all there is.                       *)
(***************************************************************************)
LEMMA AnswerIs ==
    ASSUME PhoneAssumption, Typed, Books, Undeceived, NEW r \in wire, Handle(r)
    PROVE  /\ r.market \in Markets /\ r.market = act[visit].market
           /\ r.kind = RequestKind(act[visit]) /\ act[visit].at = "sent"
           /\ wire' = {} /\ visit \in Visits
           /\ \A v \in Visits \ {visit} : act'[v] = act[v]
           /\ act'[visit].kind = act[visit].kind /\ act'[visit].stage = act[visit].stage
           /\ act'[visit].at \in {"done", "failed", "error", "cooldown"}
           /\ place = "strategy" /\ asks["act"].at = "idle"
           /\ UNCHANGED <<visit, place, state, shown, mark, asks>>
           /\ act[visit].kind # "none"
<1>1. PICK why \in Ats, trip \in 0 .. MaxTrips :
          Answers1(r, why, trip) /\ why \in {"done", "failed", "error", "cooldown"}
  BY AnswersAre
<1>2. /\ act' = Answered(r, why, trip) /\ wire' = wire \ {r}
      /\ UNCHANGED <<asks, visit, place>>
  BY <1>1 DEF Answers1
<1>3. UNCHANGED <<state, shown, mark>>
  BY DEF Handle, ExecuteOpen, ExecuteClose, ExecuteAmend, Refuse, viewVars, storedVars
<1>4. /\ visit \in Visits /\ wire = {r} /\ Waits(visit, r)
      /\ r.kind = RequestKind(act[visit]) /\ r.market = act[visit].market
      /\ r.market \in Markets /\ act[visit].at = "sent" /\ place = "strategy"
      /\ asks["act"].at # "idle" => act[visit].at = "refresh"
      /\ act[visit].at # "idle" => act[visit].kind # "none"
  BY AtWorkIs
<1>5. \A v \in Visits \ {visit} : act[v].at # "sent"
  BY AtWorkIs
<1>6. \A v \in Visits \ {visit} : ~Waits(v, r)
  BY <1>5 DEF Waits
<1>7. \A v \in Visits \ {visit} : act'[v] = act[v]
  BY <1>2, <1>6 DEF Answered
<1>8. /\ act'[visit].kind = act[visit].kind /\ act'[visit].stage = act[visit].stage
      /\ act'[visit].at = why
  <2>1. \/ act'[visit] = act[visit] /\ ~Waits(visit, r)
        \/ /\ act'[visit].kind = act[visit].kind /\ act'[visit].stage = act[visit].stage
           /\ act'[visit].at = why
    BY <1>2, <1>4, AnsweredIs
  <2> QED BY <2>1, <1>4
<1> QED BY <1>1, <1>2, <1>3, <1>4, <1>7, <1>8

LEMMA AnswerKeeps ==
    ASSUME PhoneAssumption, Typed, Books, Undeceived, NEW r \in wire, Handle(r),
           OneOfMine',
           \A m \in Markets : Mine(m)' /\ mark = m => venue'[m].onSignal,
           stamp' \in Nat, stamp <= stamp',
           \/ /\ stamp < stamp' /\ act'[visit].at = "done"
              /\ act[visit].kind \in Sides \cup {"reverse"}
           \/ \A m \in Markets : Mine(m)' => Mine(m)
    PROVE  Undeceived'
<1> USE NothingIs
<1>1. /\ wire' = {} /\ visit \in Visits /\ act[visit].at = "sent" /\ asks["act"].at = "idle"
      /\ \A v \in Visits \ {visit} : act'[v] = act[v]
      /\ act'[visit].kind = act[visit].kind
      /\ act'[visit].at \in {"done", "failed", "error", "cooldown"}
      /\ place = "strategy"
      /\ UNCHANGED <<visit, place, state, shown, mark, asks>>
  BY AnswerIs
<1>2. OneAtWork'
  BY <1>1 DEF Undeceived, OneAtWork
<1>3. MarksAreTrue'
  BY <1>1 DEF Undeceived, MarksAreTrue
<1>4. ShownIsAll'
  <2>1. stamp \in Nat /\ shown \in Nat /\ asks["poll"].stamp \in Nat /\ shown <= stamp
    BY PartsAreTyped DEF Typed, AccountTypes, ScreenTypes, Undeceived, ShownIsAll
  <2>2. ~Opened
    BY <1>1 DEF Opened
  <2>3. shown' <= stamp'
    BY <1>1, <2>1
  <2>4. \A who \in {"poll", "act"} : asks'[who].at = "answered" =>
            asks'[who].stamp <= stamp' /\ asks'[who].snap # Unknown
    BY <1>1, <2>1 DEF Undeceived, ShownIsAll
  <2>5. CASE /\ stamp < stamp' /\ act'[visit].at = "done"
             /\ act[visit].kind \in Sides \cup {"reverse"}
    <3>1. Opened'
      BY <1>1, <2>5 DEF Opened
    <3>2. asks'["poll"].at = "answered" => Older(asks["poll"].stamp)'
      BY <1>1, <2>1, <2>5, <3>1 DEF Older, Undeceived, ShownIsAll
    <3> QED BY <1>1, <2>3, <2>4, <3>1, <3>2 DEF ShownIsAll
  <2>6. CASE \A m \in Markets : Mine(m)' => Mine(m)
    <3>1. \A s : Covers(s) => (\A n \in Markets : Mine(n)' => s[n].owner = "mine")
      BY <2>6 DEF Covers
    <3>2. /\ Covers(state) => Covers(state)'
          /\ Covers(asks["poll"].snap) => Covers(asks["poll"].snap)'
      BY <1>1, <3>1 DEF Covers
    <3>3. Older(asks["poll"].stamp) => Older(asks["poll"].stamp)'
      BY <1>1, <2>1, <2>2 DEF Older
    <3> QED BY <1>1, <2>2, <2>3, <2>4, <3>2, <3>3 DEF Undeceived, ShownIsAll
  <2> QED BY <2>5, <2>6
<1> QED BY <1>2, <1>3, <1>4 DEF Undeceived

(***************************************************************************)
(* An open that meets nobody else's position is the strategy's one, of one *)
(* order, lit as the order says; the screen does not show it yet.          *)
(***************************************************************************)
LEMMA ExecuteOpenKeeps ==
    ASSUME PhoneAssumption, Typed, Books, Undeceived, ~Deceived', NEW r \in wire, ExecuteOpen(r)
    PROVE  Undeceived' /\ venue[r.market].trip = 0 /\ Flat /\ act'[visit].at = "done"
<1> USE NothingIs
<1>0. Handle(r)
  BY DEF Handle
<1>1. /\ r.market \in Markets /\ r.kind = RequestKind(act[visit]) /\ act[visit].at = "sent"
      /\ wire' = {} /\ visit \in Visits /\ UNCHANGED <<visit, mark>>
      /\ act'[visit].kind = act[visit].kind /\ act'[visit].stage = act[visit].stage
      /\ act[visit].kind # "none"
  BY <1>0, AnswerIs
<1>2. act[visit].kind \in Sides \/ (act[visit].kind = "reverse" /\ act[visit].stage # 1)
  <2>1. RequestKind(act[visit]) = "open" /\ act[visit].kind \in Kinds
    BY <1>1, PartsAreTyped DEF ExecuteOpen
  <2> QED BY <2>1, <1>1 DEF RequestKind, Kinds, Sides
<1>3. Flat
  BY <1>1, <1>2 DEF Undeceived, OneOfMine, Opening
<1>4. venue[r.market].trip = 0
  <2>1. venue[r.market].owner \notin {"other", "nobody"}
    BY DEF Deceived, ExecuteOpen, Met
  <2>2. venue[r.market].owner \in Owners /\ venue[r.market].owner # "mine"
    BY <1>1, <1>3, PartsAreTyped DEF Flat, Mine
  <2> QED BY <1>1, <2>1, <2>2 DEF Owners, Undeceived, OneOfMine
<1>5. act'[visit].at = "done"
  <2>1. act' = Answered(r, "done", 0) /\ Waits(visit, r)
    BY AtWorkIs DEF ExecuteOpen
  <2>2. 0 \in 0 .. MaxTrips /\ "done" \in Ats
    BY NothingIsTyped DEF Ats
  <2> QED BY <1>1, <2>1, <2>2, AnsweredIs
<1>6. /\ venue'[r.market].owner = "mine" /\ venue'[r.market].size = 1
      /\ venue'[r.market].onSignal = r.lit
      /\ \A n \in Markets \ {r.market} : venue'[n] = venue[n]
  BY <1>1, <1>4 DEF ExecuteOpen, Typed, AccountTypes
<1>7. OneOfMine'
  <2>1. ~Opening'
    BY <1>1, <1>2, <1>5 DEF Opening, Sides
  <2>2. \A m \in Markets : Mine(m)' => m = r.market
    BY <1>3, <1>6 DEF Flat, Mine
  <2>3. \A m \in Markets : venue'[m].size <= 1 /\ (venue'[m].trip # 0 => venue'[m].owner # "none")
    BY <1>6 DEF Undeceived, OneOfMine
  <2> QED BY <2>1, <2>2, <2>3 DEF OneOfMine
<1>8. \A m \in Markets : Mine(m)' /\ mark = m => venue'[m].onSignal
  <2>1. mark = r.market => r.lit
    BY DEF ExecuteOpen, Undeceived, MarksAreTrue
  <2> QED BY <1>3, <1>6, <2>1 DEF Flat, Mine
<1>9. stamp' = stamp + 1 /\ stamp \in Nat
  BY DEF ExecuteOpen, Typed, AccountTypes
<1>10. Undeceived'
  BY <1>0, <1>2, <1>5, <1>7, <1>8, <1>9, AnswerKeeps
<1> QED BY <1>3, <1>4, <1>5, <1>10

(* A close that meets nobody else's position ends the one there is. *)
LEMMA ExecuteCloseKeeps ==
    ASSUME PhoneAssumption, Typed, Books, Undeceived, ~Deceived', NEW r \in wire, ExecuteClose(r)
    PROVE  Undeceived' /\ Mine(r.market) /\ Flat'
<1> USE NothingIs
<1>0. Handle(r)
  BY DEF Handle
<1>1. r.market \in Markets /\ act'[visit].at \in {"done", "failed", "error", "cooldown"}
  BY <1>0, AnswerIs
<1>2. venue[r.market].trip # 0 /\ r.tap \in 0 .. MaxTaps
  BY PartsAreTyped DEF ExecuteClose, PhoneAssumption
<1>3. Mine(r.market)
  <2>1. venue[r.market].owner \notin {"other", "nobody"}
    BY DEF Deceived, ExecuteClose, Met
  <2>2. venue[r.market].owner \in Owners /\ venue[r.market].owner # "none"
    BY <1>1, <1>2, PartsAreTyped DEF Undeceived, OneOfMine
  <2> QED BY <2>1, <2>2 DEF Owners, Mine
<1>4. venue'[r.market] = NoPosition /\ \A n \in Markets \ {r.market} : venue'[n] = venue[n]
  BY <1>1 DEF ExecuteClose, EndTrip, Typed, AccountTypes
<1>5. Flat'
  <2>1. \A n \in Markets \ {r.market} : venue[n].owner # "mine"
    BY <1>1, <1>3 DEF Mine, Undeceived, OneOfMine
  <2>2. \A n \in Markets : venue'[n].owner # "mine"
    BY <1>4, <2>1 DEF NoPosition
  <2> QED BY <2>2 DEF Flat, Mine
<1>6. OneOfMine'
  BY <1>4, <1>5 DEF Flat, Undeceived, OneOfMine
<1>7. stamp' = stamp + 1 /\ stamp \in Nat
  BY DEF ExecuteClose, EndTrip, Typed, AccountTypes
<1>8. Undeceived'
  <2>1. \A m \in Markets : ~Mine(m)'
    BY <1>5 DEF Flat
  <2> QED BY <1>0, <1>6, <1>7, <2>1, AnswerKeeps
<1> QED BY <1>3, <1>5, <1>8

(* An amendment, or a refusal, leaves the account as it is. *)
LEMMA OtherAnswersKeep ==
    ASSUME PhoneAssumption, Typed, Books, Undeceived, NEW r \in wire,
           ExecuteAmend(r) \/ Refuse(r)
    PROVE  Undeceived'
<1> USE NothingIs
<1>0. Handle(r)
  BY DEF Handle
<1>1. venue' = venue /\ stamp' = stamp /\ stamp \in Nat
  BY DEF ExecuteAmend, Refuse, accountVars, Typed, AccountTypes
<1>2. /\ r.kind = RequestKind(act[visit]) /\ act[visit].at = "sent" /\ visit' = visit
      /\ act'[visit].kind = act[visit].kind /\ act'[visit].stage = act[visit].stage
      /\ act'[visit].at \in {"done", "failed", "error", "cooldown"}
  BY <1>0, AnswerIs
<1>3. \A m \in Markets : Mine(m)' = Mine(m)
  BY <1>1 DEF Mine
<1>4. Opening' => Opening
  <2>1. ASSUME act'[visit].kind = "reverse", act'[visit].stage = 1, act'[visit].at = "done"
        PROVE  FALSE
    <3>1. r.kind = "close"
      BY <1>2, <2>1 DEF RequestKind, Sides
    <3>2. act' = Answered(r, "error", 0)
      BY <3>1 DEF ExecuteAmend, Refuse
    <3>3. Waits(visit, r) /\ visit \in Visits /\ "error" \in Ats /\ 0 \in 0 .. MaxTrips
      BY AtWorkIs, NothingIsTyped DEF Ats
    <3>4. act'[visit].at = "error"
      BY <3>2, <3>3, AnsweredIs
    <3> QED BY <2>1, <3>4
  <2> QED BY <1>2, <2>1 DEF Opening
<1>5. OneOfMine'
  BY <1>1, <1>3, <1>4 DEF Undeceived, OneOfMine, Flat
<1>6. \A m \in Markets : Mine(m)' /\ mark = m => venue'[m].onSignal
  BY <1>1, <1>3 DEF Undeceived, MarksAreTrue
<1> QED BY <1>0, <1>1, <1>3, <1>5, <1>6, AnswerKeeps

(***************************************************************************)
(* The other side of a reversal is sent into a flat account; the state is  *)
(* re-read before an act that may have changed it is over.                 *)
(***************************************************************************)
LEMMA OtherSideKeeps ==
    ASSUME PhoneAssumption, Typed, Books, Undeceived, NEW v \in Visits, AfterClose(v) \/ Retry(v)
    PROVE  Undeceived' /\ Flat /\ v = visit
<1> USE NothingIs
<1>1. /\ act[v].kind = "reverse" /\ act[v].at \in {"done", "cooldown"}
      /\ act'[v].kind = "reverse" /\ act'[v].at = "sent" /\ act'[v].stage \in 2 .. 3
      /\ act'[v].tap = act[v].tap
      /\ \A u \in Visits \ {v} : act'[u] = act[u]
      /\ wire' = wire \cup {[kind |-> "open", market |-> act[v].market,
                        side |-> act[v].side, lit |-> FALSE, tap |-> act[v].tap,
                        stage |-> act'[v].stage]}
      /\ UNCHANGED <<venue, stamp, place, visit, mark, state, shown, asks>>
      /\ act[v].market \in Markets
  BY OtherSideIs
<1>2. v = visit /\ place = "strategy" /\ wire = {} /\ asks["act"].at = "idle"
  BY <1>1, AtWorkIs
<1>3. act[v].at = "done" => act[v].stage = 1
  BY DEF AfterClose, Retry, InReverse
<1>4. act[v].at = "cooldown" => act[v].stage # 1
  BY DEF AfterClose, Retry, InReverse
<1>5. Flat
  BY <1>1, <1>2, <1>3, <1>4 DEF Undeceived, OneOfMine, Opening
<1>6. \A m \in Markets : ~Mine(m)' /\ ~Mine(m)
  BY <1>1, <1>5 DEF Flat, Mine
<1>7. OneAtWork'
  BY <1>1, <1>2 DEF Undeceived, OneAtWork
<1>8. OneOfMine'
  BY <1>1, <1>6 DEF Undeceived, OneOfMine, Flat
<1>9. MarksAreTrue'
  <2>1. mark = NoMarket /\ NoMarket \notin Markets
    BY <1>1, <1>2, NoneIsNoMarket DEF Undeceived, MarksAreTrue
  <2> QED BY <1>1, <1>2, <1>6, <2>1 DEF MarksAreTrue
<1>10. ShownIsAll'
  <2>1. \A s : Covers(s)'
    BY <1>6 DEF Covers
  <2> QED BY <1>1, <1>2, <1>6 DEF Undeceived, ShownIsAll, Covers
<1> QED BY <1>2, <1>5, <1>7, <1>8, <1>9, <1>10 DEF Undeceived

(***************************************************************************)
(* The end of an act: one that may have changed something re-reads the     *)
(* state first, one that did not is over.                                  *)
(***************************************************************************)
LEMMA EndingIsOver ==
    ASSUME PhoneAssumption, Typed, Books, Undeceived, NEW v \in Visits, Succeeded(v) \/ Failed(v)
    PROVE  /\ v = visit /\ place = "strategy" /\ wire = {} /\ asks["act"].at = "idle"
           /\ UNCHANGED <<venue, journal, stamp, wire, place, visit, mark, state, shown, opened,
                          mishaps, look>>
           /\ \A u \in Visits \ {visit} : act'[u] = act[u]
           /\ asks'["poll"] = asks["poll"]
           /\ \/ /\ asks'["act"].at = "asked" /\ act'[visit].at = "refresh"
                 /\ act'[visit].kind = act[visit].kind
              \/ asks' = asks /\ act'[visit] = NoAct /\ act[visit].at # "done"
<1> USE NothingIs
<1>1. act[v].at \in {"done", "failed", "error", "cooldown"}
  BY DEF Succeeded, Failed
<1>2. /\ v = visit /\ place = "strategy" /\ wire = {} /\ asks["act"].at = "idle"
      /\ act \in [Visits -> Acts] /\ act[visit] \in Acts
  BY <1>1, AtWorkIs
<1>3. UNCHANGED <<venue, journal, stamp, wire, place, visit, mark, state, shown, opened, mishaps>>
  BY DEF Succeeded, Failed, Resumes, accountVars, whereVars, viewVars, storedVars, countVars
<1>4. asks \in [{"poll", "act"} -> Answers]
  BY DEF Typed, ActTypes
<1>5. CASE Refresh(v)
  <2>1. /\ asks' = [asks EXCEPT !["act"] = [NoAnswer EXCEPT !.at = "asked"]]
        /\ act' = [act EXCEPT ![v].at = "refresh"] /\ look' = look
    BY <1>2, <1>5 DEF Refresh, Mounted
  <2>2. asks'["poll"] = asks["poll"] /\ asks'["act"].at = "asked"
    BY <1>4, <2>1 DEF NoAnswer
  <2>3. act'[visit] = [act[visit] EXCEPT !.at = "refresh"]
        /\ \A u \in Visits \ {visit} : act'[u] = act[u]
    BY <1>2, <2>1
  <2>4. act'[visit].at = "refresh" /\ act'[visit].kind = act[visit].kind
    BY <1>2, <2>3 DEF Acts
  <2> QED BY <1>2, <1>3, <2>1, <2>2, <2>3, <2>4
<1>6. CASE ~Refresh(v)
  <2>1. act' = [act EXCEPT ![v] = NoAct] /\ asks' = asks /\ look' = look
        /\ act[v].at # "done"
    BY <1>6 DEF Succeeded, Failed
  <2> QED BY <1>2, <1>3, <2>1
<1> QED BY <1>5, <1>6

LEMMA EndingKeeps ==
    ASSUME PhoneAssumption, Typed, Books, Undeceived, NEW v \in Visits, Succeeded(v) \/ Failed(v)
    PROVE  Undeceived'
<1> USE NothingIs
<1>1. /\ v = visit /\ place = "strategy" /\ wire = {} /\ asks["act"].at = "idle"
      /\ UNCHANGED <<venue, stamp, wire, place, visit, mark, state, shown>>
      /\ \A u \in Visits \ {visit} : act'[u] = act[u]
      /\ asks'["poll"] = asks["poll"]
      /\ \/ /\ asks'["act"].at = "asked" /\ act'[visit].at = "refresh"
            /\ act'[visit].kind = act[visit].kind
         \/ asks' = asks /\ act'[visit] = NoAct /\ act[visit].at # "done"
  BY EndingIsOver
<1>2. \A m \in Markets : Mine(m)' = Mine(m)
  BY <1>1 DEF Mine
<1>3. OneAtWork'
  BY <1>1 DEF Undeceived, OneAtWork
<1>4. OneOfMine'
  <2>1. ~Opening'
    BY <1>1 DEF Opening
  <2> QED BY <1>1, <1>2, <2>1 DEF Undeceived, OneOfMine
<1>5. MarksAreTrue'
  BY <1>1, <1>2 DEF Undeceived, MarksAreTrue
<1>6. ShownIsAll'
  <2>1. Opened => Opened'
    <3>1. act[visit].at # "refresh"
      BY <1>1 DEF Succeeded, Failed
    <3> QED BY <1>1, <3>1 DEF Opened
  <2>2. /\ Covers(state)' = Covers(state)
        /\ Covers(asks["poll"].snap)' = Covers(asks["poll"].snap)
    <3>1. state' = state /\ asks'["poll"].snap = asks["poll"].snap
      BY <1>1
    <3> QED BY <1>2, <3>1 DEF Covers
  <2>3. Older(asks["poll"].stamp) => Older(asks["poll"].stamp)'
    BY <1>1, <2>1 DEF Older
  <2>4. asks'["act"].at # "answered"
    BY <1>1
  <2> QED BY <1>1, <2>1, <2>2, <2>3, <2>4 DEF Undeceived, ShownIsAll
<1> QED BY <1>3, <1>4, <1>5, <1>6 DEF Undeceived

(* Before anything was done, the account is flat and nothing was shown. *)
LEMMA InitUndeceived ==
    ASSUME PhoneAssumption, Init
    PROVE  Undeceived
<1> USE NothingIs
<1>1. /\ venue = [m \in Markets |-> NoPosition] /\ wire = {} /\ stamp = 0 /\ shown = 0
      /\ act = [v \in Visits |-> NoAct] /\ visit = 1 /\ mark = NoMarket
      /\ asks = [who \in {"poll", "act"} |-> NoAnswer] /\ state = Unknown
  BY DEF Init
<1>2. 1 \in Visits
  BY DEF Visits, PhoneAssumption
<1>3. \A v \in Visits : act[v] = NoAct
  BY <1>1
<1>4. \A m \in Markets : venue[m].owner = "none" /\ venue[m].size = 0 /\ venue[m].trip = 0
  BY <1>1
<1>5. \A who \in {"poll", "act"} : asks[who].at = "idle"
  BY <1>1
<1>6. NoMarket \notin Markets
  BY NoneIsNoMarket
<1>7. OneAtWork /\ OneOfMine /\ MarksAreTrue
  BY <1>1, <1>2, <1>3, <1>4, <1>6 DEF OneAtWork, OneOfMine, Flat, Mine, MarksAreTrue
<1>8. ShownIsAll
  BY <1>1, <1>5 DEF ShownIsAll
<1> QED BY <1>7, <1>8 DEF Undeceived

(* Every step that does not deceive the screen leaves it undeceived. *)
LEMMA StepUndeceived ==
    ASSUME PhoneAssumption, Typed, Books, Undeceived, [Next]_vars, ~Deceived'
    PROVE  Undeceived'
<1>1. CASE Others
  BY <1>1, OthersKeep
<1>2. CASE \E r \in wire : Handle(r)
  BY <1>2, ExecuteOpenKeeps, ExecuteCloseKeeps, OtherAnswersKeep DEF Handle
<1>3. CASE Starting
  BY <1>3, StartingKeeps
<1>4. CASE \E v \in Visits : AfterClose(v) \/ Retry(v)
  BY <1>4, OtherSideKeeps
<1>5. CASE Return
  BY <1>5, ReturnKeeps
<1>6. CASE Leave \/ \E v \in Visits : GoToResult(v)
  BY <1>6, LeavingKeeps
<1>7. CASE \/ AnswerAct \/ Poll \/ PollFails \/ ReadSignal \/ Dismiss \/ Standing
           \/ AskReverse \/ UNCHANGED vars
           \/ \E m \in Markets : Choose(m)
           \/ \E v \in Visits : LookAgain(v)
  BY <1>7, QuietStepsKeep
<1>8. CASE TakePoll
  BY <1>8, TakePollKeeps
<1>9. CASE TakeAct
  BY <1>9, TakeActKeeps
<1>10. CASE ActPollFails \/ \E v \in Visits : LoseAnswer(v)
  BY <1>10 DEF ActPollFails, LoseAnswer, Deceived
<1>11. CASE \E v \in Visits : Succeeded(v) \/ Failed(v)
  BY <1>11, EndingKeeps
<1>12. (\E side \in Keys : Tap(side)) \/ ConfirmOpen \/ CloseNow \/ Amend \/ ConfirmReverse
         => Starting \/ Standing
  BY PressesAre DEF Books
<1> QED BY <1>1, <1>2, <1>3, <1>4, <1>5, <1>6, <1>7, <1>8, <1>9, <1>10, <1>11, <1>12, StepsAre
        DEF Others, Handle

(* Until the screen is deceived, it is not: an inductive invariant. *)
THEOREM AlwaysUndeceived ==
    ASSUME PhoneAssumption
    PROVE  Spec => [](Typed /\ Books /\ (~Deceived => Undeceived))
<1>1. Init => Typed /\ Books /\ (~Deceived => Undeceived)
  BY InitTypes, InitBooks, InitUndeceived
<1>2. Typed /\ Books /\ (~Deceived => Undeceived) /\ [Next]_vars =>
          (Typed /\ Books /\ (~Deceived => Undeceived))'
  BY StepBooks, StepUndeceived, MishapsGrow
<1> QED BY <1>1, <1>2, PTL DEF Spec

(***************************************************************************)
(* "A tap here would not open a second position, it would add to theirs":  *)
(* unless something came between the screen and the account, keys that are *)
(* free mean there is nothing of the strategy's to add to, whatever polls, *)
(* acts, sheets and visits are crossed.                                    *)
(***************************************************************************)
THEOREM NothingIsAddedTo ==
    ASSUME PhoneAssumption
    PROVE  Spec => []AddsOnlyByMishap
<1>1. Typed /\ Books /\ (~Deceived => Undeceived) => AddsOnlyByMishap
  <2>1. ASSUME Typed, Undeceived PROVE \A m \in Markets : ~(venue[m].size > 1)
    BY <2>1, PartsAreTyped DEF Undeceived, OneOfMine
  <2> QED BY <2>1 DEF AddsOnlyByMishap
<1>2. Spec => [](Typed /\ Books /\ (~Deceived => Undeceived))
  BY AlwaysUndeceived
<1> QED BY <1>1, <1>2, PTL

(***************************************************************************)
(* The mark "On the signal" is of the position that wears it: it is set    *)
(* with the order that is lit, into a flat account, and is forgotten by a  *)
(* reversal before it begins.                                              *)
(***************************************************************************)
THEOREM MarksTellTheTruth ==
    ASSUME PhoneAssumption
    PROVE  Spec => []MarkTellsTheTruth
<1>1. Typed /\ Books /\ (~Deceived => Undeceived) => MarkTellsTheTruth
  BY DEF Undeceived, MarksAreTrue, MarkTellsTheTruth, Mine
<1>2. Spec => [](Typed /\ Books /\ (~Deceived => Undeceived))
  BY AlwaysUndeceived
<1> QED BY <1>1, <1>2, PTL

-----------------------------------------------------------------------------
(* While nothing came between *)

(* A trip that was reversed and has its successor in the journal, or still *)
(* running, with nobody searching.                                         *)
Succeeding(j) ==
    /\ Mine(j.market) /\ venue[j.market].trip > j.trip
    /\ ~Searching /\ act[visit].kind \notin Sides

(* Steps that neither trade nor search nor report. *)
LEMMA IdleStepsKeepSuccessors ==
    ASSUME Successors, \A j \in journal : j.market \in Markets,
           UNCHANGED <<venue, journal, opened>>,
           Searching' => Searching,
           act'[visit'].kind \in Sides => act[visit].kind \in Sides,
           place' = "result" => place = "result" /\ result' = result
    PROVE  Successors'
<1>1. \A j \in journal : (Turned(j) <=> Turned(j)') /\ (Followed(j) => Followed(j)')
  BY DEF Turned, Followed
<1>2. \A j \in journal : Mine(j.market) => Mine(j.market)'
  BY DEF Mine
<1> QED BY <1>1, <1>2 DEF Successors

(* A search by time is begun only by one. *)
LEMMA OnlyTakesSearch ==
    ASSUME PhoneAssumption, Typed, NEW s, NEW doing, NEW closed, Render(s, doing, closed),
           closed # 0 \/ ~Ended(PositionIn(s, chosen), doing)
    PROVE  Searching' => Searching
<1>1. visit \in Visits
  BY DEF Typed, ScreenTypes
<1>2. look' = Looking(visit, "order", closed, chosen) \/ look' = look
  BY DEF Render
<1>3. ASSUME NEW u \in Visits, look'[u].by = "opened" PROVE look[u].by = "opened"
  <2>1. CASE look' = look
    BY <1>3, <2>1
  <2>2. CASE look' = Looking(visit, "order", closed, chosen)
    <3>1. \/ look'[u] = look[u]
          \/ look'[u] = [on |-> TRUE, by |-> "order", trip |-> closed, market |-> chosen, tries |-> 0]
      BY <1>1, <2>2, LookingIs
    <3> QED BY <1>3, <3>1
  <2> QED BY <1>2, <2>1, <2>2
<1> QED BY <1>3 DEF Searching

(***************************************************************************)
(* A state that has each position shows no end of one that there is: what  *)
(* is shown is searched for only when no successor is running.             *)
(***************************************************************************)
LEMMA CoveredIsNoEnd ==
    ASSUME PhoneAssumption, Typed, NEW s \in Snapshots, s # Unknown, Covers(s), ~Flat, NEW doing
    PROVE  ~Ended(PositionIn(s, chosen), doing)
<1>1. PICK m \in Markets : Mine(m)
  BY DEF Flat
<1>2. s[m].owner = "mine" /\ chosen \in Markets
  BY <1>1 DEF Covers, Typed, ScreenTypes
<1>3. PositionIn(s, chosen) # NoMarket
  BY <1>1, <1>2, ShownPosition
<1> QED BY <1>3 DEF Ended

LEMMA TakesKeepSuccessors ==
    ASSUME PhoneAssumption, Typed, Books, Undeceived, Successors, ~Deceived',
           TakePoll \/ TakeAct
    PROVE  Successors'
<1> USE NothingIs
<1>1. \A j \in journal : j.market \in Markets
  BY PartsAreTyped
<1>2. UNCHANGED <<venue, journal, opened, visit, place, result>> /\ visit \in Visits
  BY DEF TakePoll, TakeAct, accountVars, whereVars, countVars, Typed, ScreenTypes
<1>3. act'[visit].kind \in Sides => act[visit].kind \in Sides
  <2>1. CASE TakePoll
    BY <2>1 DEF TakePoll
  <2>2. CASE TakeAct
    <3>1. act'[visit] = NoAct
      BY <1>2, <2>2 DEF TakeAct, Typed, ActTypes
    <3> QED BY <3>1 DEF Sides
  <2> QED BY <2>1, <2>2
<1>4. CASE Searching' => Searching
  BY <1>1, <1>2, <1>3, <1>4, IdleStepsKeepSuccessors
<1>5. CASE Flat
  <2>1. \A j \in journal : Turned(j) => Followed(j)
    BY <1>1, <1>5 DEF Successors, Flat
  <2>2. \A j \in journal : (Turned(j) <=> Turned(j)') /\ (Followed(j) => Followed(j)')
    BY <1>2 DEF Turned, Followed
  <2> QED BY <1>2, <2>1, <2>2 DEF Successors
<1>6. CASE ~Flat /\ act[visit].kind \in Sides
  <2>1. ASSUME NEW j \in journal, Turned(j) PROVE Followed(j)
    BY <1>6, <2>1 DEF Successors
  <2>2. \A j \in journal : (Turned(j) <=> Turned(j)') /\ (Followed(j) => Followed(j)')
    BY <1>2 DEF Turned, Followed
  <2> QED BY <1>2, <2>1, <2>2 DEF Successors
<1>7. CASE ~Flat /\ act[visit].kind \notin Sides
  <2>1. CASE TakePoll
    <3>1. Render(asks["poll"].snap, busy, 0) /\ asks["poll"].at = "answered"
          /\ state' = asks["poll"].snap
      BY <2>1 DEF TakePoll, Render
    <3>2. asks["poll"].snap # Unknown /\ asks["poll"].snap \in Snapshots
      BY <3>1, PartsAreTyped DEF Undeceived, ShownIsAll
    <3>3. Covers(asks["poll"].snap) \/ act[visit].kind = "reverse"
      <4>1. Undeceived'
        BY <2>1, TakePollKeeps
      <4>2. Covers(state)' \/ Opened'
        BY <3>1, <3>2, <4>1 DEF Undeceived, ShownIsAll
      <4>3. Opened' => act[visit].kind = "reverse"
        BY <1>2, <1>7, <2>1 DEF Opened, TakePoll
      <4>4. Covers(state)' => Covers(asks["poll"].snap)
        BY <1>2, <3>1 DEF Covers, Mine
      <4> QED BY <4>2, <4>3, <4>4
    <3>4. ~Ended(PositionIn(asks["poll"].snap, chosen), busy)
      <4>1. CASE Covers(asks["poll"].snap)
        BY <1>7, <3>2, <4>1, CoveredIsNoEnd
      <4>2. CASE act[visit].kind = "reverse"
        BY <4>2 DEF Ended, busy
      <4> QED BY <3>3, <4>1, <4>2
    <3> QED BY <1>4, <3>1, <3>4, OnlyTakesSearch
  <2>2. CASE TakeAct
    <3>1. Render(asks["act"].snap, "none", act[visit].trip) /\ asks["act"].at = "answered"
      BY <2>2 DEF TakeAct
    <3>2. /\ asks["act"].snap # Unknown /\ asks["act"].snap \in Snapshots
          /\ Covers(asks["act"].snap)
      BY <3>1, PartsAreTyped DEF Undeceived, ShownIsAll
    <3>3. ~Ended(PositionIn(asks["act"].snap, chosen), "none")
      BY <1>7, <3>2, CoveredIsNoEnd
    <3> QED BY <1>4, <3>1, <3>3, OnlyTakesSearch
  <2> QED BY <2>1, <2>2
<1> QED BY <1>5, <1>6, <1>7

(* An entry begins when nothing of the strategy's is left. *)
LEMMA StartingKeepsSuccessors ==
    ASSUME PhoneAssumption, Typed, Books, Undeceived, Successors, ~Deceived', Starting
    PROVE  Successors'
<1> USE NothingIs
<1>1. PICK kind \in Kinds \ {"none"}, m \in Markets, side \in Sides, lit \in BOOLEAN :
          Starts(kind, m, side, lit)
  BY DEF Starting
<1>2. /\ act'[visit].kind = kind /\ act[visit] = NoAct
      /\ UNCHANGED <<venue, journal, opened, look, visit, place>>
  BY <1>1, StartsAre
<1>3. kind \in Sides => KeysFree
  <2>1. "sheet" \notin mishaps'
    BY DEF Deceived
  <2> QED BY <1>1, <2>1 DEF Starts
<1>4. result' = result /\ (Searching' => Searching)
  BY <1>1, <1>2 DEF Starts, whereVars, Searching
<1>5. \A j \in journal : j.market \in Markets
  BY PartsAreTyped
<1>6. CASE kind \notin Sides
  BY <1>2, <1>4, <1>5, <1>6, IdleStepsKeepSuccessors
<1>7. CASE kind \in Sides
  <2>1. Flat
    BY <1>2, <1>3, <1>7, FreeKeysMeanFlat
  <2>2. \A j \in journal : Turned(j) => Followed(j)
    BY <1>5, <2>1 DEF Successors, Flat
  <2>3. \A j \in journal : (Turned(j) <=> Turned(j)') /\ (Followed(j) => Followed(j)')
    BY <1>2 DEF Turned, Followed
  <2> QED BY <1>2, <1>4, <2>2, <2>3 DEF Successors
<1> QED BY <1>6, <1>7

(***************************************************************************)
(* A position of the strategy's that ends follows what was reversed into   *)
(* it; one that ends by a tap that has not opened was not reversed.        *)
(***************************************************************************)
LEMMA EndingKeepsSuccessors ==
    ASSUME PhoneAssumption, Typed, Books, Successors, NEW m \in Markets,
           NEW tap \in 0 .. MaxTaps, EndTrip(m, tap), venue[m].trip # 0,
           tap # 0 => opened[tap] = 0 /\ place # "result",
           UNCHANGED <<opened, look, visit, place, result>>,
           act'[visit].kind = act[visit].kind
    PROVE  Successors'
<1>1. /\ \A n \in Markets \ {m} : venue'[n] = venue[n]
      /\ \E e \in journal' :
            /\ journal' = journal \cup {e} /\ e \notin journal
            /\ e.trip = venue[m].trip /\ e.market = m
            /\ e.owner = venue[m].owner /\ e.by = tap
  BY EndingIs DEF Books
<1>2. PICK e \in journal' :
            /\ journal' = journal \cup {e} /\ e.trip = venue[m].trip /\ e.market = m
            /\ e.owner = venue[m].owner /\ e.by = tap
  BY <1>1
<1>3. ~Turned(e)'
  BY <1>2 DEF Turned
<1>4. ASSUME NEW j \in journal, Turned(j)'
      PROVE  \/ Followed(j)'
             \/ /\ Mine(j.market)' /\ venue'[j.market].trip > j.trip
                /\ ~Searching' /\ act'[visit'].kind \notin Sides
  <2>0. j.market \in Markets
    BY PartsAreTyped
  <2>1. Turned(j)
    BY <1>4 DEF Turned
  <2>2. CASE Followed(j)
    BY <1>2, <2>2 DEF Followed
  <2>3. CASE Succeeding(j)
    <3>1. CASE j.market = m
      <4>1. e.owner = "mine" /\ e.market = j.market /\ e.trip > j.trip
        BY <1>2, <2>3, <3>1 DEF Succeeding, Mine
      <4> QED BY <4>1 DEF Followed
    <3>2. CASE j.market # m
      BY <1>1, <2>0, <2>3, <3>2 DEF Succeeding, Mine, Searching
    <3> QED BY <3>1, <3>2
  <2> QED BY <2>1, <2>2, <2>3 DEF Successors, Succeeding
<1>5. place' = "result" => \A j \in journal' : j.trip = result' => ~Turned(j)'
  <2>1. \A j \in journal : Turned(j)' => Turned(j)
    BY DEF Turned
  <2> QED BY <1>2, <1>3, <2>1 DEF Successors
<1> QED BY <1>2, <1>3, <1>4, <1>5 DEF Successors

LEMMA OthersKeepSuccessors ==
    ASSUME PhoneAssumption, Typed, Books, Successors, Others
    PROVE  Successors'
<1> USE NothingIs
<1>1. CASE \E m \in Markets : PlatformEnds(m)
  <2>1. PICK m \in Markets : PlatformEnds(m)
    BY <1>1
  <2>2. EndTrip(m, 0) /\ venue[m].trip # 0
    BY <2>1 DEF PlatformEnds
  <2>3. UNCHANGED <<opened, look, visit, place, result, act>>
    BY <2>1 DEF PlatformEnds, whereVars, countVars
  <2>4. 0 \in 0 .. MaxTaps
    BY NothingIsTyped
  <2> QED BY <2>2, <2>3, <2>4, EndingKeepsSuccessors
<1>2. CASE \E m \in Markets : OthersOpen(m)
  <2>1. PICK m \in Markets : OthersOpen(m)
    BY <1>2
  <2>2. UNCHANGED <<journal, opened, look, visit, place, result, act>> /\ venue[m].trip = 0
    BY <2>1 DEF OthersOpen, whereVars, countVars
  <2>3. \A n \in Markets \ {m} : venue'[n] = venue[n]
    BY <2>1 DEF OthersOpen, Typed, AccountTypes
  <2>4. ~Mine(m)
    BY <2>2 DEF Mine, Typed, AccountTypes
  <2>5. \A n \in Markets : Mine(n) => Mine(n)' /\ venue'[n] = venue[n]
    BY <2>3, <2>4 DEF Mine
  <2>6. \A j \in journal : (Turned(j) <=> Turned(j)') /\ (Followed(j) => Followed(j)')
    BY <2>2 DEF Turned, Followed
  <2>7. \A j \in journal : j.market \in Markets
    BY PartsAreTyped
  <2>8. Searching' <=> Searching
    BY <2>2 DEF Searching
  <2> QED BY <2>2, <2>5, <2>6, <2>7, <2>8 DEF Successors
<1> QED BY <1>1, <1>2 DEF Others

(***************************************************************************)
(* The other side of a reversal is the newest trip, and nothing earlier is *)
(* still looked up: a search of it would have been a mishap.               *)
(***************************************************************************)
LEMMA ExecuteOpenKeepsSuccessors ==
    ASSUME PhoneAssumption, Typed, Books, Undeceived, Successors, mishaps' = {},
           NEW r \in wire, ExecuteOpen(r)
    PROVE  Successors'
<1> USE NothingIs
<1>0. Handle(r) /\ ~Deceived'
  BY DEF Handle, Deceived
<1>1. venue[r.market].trip = 0 /\ Flat
  BY <1>0, ExecuteOpenKeeps
<1>2. /\ r.market \in Markets /\ r.market = act[visit].market
      /\ r.kind = RequestKind(act[visit])
      /\ visit' = visit /\ place' = place /\ act'[visit].kind = act[visit].kind
      /\ place = "strategy" /\ visit \in Visits
  BY <1>0, AnswerIs
<1>3. UNCHANGED <<journal, look>> /\ NextTrip <= MaxTrips
      /\ venue' = [venue EXCEPT ![r.market] = [trip |-> NextTrip, owner |-> "mine",
                            side |-> r.side, onSignal |-> r.lit, size |-> 1]]
      /\ opened' = [opened EXCEPT ![r.tap] = @ + 1]
  BY <1>1 DEF ExecuteOpen
<1>4. venue'[r.market].owner = "mine" /\ venue'[r.market].trip = NextTrip
  BY <1>2, <1>3 DEF Typed, AccountTypes
<1>5. \A j \in journal : j.trip < NextTrip /\ j.trip \in Nat /\ NextTrip \in Nat
                         /\ j.market \in Markets
  BY NextTripIsNew, PartsAreTyped DEF Books, PhoneAssumption
<1>6. r.kind = "open" /\ r.tap = act[visit].tap /\ r.stage = act[visit].stage
  BY AtWorkIs DEF ExecuteOpen, Waits
<1>7. ASSUME NEW j \in journal, Turned(j)'
      PROVE  \/ Followed(j)'
             \/ /\ Mine(j.market)' /\ venue'[j.market].trip > j.trip
                /\ ~Searching' /\ act'[visit'].kind \notin Sides
  <2>1. CASE j.by # r.tap
    <3>1. opened'[j.by] = opened[j.by]
      BY <1>3, <2>1 DEF Typed, ActTypes
    <3>2. Turned(j)
      BY <1>7, <3>1 DEF Turned
    <3>3. Followed(j)
      BY <1>1, <1>5, <3>2 DEF Successors, Flat
    <3> QED BY <1>3, <3>3 DEF Followed
  <2>2. CASE j.by = r.tap
    <3>1. j.by # 0
      BY <1>7 DEF Turned
    <3>2. act[visit].kind \in {"close", "reverse"} /\ j.market = act[visit].market
      BY <1>2, <1>6, <2>2, <3>1 DEF Books, OrdersClosed
    <3>3. act[visit].kind = "reverse" /\ act[visit].stage # 1
      BY <1>2, <1>6, <3>2 DEF RequestKind, Sides
    <3>4. ~Searching'
      <4>1. Searched(r) = {}
        BY DEF ExecuteOpen
      <4>2. ~Searching
        BY <1>6, <3>3, <4>1 DEF Searched, Searching
      <4> QED BY <1>3, <4>2 DEF Searching
    <3>5. Mine(j.market)' /\ venue'[j.market].trip > j.trip
      BY <1>2, <1>4, <1>5, <3>2 DEF Mine
    <3> QED BY <1>2, <3>3, <3>4, <3>5 DEF Sides
  <2> QED BY <2>1, <2>2
<1> QED BY <1>2, <1>3, <1>7 DEF Successors

LEMMA OtherHandlesKeepSuccessors ==
    ASSUME PhoneAssumption, Typed, Books, Undeceived, Successors, NEW r \in wire,
           ExecuteClose(r) \/ ExecuteAmend(r) \/ Refuse(r)
    PROVE  Successors'
<1> USE NothingIs
<1>0. Handle(r)
  BY DEF Handle
<1>1. /\ visit' = visit /\ place' = place /\ act'[visit].kind = act[visit].kind
      /\ place = "strategy"
  BY <1>0, AnswerIs
<1>2. UNCHANGED <<opened, look, result>>
  BY DEF ExecuteClose, ExecuteAmend, Refuse, whereVars, countVars
<1>3. r.market \in Markets /\ r.tap \in 0 .. MaxTaps /\ opened[r.tap] = 0
  BY PartsAreTyped DEF PhoneAssumption, Books, OpensAreSpent
<1>4. CASE ExecuteClose(r)
  <2>1. EndTrip(r.market, r.tap) /\ venue[r.market].trip # 0
    BY <1>4 DEF ExecuteClose
  <2> QED BY <1>1, <1>2, <1>3, <2>1, EndingKeepsSuccessors
<1>5. CASE ExecuteAmend(r) \/ Refuse(r)
  <2>1. UNCHANGED <<venue, journal>>
    BY <1>5 DEF ExecuteAmend, Refuse, accountVars
  <2>2. \A j \in journal : j.market \in Markets
    BY PartsAreTyped
  <2>3. Searching' => Searching
    BY <1>2 DEF Searching
  <2> QED BY <1>1, <1>2, <2>1, <2>2, <2>3, IdleStepsKeepSuccessors
<1> QED BY <1>4, <1>5

(***************************************************************************)
(* What a search accepts has a newest.                                     *)
(***************************************************************************)
LEMMA NewestIs ==
    ASSUME PhoneAssumption, Typed, NEW S, S \subseteq journal, S # {}
    PROVE  Newest(S) \in S /\ \A i \in S : i.trip <= Newest(S).trip
<1> DEFINE T == {j.trip : j \in S}
<1>1. \A j \in journal : j.trip \in 1 .. MaxTrips
  BY PartsAreTyped
<1>2. MaxTrips \in Nat
  BY DEF PhoneAssumption
<1>3. T \subseteq 0 .. MaxTrips /\ T # {}
  BY <1>1, <1>2
<1> HIDE DEF T
<1>4. PICK t \in T : \A k \in T : k <= t
  BY <1>2, <1>3, LargestExists
<1>5. PICK j \in S : j.trip = t
  BY <1>4 DEF T
<1>6. \A i \in S : i.trip <= j.trip
  BY <1>4, <1>5 DEF T
<1>7. \E k \in S : \A i \in S : i.trip <= k.trip
  BY <1>6
<1> QED BY <1>7 DEF Newest

(***************************************************************************)
(* The trip reported was not reversed: one that an order closed was closed *)
(* for good, and a search by time would have found the successor first.    *)
(***************************************************************************)
LEMMA GoToResultKeepsSuccessors ==
    ASSUME PhoneAssumption, Typed, Books, Successors, NEW v \in Visits, GoToResult(v)
    PROVE  Successors'
<1> USE NothingIs
<1>1. /\ UNCHANGED <<venue, journal, opened, visit>> /\ look' = [look EXCEPT ![v] = NoLook]
      /\ look[v].on /\ Done(look[v]) # {} /\ result' = Newest(Done(look[v])).trip
      /\ act' = IF act[visit].at = "refresh" THEN [act EXCEPT ![visit] = NoAct] ELSE act
  BY DEF GoToResult, accountVars, countVars
<1>2. Done(look[v]) \subseteq journal
  BY DEF Done
<1>3. /\ Newest(Done(look[v])) \in Done(look[v])
      /\ \A i \in Done(look[v]) : i.trip <= Newest(Done(look[v])).trip
  BY <1>1, <1>2, NewestIs
<1>4. PICK n \in Done(look[v]) : n = Newest(Done(look[v]))
  BY <1>3
<1>5. ~Turned(n)
  <2>1. n \in journal /\ n.owner = "mine" /\ n.market = look[v].market
    BY DEF Done
  <2>2. CASE look[v].by = "order"
    <3>1. n.trip = look[v].trip
      BY <2>2 DEF Done
    <3>2. PICK d \in journal : d.trip = look[v].trip /\ d.by # 0 /\ Dead(d.by)
      BY <1>1, <2>2 DEF Books, OrdersClosed
    <3>3. d = n
      BY <2>1, <3>1, <3>2 DEF Books, TripsAreNumbered
    <3> QED BY <3>2, <3>3 DEF Dead, Turned
  <2>3. CASE look[v].by = "opened"
    <3>1. Searching
      BY <2>3 DEF Searching
    <3>2. ASSUME Turned(n) PROVE FALSE
      <4>1. Followed(n)
        BY <2>1, <3>1, <3>2 DEF Successors
      <4>2. PICK i \in journal : i.owner = "mine" /\ i.market = n.market /\ i.trip > n.trip
        BY <4>1 DEF Followed
      <4>3. /\ i.trip \in Nat /\ n.trip \in Nat /\ look[v].trip \in Nat
            /\ n.trip >= look[v].trip
        <5>1. n.trip >= look[v].trip
          BY <2>3 DEF Done
        <5> QED BY <2>1, <5>1, PartsAreTyped DEF PhoneAssumption
      <4>4. i \in Done(look[v])
        BY <2>1, <2>3, <4>2, <4>3 DEF Done
      <4>5. i.trip <= n.trip
        BY <1>3, <1>4, <4>4
      <4> QED BY <4>2, <4>3, <4>5
    <3> QED BY <3>2
  <2>4. look[v].by \in {"order", "opened"}
    BY <1>1, PartsAreTyped DEF Books, OrdersClosed
  <2> QED BY <2>2, <2>3, <2>4
<1>6. \A j \in journal : j.trip = result' => j = n
  <2>1. n \in journal /\ result' = n.trip
    BY <1>1, <1>2, <1>4
  <2> QED BY <2>1 DEF Books, TripsAreNumbered
<1>7. \A j \in journal : (Turned(j) <=> Turned(j)') /\ (Followed(j) => Followed(j)')
  BY <1>1 DEF Turned, Followed
<1>8. Searching' => Searching
  BY <1>1 DEF Searching, Typed, ActTypes
<1>9. act'[visit].kind \in Sides => act[visit].kind \in Sides
  BY <1>1 DEF Typed, ActTypes, ScreenTypes, Sides
<1>10. \A j \in journal : Mine(j.market) => Mine(j.market)'
  BY <1>1 DEF Mine
<1> QED BY <1>1, <1>5, <1>6, <1>7, <1>8, <1>9, <1>10 DEF Successors

(* The rest of the steps neither trade, nor search, nor report. *)
LEMMA RestKeepsSuccessors ==
    ASSUME PhoneAssumption, Typed, Books, Undeceived, Successors,
           \/ AnswerAct \/ Poll \/ PollFails \/ ReadSignal \/ Dismiss \/ Standing
           \/ AskReverse \/ UNCHANGED vars \/ Leave \/ Return
           \/ \E m \in Markets : Choose(m)
           \/ \E v \in Visits : LookAgain(v) \/ AfterClose(v) \/ Retry(v)
           \/ \E v \in Visits : Succeeded(v) \/ Failed(v)
    PROVE  Successors'
<1> USE NothingIs
<1>1. /\ UNCHANGED <<venue, journal, opened>>
      /\ Searching' => Searching
      /\ act'[visit'].kind \in Sides => act[visit].kind \in Sides
      /\ place' = "result" => place = "result" /\ result' = result
  <2> USE DEF accountVars, whereVars, viewVars, storedVars, sheetVars, countVars, Searching
  <2>0. visit \in Visits /\ act \in [Visits -> Acts] /\ look \in [Visits -> Looks]
    BY DEF Typed, ScreenTypes, ActTypes
  <2>1. CASE Standing \/ AnswerAct \/ Poll \/ PollFails \/ ReadSignal \/ Dismiss \/ AskReverse
    BY <2>1 DEF Standing, AnswerAct, Poll, PollFails, ReadSignal, Dismiss, AskReverse
  <2>2. CASE (\E m \in Markets : Choose(m)) \/ UNCHANGED vars
    BY <2>2 DEF Choose, vars
  <2>3. CASE Leave
    BY <2>0, <2>3 DEF Leave, Sides
  <2>4. CASE Return
    <3>1. /\ visit' = visit + 1 /\ visit + 1 \in Visits /\ place # "strategy"
          /\ place' = "strategy"
          /\ UNCHANGED <<venue, journal, opened, look, act>>
      BY <2>4 DEF Return, Typed, ScreenTypes, Visits, PhoneAssumption
    <3>2. act[visit + 1] = NoAct
      BY <3>1 DEF Undeceived, OneAtWork
    <3> QED BY <3>1, <3>2 DEF Sides
  <2>5. CASE \E v \in Visits : LookAgain(v)
    <3>1. PICK v \in Visits : LookAgain(v)
      BY <2>5
    <3>2. look' = [look EXCEPT ![v] = IF look[v].tries + 1 < Attempts
                                   THEN [look[v] EXCEPT !.tries = @ + 1]
                                   ELSE NoLook]
      BY <3>1 DEF LookAgain
    <3>3. look[v] \in Looks
      BY <2>0
    <3>4. look'[v].by = "opened" => look[v].by = "opened"
      BY <2>0, <3>2, <3>3 DEF Looks
    <3>5. \A u \in Visits \ {v} : look'[u] = look[u]
      BY <2>0, <3>2
    <3>6. Searching' => Searching
      BY <3>4, <3>5
    <3>7. UNCHANGED <<venue, journal, opened, act, visit, place, result>>
      BY <3>1 DEF LookAgain
    <3> QED BY <3>6, <3>7
  <2>6. CASE \E v \in Visits : AfterClose(v) \/ Retry(v)
    <3>1. PICK v \in Visits : AfterClose(v) \/ Retry(v)
      BY <2>6
    <3>2. /\ act[v].kind = "reverse" /\ act'[v].kind = "reverse"
          /\ \A u \in Visits \ {v} : act'[u] = act[u]
          /\ UNCHANGED <<venue, journal, opened, look, visit, place, result>>
      BY <3>1, OtherSideIs
    <3> QED BY <2>0, <3>2
  <2>7. CASE \E v \in Visits : Succeeded(v) \/ Failed(v)
    <3>1. PICK v \in Visits : Succeeded(v) \/ Failed(v)
      BY <2>7
    <3>2. /\ UNCHANGED <<venue, journal, opened, look, visit, place>> /\ place = "strategy"
          /\ \/ act'[visit].kind = act[visit].kind
             \/ act'[visit] = NoAct
      BY <3>1, EndingIsOver
    <3> QED BY <3>2 DEF Sides
  <2> QED BY <2>1, <2>2, <2>3, <2>4, <2>5, <2>6, <2>7
<1>2. \A j \in journal : j.market \in Markets
  BY PartsAreTyped
<1> QED BY <1>1, <1>2, IdleStepsKeepSuccessors

LEMMA StepSuccessors ==
    ASSUME PhoneAssumption, Typed, Books, Undeceived, Successors, [Next]_vars, mishaps' = {}
    PROVE  Successors'
<1>0. ~Deceived'
  BY DEF Deceived
<1>1. CASE Others
  BY <1>1, OthersKeepSuccessors
<1>2. CASE \E r \in wire : Handle(r)
  BY <1>2, ExecuteOpenKeepsSuccessors, OtherHandlesKeepSuccessors DEF Handle
<1>3. CASE Starting
  BY <1>0, <1>3, StartingKeepsSuccessors
<1>4. CASE TakePoll \/ TakeAct
  BY <1>0, <1>4, TakesKeepSuccessors
<1>5. CASE \E v \in Visits : GoToResult(v)
  BY <1>5, GoToResultKeepsSuccessors
<1>6. CASE \/ AnswerAct \/ Poll \/ PollFails \/ ReadSignal \/ Dismiss \/ Standing
           \/ AskReverse \/ UNCHANGED vars \/ Leave \/ Return
           \/ \E m \in Markets : Choose(m)
           \/ \E v \in Visits : LookAgain(v) \/ AfterClose(v) \/ Retry(v)
           \/ \E v \in Visits : Succeeded(v) \/ Failed(v)
  BY <1>6, RestKeepsSuccessors
<1>7. CASE ActPollFails \/ \E v \in Visits : LoseAnswer(v)
  BY <1>7 DEF ActPollFails, LoseAnswer
<1>8. (\E side \in Keys : Tap(side)) \/ ConfirmOpen \/ CloseNow \/ Amend \/ ConfirmReverse
         => Starting \/ Standing
  BY PressesAre DEF Books
<1> QED BY <1>1, <1>2, <1>3, <1>4, <1>5, <1>6, <1>7, <1>8, StepsAre DEF Others, Handle

(* The three storeys stand: an inductive invariant of the screen. *)
THEOREM AlwaysIInv ==
    ASSUME PhoneAssumption
    PROVE  Spec => []IInv
<1>1. Init => IInv
  <2>1. Init => Successors
    BY DEF Init, Successors
  <2> QED BY <2>1, InitTypes, InitBooks, InitUndeceived DEF IInv
<1>2. IInv /\ [Next]_vars => IInv'
  <2>1. ASSUME IInv, [Next]_vars PROVE IInv'
    <3>1. Typed' /\ Books'
      BY <2>1, StepBooks DEF IInv
    <3>2. ~Deceived' => Undeceived'
      BY <2>1, StepUndeceived, MishapsGrow DEF IInv
    <3>3. ASSUME mishaps' = {} PROVE Successors'
      <4>1. mishaps = {} /\ ~Deceived
        BY <2>1, <3>3, MishapsGrow DEF Deceived
      <4> QED BY <2>1, <3>3, <4>1, StepSuccessors DEF IInv
    <3> QED BY <3>1, <3>2, <3>3 DEF IInv
  <2> QED BY <2>1
<1> QED BY <1>1, <1>2, PTL DEF Spec

(***************************************************************************)
(* "Reversing is a close and an open in one; the moment in between is not  *)
(* a round trip to report": what the result screen shows was not reversed, *)
(* in every interleaving where nothing came between.                       *)
(***************************************************************************)
THEOREM ReversalsAreNotReported ==
    ASSUME PhoneAssumption
    PROVE  Spec => []ReversalIsNotReported
<1>1. IInv => ReversalIsNotReported
  <2>1. ASSUME IInv, place = "result", mishaps = {} PROVE result \notin Reversed
    BY <2>1 DEF IInv, Successors, Turned, Reversed
  <2> QED BY <2>1 DEF ReversalIsNotReported
<1>2. Spec => []IInv
  BY AlwaysIInv
<1> QED BY <1>1, <1>2, PTL
=============================================================================
