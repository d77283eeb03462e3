----------------------------- MODULE PolicyEngine -----------------------------
(***************************************************************************)
(* services/internal/policy/policy.go: the engine that decides whether an  *)
(* order may go to the venue.  Each method holds the engine's mutex, so it *)
(* is one action; a caller is between two methods for as long as the venue *)
(* takes, which is why Authorize and RecordOpen are two actions and        *)
(* `inFlight' remembers what each caller was allowed to place.             *)
(*                                                                         *)
(* The state is keyed by account: limits.Group, the other key the code     *)
(* knows, has been the account itself since ADR 0007 (registry.go).        *)
(* Time passes in ticks, and midnight UTC may fall on any of them.         *)
(***************************************************************************)
EXTENDS Integers, FiniteSets

CONSTANTS
    Accounts,       \* policy accounts: wallet addresses
    Callers,        \* goroutines that ask the engine: taps, horizons, stops
    LimitChoices,   \* the limits an account may be given
    Requests,       \* the requests a caller may bring
    Books,          \* what the venue may report at startup: [count, exposure]
    PnLs,           \* realized results a close may report
    Slips,          \* filled notional minus requested: lot rounding
    PersistFails,   \* whether a write to the store may fail (it is logged)
    MaxTime,        \* bound: ticks of the clock
    MaxDays,        \* bound: midnights
    MaxLoss         \* bound: net result of a day, either way

None == [kind |-> "none"]
NeverOpened == -1

(* The row of the store that holds the kill switch: no account's. *)
KillRow == "kill switch"

Limits == [symbols : SUBSET STRING, min : Nat, max : Nat, leverage : Nat,
           total : Nat, open : Nat, loss : Nat, cooldown : Nat]

(* Limits.Validate: what SetLimits insists on. *)
Coherent(l) ==
    /\ l.symbols # {}
    /\ l.max > 0
    /\ l.min <= l.max
    /\ l.leverage > 0
    /\ l.open > 0
    /\ l.loss > 0

Request == [account : Accounts, symbol : STRING, reduce : BOOLEAN,
            notional : Nat, leverage : Nat]

ASSUME EngineAssumption ==
    /\ LimitChoices \subseteq Limits
    /\ Requests \subseteq Request
    /\ Books \subseteq [count : Nat, exposure : Nat]
    /\ \A b \in Books : b.count = 0 => b.exposure = 0
    /\ PnLs \subseteq Int
    /\ Slips \subseteq Int
    /\ PersistFails \in BOOLEAN
    /\ MaxTime \in Nat /\ MaxDays \in Nat /\ MaxLoss \in Nat
    /\ None \notin LimitChoices /\ None \notin Requests
    /\ IsFiniteSet(Callers)
    /\ KillRow \notin Accounts

VARIABLES
    killSwitch,
    limits,         \* account -> limits, None until it is connected
    lastOpen,       \* account -> tick of the last recorded open
    dayStart,       \* account -> day the realized loss counts from
    realizedLoss,   \* account -> net loss of that day, negative for a gain
    openPositions,
    exposure,
    saved,          \* the store: what the last write through left there
    inFlight,       \* caller -> the request it may place, or None
    now, today,
    reported,       \* history: account -> positions found at its connection
    behind          \* history: rows of the store whose last write was lost

accountVars == <<lastOpen, dayStart, realizedLoss, openPositions, exposure>>
clock == <<now, today>>
vars == <<killSwitch, limits, lastOpen, dayStart, realizedLoss, openPositions,
          exposure, saved, inFlight, now, today, reported, behind>>

Init ==
    /\ killSwitch = FALSE
    /\ limits = [a \in Accounts |-> None]
    /\ lastOpen = [a \in Accounts |-> NeverOpened]
    /\ dayStart = [a \in Accounts |-> 0]
    /\ realizedLoss = [a \in Accounts |-> 0]
    /\ openPositions = [a \in Accounts |-> 0]
    /\ exposure = [a \in Accounts |-> 0]
    /\ saved = [kill |-> FALSE, lastOpen |-> lastOpen, dayStart |-> dayStart,
                realizedLoss |-> realizedLoss]
    /\ inFlight = [c \in Callers |-> None]
    /\ now = 0
    /\ today = 0
    /\ reported = [a \in Accounts |-> 0]
    /\ behind = {}

(***************************************************************************)
(* rollDayLocked, done under the lock by every method that reads or writes *)
(* the day: a day that is over has lost nothing.                           *)
(***************************************************************************)
DayLoss(a) == IF dayStart[a] < today THEN 0 ELSE realizedLoss[a]

(* A slip: rolls the day whenever it is looked at. *)
RollDayAlways(a) ==
    /\ dayStart' = [dayStart EXCEPT ![a] = today]
    /\ realizedLoss' = [realizedLoss EXCEPT ![a] = 0]

RollDay(a) ==
    /\ dayStart' = [dayStart EXCEPT ![a] = IF @ < today THEN today ELSE @]
    /\ realizedLoss' = [realizedLoss EXCEPT ![a] = DayLoss(a)]

(* dailyLoss: a winning day has lost nothing. *)
LostToday(a) == IF DayLoss(a) < 0 THEN 0 ELSE DayLoss(a)

(* A slip: writes the day through and leaves the last open out. *)
PersistDayOnly(a) ==
    /\ saved' = [saved EXCEPT !.dayStart[a] = dayStart'[a], !.realizedLoss[a] = realizedLoss'[a]]
    /\ UNCHANGED behind

(***************************************************************************)
(* persistAccountLocked, after the state is written: the store follows,    *)
(* unless the write fails.  openPositions and exposure are saved too, but  *)
(* every connection replaces them with the venue's, so they are left out.  *)
(***************************************************************************)
PersistAccount(a) ==
    \/ /\ saved' = [kill |-> saved.kill,
                    lastOpen |-> [saved.lastOpen EXCEPT ![a] = lastOpen'[a]],
                    dayStart |-> [saved.dayStart EXCEPT ![a] = dayStart'[a]],
                    realizedLoss |-> [saved.realizedLoss EXCEPT ![a] = realizedLoss'[a]]]
       /\ behind' = behind \ {a}
    \/ PersistFails /\ saved' = saved /\ behind' = behind \cup {a}

(* A slip: keeps the kill switch in memory only. *)
PersistNothing == UNCHANGED <<saved, behind>>

PersistKill ==
    \/ saved' = [saved EXCEPT !.kill = killSwitch'] /\ behind' = behind \ {KillRow}
    \/ PersistFails /\ saved' = saved /\ behind' = behind \cup {KillRow}

(* SetLimits, for an account whose service exists; see Connect for the first. *)
SetLimits(a, l) ==
    /\ limits[a] # None
    /\ Coherent(l)
    /\ limits' = [limits EXCEPT ![a] = l]
    /\ UNCHANGED <<killSwitch, accountVars, saved, inFlight, clock, reported, behind>>

Kill ==
    /\ killSwitch' = TRUE
    /\ PersistKill
    /\ UNCHANGED <<limits, accountVars, inFlight, clock, reported>>

Revive ==
    /\ killSwitch' = FALSE
    /\ PersistKill
    /\ UNCHANGED <<limits, accountVars, inFlight, clock, reported>>

(***************************************************************************)
(* Authorize.  Closing is never refused.  What an opening order must pass  *)
(* before the day is looked at, and what it must pass then.                *)
(***************************************************************************)
FitsTheLimits(r, l) ==
    /\ ~killSwitch
    /\ l # None
    /\ r.symbol \in l.symbols
    /\ r.notional > 0
    /\ l.min <= r.notional /\ r.notional <= l.max
    /\ r.leverage <= l.leverage

(* A slip: leaves the count of open positions to somebody else. *)
FitsTheDayUncounted(r, l) ==
    /\ LostToday(r.account) < l.loss
    /\ l.total > 0 => exposure[r.account] + r.notional <= l.total

FitsTheDay(r, l) ==
    /\ LostToday(r.account) < l.loss
    /\ openPositions[r.account] < l.open
    /\ l.total > 0 => exposure[r.account] + r.notional <= l.total
    /\ \/ l.cooldown = 0
       \/ lastOpen[r.account] = NeverOpened
       \/ now - lastOpen[r.account] >= l.cooldown

Authorize(c, r) ==
    LET l == limits[r.account]
        judged == ~r.reduce /\ FitsTheLimits(r, l)
    IN  /\ inFlight[c] = None
        /\ IF judged THEN RollDay(r.account) ELSE UNCHANGED <<dayStart, realizedLoss>>
        /\ inFlight' = IF r.reduce \/ (judged /\ FitsTheDay(r, l))
                       THEN [inFlight EXCEPT ![c] = r]
                       ELSE inFlight
        /\ UNCHANGED <<killSwitch, limits, lastOpen, openPositions, exposure,
                       saved, clock, reported, behind>>

(* A look at the state rolls the day in memory, and is not written through. *)
Snapshot(a) ==
    /\ RollDay(a)
    /\ UNCHANGED <<killSwitch, limits, lastOpen, openPositions, exposure, saved,
                   inFlight, clock, reported, behind>>

(* The venue refused, or the call to it failed: the engine hears nothing. *)
Drop(c) ==
    /\ inFlight[c] # None
    /\ inFlight' = [inFlight EXCEPT ![c] = None]
    /\ UNCHANGED <<killSwitch, limits, accountVars, saved, clock, reported, behind>>

RecordOpen(c, slip) ==
    LET r == inFlight[c]
        a == r.account
    IN  /\ r # None /\ ~r.reduce
        /\ r.notional + slip > 0
        /\ RollDay(a)
        /\ lastOpen' = [lastOpen EXCEPT ![a] = now]
        /\ openPositions' = [openPositions EXCEPT ![a] = @ + 1]
        /\ exposure' = [exposure EXCEPT ![a] = @ + r.notional + slip]
        /\ PersistAccount(a)
        /\ inFlight' = [inFlight EXCEPT ![c] = None]
        /\ UNCHANGED <<killSwitch, limits, clock, reported>>

(* A slip: dust left behind by the last close. *)
ExposureWithDust(e, closed, left) == IF e - closed < 0 THEN 0 ELSE e - closed

OneFewer(n) == IF n > 0 THEN n - 1 ELSE 0

(* "Flat means flat": the last position to close takes the exposure, and   *)
(* its rounding dust, with it.                                             *)
ExposureAfter(e, closed, left) ==
    IF e - closed < 0 \/ left = 0 THEN 0 ELSE e - closed

RecordClose(c, slip, pnl) ==
    LET r == inFlight[c]
        a == r.account
        closed == r.notional + slip
        left == OneFewer(openPositions[a])
    IN  /\ r # None /\ r.reduce
        /\ closed > 0
        /\ DayLoss(a) - pnl \in -MaxLoss .. MaxLoss
        /\ dayStart' = [dayStart EXCEPT ![a] = IF @ < today THEN today ELSE @]
        /\ openPositions' = [openPositions EXCEPT ![a] = left]
        /\ exposure' = [exposure EXCEPT ![a] = ExposureAfter(@, closed, left)]
        /\ realizedLoss' = [realizedLoss EXCEPT ![a] = DayLoss(a) - pnl]
        /\ UNCHANGED lastOpen
        /\ PersistAccount(a)
        /\ inFlight' = [inFlight EXCEPT ![c] = None]
        /\ UNCHANGED <<killSwitch, limits, clock, reported>>

(***************************************************************************)
(* platform.New: an account's service sets its limits and replaces the     *)
(* engine's view of its positions with the venue's (Reconcile).  Nobody    *)
(* trades for the account before that: there is no service to ask.         *)
(***************************************************************************)
Connect(a, l, book) ==
    /\ limits[a] = None
    /\ Coherent(l)
    /\ limits' = [limits EXCEPT ![a] = l]
    /\ RollDay(a)
    /\ openPositions' = [openPositions EXCEPT ![a] = book.count]
    /\ exposure' = [exposure EXCEPT ![a] = book.exposure]
    /\ reported' = [reported EXCEPT ![a] = book.count]
    /\ UNCHANGED lastOpen
    /\ PersistAccount(a)
    /\ UNCHANGED <<killSwitch, inFlight, clock>>

(* The process dies and starts again: Restore reads the store, rolls days  *)
(* that are over, and every account waits for its connection.              *)
Restart ==
    /\ limits' = [a \in Accounts |-> None]
    /\ inFlight' = [c \in Callers |-> None]
    /\ killSwitch' = saved.kill
    /\ lastOpen' = saved.lastOpen
    /\ dayStart' = [a \in Accounts |-> today]
    /\ realizedLoss' = [a \in Accounts |->
                          IF saved.dayStart[a] < today THEN 0 ELSE saved.realizedLoss[a]]
    /\ openPositions' = [a \in Accounts |-> 0]
    /\ exposure' = [a \in Accounts |-> 0]
    /\ reported' = [a \in Accounts |-> 0]
    /\ UNCHANGED <<saved, behind, clock>>

Tick ==
    /\ now < MaxTime
    /\ now' = now + 1
    /\ today' \in {today, today + 1} \cap 0 .. MaxDays
    /\ UNCHANGED <<killSwitch, limits, accountVars, saved, inFlight, reported, behind>>

Next ==
    \/ \E a \in Accounts, l \in LimitChoices : SetLimits(a, l)
    \/ Kill
    \/ Revive
    \/ \E c \in Callers, r \in Requests : Authorize(c, r)
    \/ \E a \in Accounts : Snapshot(a)
    \/ \E c \in Callers : Drop(c)
    \/ \E c \in Callers, slip \in Slips : RecordOpen(c, slip)
    \/ \E c \in Callers, slip \in Slips, pnl \in PnLs : RecordClose(c, slip, pnl)
    \/ \E a \in Accounts, l \in LimitChoices, b \in Books : Connect(a, l, b)
    \/ Restart
    \/ Tick

Spec == Init /\ [][Next]_vars

-----------------------------------------------------------------------------
(* Properties *)

TypeOK ==
    /\ killSwitch \in BOOLEAN
    /\ limits \in [Accounts -> LimitChoices \cup {None}]
    /\ lastOpen \in [Accounts -> Nat \cup {NeverOpened}]
    /\ dayStart \in [Accounts -> Nat]
    /\ realizedLoss \in [Accounts -> Int]
    /\ openPositions \in [Accounts -> Nat]
    /\ exposure \in [Accounts -> Nat]
    /\ saved \in [kill : BOOLEAN, lastOpen : [Accounts -> Nat \cup {NeverOpened}],
                  dayStart : [Accounts -> Nat], realizedLoss : [Accounts -> Int]]
    /\ inFlight \in [Callers -> Requests \cup {None}]
    /\ now \in Nat /\ today \in Nat
    /\ reported \in [Accounts -> Nat]
    /\ behind \subseteq Accounts \cup {KillRow}

(***************************************************************************)
(* RecordClose's comment: rounding dust "must not accumulate into a        *)
(* phantom exposure that eventually refuses orders".  An account the       *)
(* engine counts no position for has no exposure either.                   *)
(***************************************************************************)
FlatMeansFlat ==
    \A a \in Accounts : openPositions[a] = 0 => exposure[a] = 0

Opening(a) ==
    {c \in Callers : inFlight[c] # None /\ inFlight[c].account = a /\ ~inFlight[c].reduce}

(***************************************************************************)
(* How far the cap on open positions can be overshot.  Authorize and       *)
(* RecordOpen are two critical sections with the venue's answer between    *)
(* them, so concurrent taps may all be admitted into the last slot; but    *)
(* never more of them than there are callers, whatever the order.  An      *)
(* account that was over its cap when it connected opens nothing.          *)
(***************************************************************************)
MostOpen == {l.open : l \in LimitChoices}

OvershootBounded ==
    \A a \in Accounts :
        \/ openPositions[a] <= reported[a] /\ Opening(a) = {}
        \/ \E m \in MostOpen : openPositions[a] + Cardinality(Opening(a)) < m + Cardinality(Callers)

(***************************************************************************)
(* The day's net result belongs to the day: it changes when a close is     *)
(* recorded and at midnight, and neither a refused order, an open, a       *)
(* change of limits nor a restart of the process forgives it: unless the   *)
(* last write of the account's row was lost, which the code only logs.  A  *)
(* lost write that was followed by a good one does no harm.                *)
(***************************************************************************)
LossMovesOnlyByCloses ==
    [][\A a \in Accounts \ behind : DayLoss(a)' # DayLoss(a) =>
          \/ today' # today
          \/ \E c \in Callers : /\ inFlight[c] # None /\ inFlight'[c] = None
                                /\ inFlight[c].account = a /\ inFlight[c].reduce]_vars

(***************************************************************************)
(* The pause before the next open also outlives the process: the last open *)
(* the engine remembers never moves back, unless its last write was lost.  *)
(***************************************************************************)
CooldownNeverForgotten ==
    [][\A a \in Accounts \ behind : lastOpen[a] <= lastOpen'[a]]_vars

(***************************************************************************)
(* A kill is lifted by an operator's Revive and by nothing else: while it  *)
(* holds, no opening order is admitted, before or after a restart, unless  *)
(* the write of the switch was lost.                                       *)
(***************************************************************************)
KillHoldsUntilRevived ==
    [][killSwitch /\ KillRow \notin behind =>
          /\ killSwitch' \/ Revive
          /\ \A a \in Accounts : Opening(a)' \subseteq Opening(a)]_vars
=============================================================================
