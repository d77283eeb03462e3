----------------------------- MODULE PhoneTrading -----------------------------
(***************************************************************************)
(* The app's strategy screen (apps/mobile/src/strategy/screen.tsx) over    *)
(* the trading loop it shares with the others (trading/useTrading.ts): the *)
(* polled state, the tap, the close, the reversal, the amendment, and the  *)
(* search for the round trip that just ended.                              *)
(*                                                                         *)
(* The app runs on one thread; an await is where something else may        *)
(* happen.  A step is what runs from one await to the next, with the       *)
(* render that follows it and its effects (React batches the updates of    *)
(* one such run).  The poll's interval does not wait for an answer and an  *)
(* act asks for the state itself, so answers may cross.  A screen that is  *)
(* left is unmounted: its acts and loops go on, and the next visit starts  *)
(* from nothing but what the phone stores.                                 *)
(*                                                                         *)
(* The platform and the other strategies' screens are external: the        *)
(* account holds one position per market, and a second order adds to it.   *)
(***************************************************************************)
EXTENDS Integers, FiniteSets

CONSTANTS
    Markets,        \* the markets offered, numbered as the menu lists them
    Armed,          \* TRUE for Direction, FALSE for a strategy with a signal
    Keys,           \* the keys pressed, and the sides a signal names: of "up", "down"
    Outsiders,      \* whose positions others open: of "other", "nobody"
    MaxOpen,        \* limits.max_open_positions
    Attempts,       \* times goToResult asks for the round trip (6 in the code)
    MaxTrips,       \* bound: positions ever opened
    MaxTaps,        \* bound: opens, closes, reversals and amendments ever begun
    MaxVisits,      \* bound: times the screen is mounted
    MaxChanges,     \* bound: changes of the account after which nobody else acts
    MaxFaults       \* bound: orders and acts whose answer is lost

ASSUME PhoneAssumption ==
    /\ Armed \in BOOLEAN
    /\ Keys \subseteq {"up", "down"} /\ Outsiders \subseteq {"other", "nobody"}
    /\ {MaxOpen, Attempts, MaxTrips, MaxTaps, MaxVisits} \subseteq Nat \ {0}
    /\ {MaxChanges, MaxFaults} \subseteq Nat
    /\ IsFiniteSet(Markets) /\ Markets # {} /\ Markets \subseteq Nat \ {0}

NoMarket == 0
Sides == {"up", "down"}
Opposite(side) == IF side = "up" THEN "down" ELSE "up"
Visits == 1 .. MaxVisits

(* A running position: its round trip, numbered in the order of opened_at; *)
(* whose it is ("nobody" opened it outside the platform); whether it was   *)
(* opened on a lit signal; how many orders it is made of.                  *)
NoPosition == [trip |-> 0, owner |-> "none", side |-> "up", onSignal |-> FALSE, size |-> 0]
Unknown == [m \in {} |-> NoPosition]            \* state === null
NoAnswer == [at |-> "idle", snap |-> Unknown, stamp |-> 0]
NoAct == [kind |-> "none", at |-> "idle", stage |-> 0, market |-> NoMarket,
          side |-> "up", tap |-> 0, trip |-> 0]
NoLook == [on |-> FALSE, by |-> "none", trip |-> 0, market |-> NoMarket, tries |-> 0]

VARIABLES
    venue,          \* market -> the position it holds
    journal,        \* the round trips ended: [trip, market, owner, by]; by is
                    \* the tap whose close it was, 0 for none of the phone's
    stamp,          \* history: how often the venue changed, to order the answers
    wire,           \* requests on their way: [kind, market, side, lit, tap, stage]
    place,          \* "strategy", "lobby" or "result"
    visit,          \* which mount of the screen this is
    state,          \* useTrading's state: a snapshot of venue, or Unknown
    shown,          \* history: that snapshot's stamp
    chosen,         \* useSymbol: the market last chosen, stored
    mark,           \* signal-entry: the market whose entry followed a signal, stored
    got,            \* useSignal: the last answer, kept with what it answers
    act,            \* visit -> the open, close, reversal or amendment under way
    asks,           \* the state asked for: by the interval, by the act
    asking,         \* the sheet of a tap against no signal: its side or "none"
    reversing,      \* the sheet of a reversal: the trip it was opened on, or 0
    was,            \* the trip of the position last shown, 0 for none
    look,           \* visit -> its goToResult loop; on is `leaving' and `settling'
    result,         \* the trip the result screen shows, 0 for none
    taps,           \* bound: acts begun
    opened,         \* history: tap -> opens the venue executed for it
    mishaps         \* history: what went wrong so far, see Mishaps

(***************************************************************************)
(* What can come between the screen and the account:                       *)
(*   lost     an order's answer did not arrive                             *)
(*   crossed  an older state was shown after a newer one                   *)
(*   left     the screen was left with an act under way                    *)
(*   sheet    a sheet was confirmed after what it was opened on had changed*)
(*   met      an order found another's position in its market              *)
(*   unread   the state an act ends with could not be read                 *)
(* and between a reversal and the result screen:                           *)
(*   search   it went through while the end of an earlier position was     *)
(*            still looked up, by this screen or by one that was left      *)
(***************************************************************************)
Mishaps == {"lost", "crossed", "left", "sheet", "met", "unread", "search"}

faults == Cardinality(mishaps \cap {"lost", "unread"})

accountVars == <<venue, journal, stamp>>
viewVars == <<state, shown, was>>
sheetVars == <<asking, reversing>>
storedVars == <<chosen, mark>>
whereVars == <<place, visit, result>>
countVars == <<taps, opened>>
vars == <<accountVars, wire, whereVars, viewVars, storedVars, got, act, asks,
          sheetVars, look, countVars, mishaps>>

First(S) == CHOOSE m \in S : \A n \in S : m <= n

Init ==
    /\ venue = [m \in Markets |-> NoPosition]
    /\ journal = {}
    /\ stamp = 0
    /\ wire = {}
    /\ place = "strategy"
    /\ visit = 1
    /\ result = 0
    /\ state = Unknown
    /\ shown = 0
    /\ was = 0
    /\ chosen = First(Markets)
    /\ mark = NoMarket
    /\ got = [market |-> NoMarket, side |-> "none"]
    /\ act = [v \in Visits |-> NoAct]
    /\ asks = [who \in {"poll", "act"} |-> NoAnswer]
    /\ asking = "none"
    /\ reversing = 0
    /\ look = [v \in Visits |-> NoLook]
    /\ taps = 0
    /\ opened = [t \in 1 .. MaxTaps |-> 0]
    /\ mishaps = {}

-----------------------------------------------------------------------------
(* What the screen reads off a state and the chosen market. *)

(* position: the strategy's own wherever it is, else one that is nobody's  *)
(* on the chosen market.  Named by its market, NoMarket for none.          *)
PositionIn(s, ch) ==
    LET own == {m \in DOMAIN s : s[m].owner = "mine"} IN
    IF own # {} THEN First(own)
    ELSE IF ch \in DOMAIN s /\ s[ch].owner = "nobody" THEN ch
    ELSE NoMarket

(* heldBy(m) !== null: the market has a position, and not the one shown. *)
Held(s, ch, m) == m \in DOMAIN s /\ s[m].trip # 0 /\ m # PositionIn(s, ch)

position == PositionIn(state, chosen)
symbol == IF position # NoMarket THEN position ELSE chosen
taken == position = NoMarket /\ Held(state, chosen, symbol)
atLimit ==
    /\ state # Unknown /\ position = NoMarket
    /\ Cardinality({m \in DOMAIN state : state[m].trip # 0}) >= MaxOpen

(* A slip: the answer counts whatever it was an answer about. *)
LitByAny == got.side

(* useSignal: the side on offer; another market's answer is no answer. *)
Lit == IF got.market = symbol THEN got.side ELSE "none"

Mounted(v) == v = visit /\ place = "strategy"
busy == act[visit].kind
settling == look[visit].on
sheet == asking # "none" \/ reversing # 0

(* A slip: the keys stay live while an order is under way. *)
KeysFreeWhileBusy ==
    /\ position = NoMarket /\ ~settling
    /\ state # Unknown /\ ~taken /\ ~atLimit

(* DirectionKeys are shown and not disabled. *)
KeysFree ==
    /\ position = NoMarket /\ ~settling
    /\ busy = "none" /\ state # Unknown /\ ~taken /\ ~atLimit

(* The buttons of an open position can be pressed. *)
ExitsFree == position # NoMarket /\ busy = "none"

(* Nothing lies over the screen. *)
InReach == place = "strategy" /\ ~sheet /\ taps < MaxTaps

-----------------------------------------------------------------------------
(* goToResult and the effects of a render *)

(* goToResult's first lines: one loop in a visit. *)
Looking(v, by, trip, market) ==
    IF look[v].on THEN look
    ELSE [look EXCEPT ![v] =
            [on |-> TRUE, by |-> by, trip |-> trip, market |-> market, tries |-> 0]]

(* A slip: the pause in a reversal is taken for an end. *)
EndedAlways(pos, doing) == was # 0 /\ pos = NoMarket

(* The position that was there is not, and no reversal explains it. *)
Ended(pos, doing) == was # 0 /\ pos = NoMarket /\ doing # "reverse"

(***************************************************************************)
(* The effects of a render with state s while the act `doing' is busy: the *)
(* choice follows the position, or leaves a market another strategy holds; *)
(* and a position that ended is looked up, and its mark forgotten.  A      *)
(* close whose answer came in the same run has started its own search.     *)
(***************************************************************************)
Render(s, doing, closed) ==
    LET pos == PositionIn(s, chosen)
        free == {m \in Markets : ~Held(s, chosen, m)}
        leave == pos = NoMarket /\ Held(s, chosen, chosen) /\ free # {}
    IN  /\ state' = s
        /\ was' = IF pos = NoMarket THEN 0 ELSE s[pos].trip
        /\ chosen' = IF pos # NoMarket THEN pos
                     ELSE IF leave THEN First(free) ELSE chosen
        /\ mark' = IF Ended(pos, doing) THEN NoMarket ELSE mark
        /\ look' = IF closed # 0 THEN Looking(visit, "order", closed, chosen)
                   ELSE IF Ended(pos, doing) THEN Looking(visit, "opened", was, chosen)
                   ELSE look

-----------------------------------------------------------------------------
(* The platform and the other screens *)

NextTrip ==
    Cardinality({venue[m].trip : m \in {n \in Markets : venue[n].trip # 0}}
                \cup {j.trip : j \in journal}) + 1

EndTrip(m, tap) ==
    /\ venue' = [venue EXCEPT ![m] = NoPosition]
    /\ journal' = journal \cup
          {[trip |-> venue[m].trip, market |-> m, owner |-> venue[m].owner, by |-> tap]}
    /\ stamp' = stamp + 1

(* A timer, a stop, a liquidation or another screen ends a position. *)
PlatformEnds(m) ==
    /\ venue[m].trip # 0 /\ stamp < MaxChanges
    /\ EndTrip(m, 0)
    /\ UNCHANGED <<wire, whereVars, viewVars, storedVars, got, act, asks, sheetVars,
                   look, countVars, mishaps>>

(* Another strategy's screen, or the wallet at the exchange, opens one. *)
OthersOpen(m) ==
    /\ venue[m].trip = 0 /\ NextTrip <= MaxTrips /\ stamp < MaxChanges
    /\ \E owner \in Outsiders :
          venue' = [venue EXCEPT ![m] = [trip |-> NextTrip, owner |-> owner,
                        side |-> "up", onSignal |-> FALSE, size |-> 1]]
    /\ stamp' = stamp + 1
    /\ UNCHANGED <<journal, wire, whereVars, viewVars, storedVars, got, act, asks,
                   sheetVars, look, countVars, mishaps>>

(* An answer reaches the act that waits for it, if it still does. *)
Waits(v, r) == act[v].tap = r.tap /\ act[v].at = "sent" /\ act[v].stage = r.stage
Answered(r, at, trip) ==
    [v \in Visits |-> IF Waits(v, r) THEN [act[v] EXCEPT !.at = at, !.trip = trip]
                                     ELSE act[v]]
Met(m) == IF venue[m].owner \in {"other", "nobody"} THEN {"met"} ELSE {}

(* Only a reversal sends a second stage. *)
Searched(r) ==
    IF r.stage # 1 /\ \E v \in Visits : look[v].by = "opened" THEN {"search"} ELSE {}

(* An open is executed: a position, or more of the one that is there.  A   *)
(* position keeps the strategy it was last opened for.                     *)
ExecuteOpen(r) ==
    /\ r \in wire /\ r.kind = "open"
    /\ IF venue[r.market].trip = 0
       THEN /\ NextTrip <= MaxTrips
            /\ venue' = [venue EXCEPT ![r.market] = [trip |-> NextTrip, owner |-> "mine",
                            side |-> r.side, onSignal |-> r.lit, size |-> 1]]
       ELSE venue' = [venue EXCEPT ![r.market].size = @ + 1, ![r.market].owner = "mine"]
    /\ stamp' = stamp + 1
    /\ opened' = [opened EXCEPT ![r.tap] = @ + 1]
    /\ mishaps' = mishaps \cup Met(r.market) \cup Searched(r)
    /\ act' = Answered(r, "done", 0)
    /\ wire' = wire \ {r}
    /\ UNCHANGED <<journal, whereVars, viewVars, storedVars, got, asks, sheetVars,
                   look, taps>>

(* A close is executed on whatever the market holds. *)
ExecuteClose(r) ==
    /\ r \in wire /\ r.kind = "close" /\ venue[r.market].trip # 0
    /\ EndTrip(r.market, r.tap)
    /\ mishaps' = mishaps \cup Met(r.market)
    /\ act' = Answered(r, "done", venue[r.market].trip)
    /\ wire' = wire \ {r}
    /\ UNCHANGED <<whereVars, viewVars, storedVars, got, asks, sheetVars, look, countVars>>

ExecuteAmend(r) ==
    /\ r \in wire /\ r.kind = "amend" /\ venue[r.market].trip # 0
    /\ act' = Answered(r, "done", 0)
    /\ wire' = wire \ {r}
    /\ UNCHANGED <<accountVars, whereVars, viewVars, storedVars, got, asks, sheetVars,
                   look, countVars, mishaps>>

(* The request is refused: by a rule, or for a market with no position.    *)
(* An open the exchange refuses is an answer ("failed"), not an error.     *)
Refuse(r) ==
    /\ r \in wire
    /\ \E why \in IF r.kind = "open" THEN {"error", "cooldown", "failed"} ELSE {"error"} :
          act' = Answered(r, why, 0)
    /\ wire' = wire \ {r}
    /\ UNCHANGED <<accountVars, whereVars, viewVars, storedVars, got, asks, sheetVars,
                   look, countVars, mishaps>>

(* The answer is lost (code "network"); the order may still be executed. *)
LoseAnswer(v) ==
    /\ act[v].at = "sent" /\ faults < MaxFaults
    /\ act' = [act EXCEPT ![v].at = "error"]
    /\ mishaps' = mishaps \cup {"lost"}
    /\ UNCHANGED <<accountVars, wire, whereVars, viewVars, storedVars, got, asks,
                   sheetVars, look, taps, opened>>

-----------------------------------------------------------------------------
(* The polled state and the signal *)

Snapshot == [at |-> "answered", snap |-> venue, stamp |-> stamp]

(* The interval's refresh, and the one that follows a change of market, is *)
(* answered with the account as it is; when it was asked does not matter.  *)
Poll ==
    /\ place = "strategy" /\ asks["poll"].at = "idle"
    /\ asks' = [asks EXCEPT !["poll"] = Snapshot]
    /\ UNCHANGED <<accountVars, wire, whereVars, viewVars, storedVars, got, act,
                   sheetVars, look, countVars, mishaps>>

(* The act's own refresh is answered. *)
AnswerAct ==
    /\ asks["act"].at = "asked"
    /\ asks' = [asks EXCEPT !["act"] = Snapshot]
    /\ UNCHANGED <<accountVars, wire, whereVars, viewVars, storedVars, got, act,
                   sheetVars, look, countVars, mishaps>>

(* A poll's answer is shown. *)
TakePoll ==
    /\ asks["poll"].at = "answered"
    /\ Render(asks["poll"].snap, busy, 0)
    /\ shown' = asks["poll"].stamp
    /\ mishaps' = IF asks["poll"].stamp < shown THEN mishaps \cup {"crossed"} ELSE mishaps
    /\ asks' = [asks EXCEPT !["poll"] = NoAnswer]
    /\ UNCHANGED <<accountVars, wire, whereVars, got, act, sheetVars, countVars>>

(* The act's own answer is shown, busy is null, and a close that went      *)
(* through is looked up: one run, one render.                              *)
TakeAct ==
    /\ asks["act"].at = "answered"
    /\ Render(asks["act"].snap, "none", act[visit].trip)
    /\ shown' = asks["act"].stamp
    /\ mishaps' = IF asks["act"].stamp < shown THEN mishaps \cup {"crossed"} ELSE mishaps
    /\ asks' = [asks EXCEPT !["act"] = NoAnswer]
    /\ act' = [act EXCEPT ![visit] = NoAct]
    /\ UNCHANGED <<accountVars, wire, whereVars, got, sheetVars, countVars>>

(* The state could not be read: it stays as it was (OFFLINE). *)
PollFails ==
    /\ asks["poll"].at # "idle"
    /\ asks' = [asks EXCEPT !["poll"] = NoAnswer]
    /\ UNCHANGED <<accountVars, wire, whereVars, viewVars, storedVars, got, act,
                   sheetVars, look, taps, opened, mishaps>>

(* refresh does not throw: the act ends all the same. *)
ActPollFails ==
    /\ asks["act"].at # "idle" /\ faults < MaxFaults
    /\ asks' = [asks EXCEPT !["act"] = NoAnswer]
    /\ act' = [act EXCEPT ![visit] = NoAct]
    /\ look' = IF act[visit].trip # 0
               THEN Looking(visit, "order", act[visit].trip, chosen) ELSE look
    /\ mishaps' = mishaps \cup {"unread"}
    /\ UNCHANGED <<accountVars, wire, whereVars, viewVars, storedVars, got,
                   sheetVars, taps, opened>>

(* The answer of a market the screen has left is dropped unread. *)
ReadSignal ==
    /\ place = "strategy" /\ ~Armed
    /\ \E side \in {"none"} \cup Keys : got' = [market |-> symbol, side |-> side]
    /\ UNCHANGED <<accountVars, wire, whereVars, viewVars, storedVars, act, asks,
                   sheetVars, look, countVars, mishaps>>

-----------------------------------------------------------------------------
(* The user: entries *)

Begin(kind, stage, m, side, lit, request) ==
    /\ taps' = taps + 1
    /\ act' = [act EXCEPT ![visit] = [kind |-> kind, at |-> "sent", stage |-> stage,
                    market |-> m, side |-> side, tap |-> taps + 1, trip |-> 0]]
    /\ wire' = wire \cup {[kind |-> request, market |-> m, side |-> side, lit |-> lit,
                           tap |-> taps + 1, stage |-> stage]}

(* open: the mark says whether the order follows a signal, then it is sent. *)
Open(side) ==
    /\ mark' = IF Lit # "none" THEN symbol ELSE NoMarket
    /\ Begin(side, 1, symbol, side, got.market = symbol /\ got.side # "none", "open")

(* tap: against no signal the screen asks first. *)
Tap(side) ==
    /\ InReach /\ KeysFree
    /\ IF ~Armed /\ Lit = "none"
       THEN asking' = side /\ UNCHANGED <<mark, taps, act, wire>>
       ELSE Open(side) /\ UNCHANGED asking
    /\ UNCHANGED <<accountVars, whereVars, viewVars, chosen, got, asks, reversing,
                   look, opened, mishaps>>

(* The sheet does not look at the keys again. *)
ConfirmOpen ==
    /\ place = "strategy" /\ asking # "none" /\ taps < MaxTaps
    /\ Open(asking)
    /\ asking' = "none"
    /\ mishaps' = IF KeysFree THEN mishaps ELSE mishaps \cup {"sheet"}
    /\ UNCHANGED <<accountVars, whereVars, viewVars, chosen, got, asks, reversing,
                   look, opened>>

Dismiss ==
    /\ place = "strategy" /\ sheet
    /\ asking' = "none"
    /\ reversing' = 0
    /\ UNCHANGED <<accountVars, wire, whereVars, viewVars, storedVars, got, act, asks,
                   look, countVars, mishaps>>

(* The market menu and the steps along the charts: free markets only. *)
Choose(m) ==
    /\ InReach /\ position = NoMarket /\ m # symbol /\ ~Held(state, chosen, m)
    /\ chosen' = m
    /\ UNCHANGED <<accountVars, wire, whereVars, viewVars, mark, got, act, asks,
                   sheetVars, look, countVars, mishaps>>

-----------------------------------------------------------------------------
(* The user: exits *)

CloseNow ==
    /\ InReach /\ ExitsFree
    /\ Begin("close", 1, chosen, "up", FALSE, "close")
    /\ UNCHANGED <<accountVars, whereVars, viewVars, storedVars, got, asks, sheetVars,
                   look, opened, mishaps>>

(* The exits' sheet: applied under the same lock as the rest. *)
Amend ==
    /\ InReach /\ ExitsFree
    /\ Begin("amend", 1, chosen, "up", FALSE, "amend")
    /\ UNCHANGED <<accountVars, whereVars, viewVars, storedVars, got, asks, sheetVars,
                   look, opened, mishaps>>

AskReverse ==
    /\ InReach /\ ExitsFree
    /\ reversing' = state[position].trip
    /\ UNCHANGED <<accountVars, wire, whereVars, viewVars, storedVars, got, act, asks,
                   asking, look, countVars, mishaps>>

(* The sheet names one position, reverse() takes the one there is now. *)
Moved == IF position # NoMarket /\ state[position].trip = reversing THEN {} ELSE {"sheet"}

(* reverse: the mark is forgotten; without a position there is nothing to do. *)
ConfirmReverse ==
    /\ place = "strategy" /\ reversing # 0 /\ taps < MaxTaps
    /\ reversing' = 0
    /\ mark' = NoMarket
    /\ IF position = NoMarket THEN UNCHANGED <<taps, act, wire>>
       ELSE Begin("reverse", 1, position, Opposite(state[position].side), FALSE, "close")
    /\ mishaps' = mishaps \cup Moved
    /\ UNCHANGED <<accountVars, whereVars, viewVars, chosen, got, asks, asking,
                   look, opened>>

-----------------------------------------------------------------------------
(* The rest of an act: what follows each answer *)

Resumes(v) ==
    UNCHANGED <<accountVars, whereVars, viewVars, storedVars, got, sheetVars, countVars,
                mishaps>>

(* The state is re-read; a screen that is gone does not show it. *)
Refresh(v) ==
    IF Mounted(v)
    THEN /\ asks' = [asks EXCEPT !["act"] = [NoAnswer EXCEPT !.at = "asked"]]
         /\ act' = [act EXCEPT ![v].at = "refresh"]
         /\ UNCHANGED look
    ELSE /\ act' = [act EXCEPT ![v] = NoAct]
         /\ look' = IF act[v].kind = "close" /\ act[v].trip # 0
                    THEN Looking(v, "order", act[v].trip, act[v].market) ELSE look
         /\ UNCHANGED asks

(* A reversal sends the other side a moment after the close. *)
SendOther(v, stage) ==
    /\ act' = [act EXCEPT ![v].at = "sent", ![v].stage = stage, ![v].trip = 0]
    /\ wire' = wire \cup {[kind |-> "open", market |-> act[v].market, side |-> act[v].side,
                           lit |-> FALSE, tap |-> act[v].tap, stage |-> stage]}
    /\ UNCHANGED <<asks, look>>

InReverse(v, stages) == act[v].kind = "reverse" /\ act[v].stage \in stages

AfterClose(v) ==
    /\ InReverse(v, {1}) /\ act[v].at = "done"
    /\ SendOther(v, 2)
    /\ Resumes(v)

(* A slip: any failure is tried again, not only a refusal. *)
RetryAll(v) ==
    /\ InReverse(v, {2}) /\ act[v].at \in {"cooldown", "error"}
    /\ SendOther(v, 3)
    /\ Resumes(v)

(* The cooldown is waited out once. *)
Retry(v) ==
    /\ InReverse(v, {2}) /\ act[v].at = "cooldown"
    /\ SendOther(v, 3)
    /\ Resumes(v)

Succeeded(v) ==
    /\ act[v].at \in {"done", "failed"} /\ ~InReverse(v, {1})
    /\ Refresh(v)
    /\ Resumes(v) /\ UNCHANGED wire

(* A reversal that failed re-reads the state; any other act just ends. *)
Failed(v) ==
    /\ act[v].at \in {"error", "cooldown"}
    /\ ~(InReverse(v, {2}) /\ act[v].at = "cooldown")
    /\ IF act[v].kind = "reverse" THEN Refresh(v)
       ELSE act' = [act EXCEPT ![v] = NoAct] /\ UNCHANGED <<asks, look>>
    /\ Resumes(v) /\ UNCHANGED wire

-----------------------------------------------------------------------------
(* goToResult's loop, and coming and going *)

(* The trips the loop accepts: the one its order closed, or one opened no  *)
(* earlier than the position that ended.  The newest comes first.          *)
Done(k) ==
    {j \in journal : /\ j.owner = "mine" /\ j.market = k.market
                     /\ IF k.by = "order" THEN j.trip = k.trip ELSE j.trip >= k.trip}

Newest(S) == CHOOSE j \in S : \A i \in S : i.trip <= j.trip

GoToResult(v) ==
    /\ look[v].on /\ Done(look[v]) # {}
    /\ place' = "result"
    /\ result' = Newest(Done(look[v])).trip
    /\ look' = [look EXCEPT ![v] = NoLook]
    /\ state' = Unknown /\ shown' = 0 /\ was' = 0
    /\ asking' = "none" /\ reversing' = 0
    /\ got' = [market |-> NoMarket, side |-> "none"]
    /\ asks' = [who \in DOMAIN asks |-> NoAnswer]
    /\ act' = IF act[visit].at = "refresh" THEN [act EXCEPT ![visit] = NoAct] ELSE act
    /\ mishaps' = IF busy # "none" THEN mishaps \cup {"left"} ELSE mishaps
    /\ UNCHANGED <<accountVars, wire, visit, storedVars, countVars>>

(* Not journaled yet, or not answered: asked again, then given up. *)
LookAgain(v) ==
    /\ look[v].on /\ Done(look[v]) = {}
    /\ look' = [look EXCEPT ![v] = IF look[v].tries + 1 < Attempts
                                   THEN [look[v] EXCEPT !.tries = @ + 1]
                                   ELSE NoLook]
    /\ UNCHANGED <<accountVars, wire, whereVars, viewVars, storedVars, got, act, asks,
                   sheetVars, countVars, mishaps>>

(* The way back to the lobby: the screen is unmounted, its acts are not.   *)
Leave ==
    /\ place = "strategy" /\ ~sheet
    /\ place' = "lobby"
    /\ state' = Unknown /\ shown' = 0 /\ was' = 0
    /\ got' = [market |-> NoMarket, side |-> "none"]
    /\ asks' = [who \in DOMAIN asks |-> NoAnswer]
    /\ act' = IF act[visit].at = "refresh" THEN [act EXCEPT ![visit] = NoAct] ELSE act
    /\ mishaps' = IF busy # "none" THEN mishaps \cup {"left"} ELSE mishaps
    /\ UNCHANGED <<accountVars, wire, visit, result, storedVars, sheetVars, look, countVars>>

Return ==
    /\ place # "strategy" /\ visit < MaxVisits
    /\ place' = "strategy"
    /\ visit' = visit + 1
    /\ result' = 0
    /\ UNCHANGED <<accountVars, wire, viewVars, storedVars, got, act, asks, sheetVars,
                   look, countVars, mishaps>>

-----------------------------------------------------------------------------
Handle(r) == ExecuteOpen(r) \/ ExecuteClose(r) \/ ExecuteAmend(r) \/ Refuse(r)

Others == \E m \in Markets : PlatformEnds(m) \/ OthersOpen(m)

Platform == AnswerAct \/ \E r \in wire : Handle(r)

User ==
    \/ \E side \in Keys : Tap(side)
    \/ \E m \in Markets : Choose(m)
    \/ ConfirmOpen \/ Dismiss \/ CloseNow \/ Amend \/ AskReverse \/ ConfirmReverse
    \/ Leave \/ Return

Continue(v) ==
    AfterClose(v) \/ Retry(v) \/ Succeeded(v) \/ Failed(v) \/ GoToResult(v) \/ LookAgain(v)

Phone ==
    \/ Poll \/ TakePoll \/ TakeAct \/ ReadSignal
    \/ \E v \in Visits : Continue(v)

Faults == PollFails \/ ActPollFails \/ \E v \in Visits : LoseAnswer(v)

Next == Others \/ Platform \/ User \/ Phone \/ Faults

Spec == Init /\ [][Next]_vars

-----------------------------------------------------------------------------
(* Properties *)

TypeOK ==
    /\ place \in {"strategy", "lobby", "result"}
    /\ visit \in Visits
    /\ \A m \in Markets :
          /\ venue[m].trip \in 0 .. MaxTrips
          /\ venue[m].owner \in {"none", "mine", "other", "nobody"}
          /\ venue[m].trip = 0 <=> venue[m] = NoPosition
    /\ DOMAIN state \in {{}, Markets}
    /\ chosen \in Markets
    /\ mark \in Markets \cup {NoMarket}
    /\ was \in 0 .. MaxTrips
    /\ \A v \in Visits : act[v].kind \in Sides \cup {"none", "close", "reverse", "amend"}
    /\ asking \in Sides \cup {"none"}
    /\ \A v \in Visits : look[v].tries \in 0 .. Attempts - 1
    /\ mishaps \subseteq Mishaps

(***************************************************************************)
(* One tap is one order: whatever is lost, refused, waited out or left, no *)
(* act makes the venue execute two opens.  A reversal tries the other side *)
(* twice, but only after a refusal.  (And every variable has its type: a   *)
(* search for the result gives up after its attempts.)                     *)
(***************************************************************************)
OneOpenPerTap == TypeOK /\ \A t \in DOMAIN opened : opened[t] <= 1

(***************************************************************************)
(* "A tap here would not open a second position, it would add to theirs":  *)
(* the screen's orders add to a position only when the screen was deceived,*)
(* and never in its own right.                                             *)
(***************************************************************************)
Deceived == mishaps \ {"search"} # {}
AddsOnlyByMishap == (\E m \in Markets : venue[m].size > 1) => Deceived

(***************************************************************************)
(* A position that wears "On the signal" was opened on it: the mark of the *)
(* strategy's running position is true, unless an order's fate was unknown *)
(* or was added to something else.                                         *)
(***************************************************************************)
MarkTellsTheTruth ==
    \A m \in Markets :
        venue[m].owner = "mine" /\ mark = m /\ venue[m].size = 1
            => venue[m].onSignal \/ Deceived

(***************************************************************************)
(* "Reversing is a close and an open in one; the moment in between is not  *)
(* a round trip to report": a trip that was reversed into another is never *)
(* what the result screen shows, unless there was a mishap: a search for   *)
(* an earlier end, by time, may come upon it.                              *)
(***************************************************************************)
Reversed == {j.trip : j \in {i \in journal : i.by # 0 /\ opened[i.by] = 1}}
ReversalIsNotReported ==
    place = "result" => result \notin Reversed \/ mishaps # {}
=============================================================================
