---------------------------- MODULE PhoneSettings ----------------------------
(***************************************************************************)
(* The standard position, "what every tap opens" (apps/mobile/src/trading/ *)
(* useSettings.tsx), its form (position-form.tsx), and what the strategy   *)
(* screen says of it before a tap (strategy/screen.tsx: short, fits).      *)
(*                                                                         *)
(* The position is stored on the phone and bounded by limits and a balance *)
(* the platform answers with.  They are asked for at the launch and when   *)
(* the form opens; answers may cross, and until the first one the app goes *)
(* by a fallback.  A change is clamped and saved at once, in one run.      *)
(*                                                                         *)
(* Money is in whole units of collateral and the opening fee in thousandths*)
(* of a position's value, so the arithmetic is the code's without its      *)
(* fractions: a cap is floored there as well.                              *)
(***************************************************************************)
EXTENDS Integers, FiniteSets

CONSTANTS
    Markets,        \* the markets offered
    Home,           \* DEFAULT_SYMBOL
    Worlds,         \* what the account and its limits may be
    Sizes,          \* the sizes typed into the form
    Leverages,      \* the stops of the leverage's slider
    MaxEdits,       \* bound: changes made in the form or by the offer
    MaxMoves,       \* bound: changes of the account or its limits
    MaxAsks,        \* bound: times a launch asks for the limits
    MaxLaunches     \* bound: launches of the app

World == [minSize : Nat, maxNotional : Nat, balance : Nat, maxLeverage : Nat \ {0},
          own : [Markets -> Nat], fee : Nat]

ASSUME SettingsAssumption ==
    /\ IsFiniteSet(Markets) /\ Home \in Markets
    /\ Worlds \subseteq World /\ Worlds # {}
    /\ Sizes \subseteq Nat /\ Leverages \subseteq Nat \ {0}
    /\ {MaxEdits, MaxMoves} \subseteq Nat /\ {MaxAsks, MaxLaunches} \subseteq Nat \ {0}

Least(a, b) == IF a <= b THEN a ELSE b
Most(a, b) == IF a <= b THEN b ELSE a

-----------------------------------------------------------------------------
(* The arithmetic *)

Unset == [m \in Markets |-> 0]
DEFAULT_SETTINGS == [size |-> 20, leverage |-> 2, by |-> Unset, stopOn |-> FALSE]
DEFAULT_STAKE == 100
Nothing == [size |-> 0, leverage |-> 0, by |-> Unset, stopOn |-> FALSE]

FALLBACK_BOUNDS == [minSize |-> 5, maxNotional |-> 50, balance |-> 0, maxLeverage |-> 3,
                    own |-> Unset, fee |-> 0, known |-> FALSE]

(* The market's own ceiling under the policy's; 0 when it is not known. *)
maxLeverageFor(b, m) ==
    Most(1, Least(b.maxLeverage, IF b.own[m] > 0 THEN b.own[m] ELSE b.maxLeverage))

leverageFor(s, b, m) ==
    Least(maxLeverageFor(b, m), Most(1, IF s.by[m] > 0 THEN s.by[m] ELSE s.leverage))

(* What a position needs of the balance, its margin and its opening fee,   *)
(* in thousandths at this leverage: size/lev + fee.size against balance.   *)
Needs(size, lev, fee) == size * (1000 + fee * lev)
Holds(balance, lev) == balance * 1000 * lev

(* A slip: the fee is paid from somewhere else. *)
maxSizeWithoutFee(b, leverage) ==
    LET lev == Most(1, leverage) IN
    Most(b.minSize, IF b.balance > 0 THEN Least(b.maxNotional, (b.balance * 990 * lev) \div 1000)
                    ELSE b.maxNotional)

(* N/L + f.N <= B, a hundredth of B left for the fill (FILL_ROOM).  With   *)
(* no balance the policy's cap is all there is to say.                     *)
maxSizeFor(b, leverage) ==
    LET lev == Most(1, leverage)
        backed == (b.balance * 990 * lev) \div (1000 + b.fee * lev)
    IN  Most(b.minSize, IF b.balance > 0 THEN Least(b.maxNotional, backed) ELSE b.maxNotional)

standardPosition(s, b) ==
    LET leverage == maxLeverageFor(b, Home)
    IN  [s EXCEPT !.leverage = leverage,
                  !.size = Least(maxSizeFor(b, leverage), DEFAULT_STAKE * leverage)]

(* The most leverage any market of the position has. *)
TopLeverage(s) ==
    CHOOSE l \in {s.leverage} \cup {s.by[m] : m \in Markets} :
        \A k \in {s.leverage} \cup {s.by[m] : m \in Markets} : k <= l

(* The leverages first; the size then by the most any market can back. *)
clamp(s, b) ==
    LET within == [s EXCEPT
            !.leverage = Least(maxLeverageFor(b, Home), Most(1, @)),
            !.by = [m \in Markets |->
                       IF @[m] > 0 THEN Least(maxLeverageFor(b, m), @[m]) ELSE 0]]
    IN  [within EXCEPT !.size = Least(maxSizeFor(b, TopLeverage(within)), Most(b.minSize, @))]

-----------------------------------------------------------------------------
VARIABLES
    world,          \* the account and its limits, at the platform
    stored,         \* the position the phone keeps, Nothing before the first
    loading,        \* what loadSettings read at the launch, still to be taken
    ready,          \* it has been taken
    unset,          \* nothing was stored: the first proposal is still owed
    settings,       \* the position in use
    bounds,         \* the limits as last answered, FALLBACK_BOUNDS before
    asks,           \* the answers on their way
    free,           \* t.state.account.balance: the strategy screen's own poll,
                    \* NoState before it is answered
    edits, moves, asked, launches,      \* bounds
    touched,        \* history: the user has set the position by hand
    early           \* history: by hand in a launch that had not loaded it yet

formVars == <<settings, stored>>
boundVars == <<edits, moves, asked, launches>>
vars == <<world, formVars, loading, ready, unset, bounds, asks, free, boundVars,
          touched, early>>

(* What refresh makes of an answer; without markets (the read is caught)   *)
(* there are no ceilings and no fees.                                      *)
BoundsOf(w, listed) ==
    [minSize |-> w.minSize, maxNotional |-> w.maxNotional, balance |-> w.balance,
     maxLeverage |-> w.maxLeverage, own |-> IF listed THEN w.own ELSE Unset,
     fee |-> IF listed THEN w.fee ELSE 0, known |-> TRUE]

NoState == -1

Init ==
    /\ world \in Worlds
    /\ stored = Nothing
    /\ loading = Nothing
    /\ ready = FALSE
    /\ unset = FALSE
    /\ settings = DEFAULT_SETTINGS
    /\ bounds = FALLBACK_BOUNDS
    /\ asks = {}
    /\ free = NoState
    /\ edits = 0 /\ moves = 0 /\ asked = 0 /\ launches = 1
    /\ touched = FALSE
    /\ early = FALSE

(* A round trip, a deposit or a changed limit. *)
WorldMoves ==
    /\ moves < MaxMoves
    /\ world' \in Worlds \ {world}
    /\ moves' = moves + 1
    /\ UNCHANGED <<formVars, loading, ready, unset, bounds, asks, free, edits, asked,
                   launches, touched, early>>

(* The app is closed and opened again. *)
Relaunch ==
    /\ launches < MaxLaunches
    /\ launches' = launches + 1
    /\ loading' = stored
    /\ ready' = FALSE
    /\ unset' = FALSE
    /\ settings' = DEFAULT_SETTINGS
    /\ bounds' = FALLBACK_BOUNDS
    /\ asks' = {}
    /\ asked' = 0
    /\ free' = NoState
    /\ UNCHANGED <<world, stored, edits, moves, touched, early>>

(* refresh: at the launch, and whenever a form opens. *)
Ask ==
    /\ asked < MaxAsks
    /\ asked' = asked + 1
    /\ \E listed \in BOOLEAN : asks' = asks \cup {BoundsOf(world, listed)}
    /\ UNCHANGED <<world, formVars, loading, ready, unset, bounds, free, edits, moves,
                   launches, touched, early>>

(* A slip: only the first proposal is brought inside the limits. *)
SettleOnce(s, b, owed) ==
    LET next == clamp(IF owed THEN standardPosition(s, b) ELSE s, b) IN
    /\ settings' = IF owed THEN next ELSE s
    /\ stored' = IF owed THEN next ELSE stored

(***************************************************************************)
(* The effect on [ready, bounds, unset]: the first proposal, or the old    *)
(* position inside the new limits.  It is taken over only where the size   *)
(* or the standard leverage changes.                                       *)
(***************************************************************************)
Settle(s, b, owed) ==
    LET next == clamp(IF owed THEN standardPosition(s, b) ELSE s, b)
        same == next.size = s.size /\ next.leverage = s.leverage
    IN  /\ settings' = IF same THEN s ELSE next
        /\ stored' = IF same THEN stored ELSE next

TakeBounds ==
    /\ \E b \in asks :
          /\ bounds' = b
          /\ asks' = asks \ {b}
          /\ IF ready THEN Settle(settings, b, unset) /\ unset' = FALSE
             ELSE UNCHANGED <<formVars, unset>>
    /\ UNCHANGED <<world, loading, ready, free, boundVars, touched, early>>

(* catch: the limits stay what they were, and nobody asks again. *)
AskFails ==
    /\ \E b \in asks : asks' = asks \ {b}
    /\ UNCHANGED <<world, formVars, loading, ready, unset, bounds, free, boundVars,
                   touched, early>>

(* The stored position, or the defaults; what was changed before is lost. *)
Load ==
    /\ ~ready
    /\ ready' = TRUE
    /\ LET s == IF loading = Nothing THEN DEFAULT_SETTINGS ELSE loading IN
       IF bounds.known THEN Settle(s, bounds, loading = Nothing) /\ unset' = FALSE
       ELSE settings' = s /\ unset' = (loading = Nothing) /\ UNCHANGED stored
    /\ UNCHANGED <<world, loading, bounds, asks, free, boundVars, touched, early>>

-----------------------------------------------------------------------------
(* The form *)

Change(next) ==
    /\ edits < MaxEdits
    /\ edits' = edits + 1
    /\ settings' = clamp(next, bounds)
    /\ stored' = clamp(next, bounds)
    /\ touched' = TRUE
    /\ early' = (early \/ ~ready)
    /\ UNCHANGED <<world, loading, ready, unset, bounds, asks, free, moves, asked, launches>>

(* update: a size typed, the slider or a share of the most. *)
SetSize == \E size \in Sizes : Change([settings EXCEPT !.size = size])

(* update: a rule switched on or off. *)
ToggleRule == Change([settings EXCEPT !.stopOn = ~@])

(* setLeverage: the market's own, from its slider. *)
SetLeverage(m) ==
    \E lev \in Leverages :
        Change([settings EXCEPT !.by[m] = Least(maxLeverageFor(bounds, m), lev)])

-----------------------------------------------------------------------------
(* The strategy screen *)

PollAccount ==
    /\ free' = world.balance
    /\ UNCHANGED <<world, formVars, loading, ready, unset, bounds, asks, boundVars,
                   touched, early>>

(* need > free + 0.005, both in thousandths at this leverage. *)
Short(m) ==
    LET lev == leverageFor(settings, bounds, m)
    IN  /\ free # NoState
        /\ Needs(settings.size, lev, bounds.fee) > Holds(free, lev) + 5 * lev

(* A slip: the size that fits the balance of the form. *)
FitsTheForm(m) == maxSizeFor(bounds, leverageFor(settings, bounds, m))

(* fits: the largest size the balance on the screen can back. *)
Fits(m) ==
    maxSizeFor([bounds EXCEPT !.balance = free], leverageFor(settings, bounds, m))

(* "Open up to N AUSD instead": always offered, fits is never below the    *)
(* smallest size.                                                          *)
TakeOffer(m) ==
    /\ Short(m) /\ Fits(m) >= bounds.minSize
    /\ Change([settings EXCEPT !.size = Fits(m)])

Next ==
    \/ WorldMoves \/ Relaunch \/ Ask \/ TakeBounds \/ AskFails \/ Load
    \/ SetSize \/ ToggleRule \/ PollAccount
    \/ \E m \in Markets : SetLeverage(m) \/ TakeOffer(m)

Spec == Init /\ [][Next]_vars

-----------------------------------------------------------------------------
(* Properties *)

Position == [size : Nat, leverage : Nat, by : [Markets -> Nat], stopOn : BOOLEAN]

TypeOK ==
    /\ world \in Worlds
    /\ {settings, stored, loading} \subseteq Position
    /\ settings # Nothing
    /\ {ready, unset, touched, early} \subseteq BOOLEAN
    /\ unset => ready /\ ~bounds.known
    /\ bounds = FALLBACK_BOUNDS \/ bounds \in {BoundsOf(w, l) : w \in Worlds, l \in BOOLEAN}
    /\ asks \subseteq {BoundsOf(w, l) : w \in Worlds, l \in BOOLEAN}
    /\ free \in Nat \cup {NoState}

Settled == ready /\ bounds.known

(***************************************************************************)
(* "A stored position from before they were known is brought inside them   *)
(* rather than left to be refused at the tap": whatever was stored, typed  *)
(* or answered in whatever order, a tap asks for a size that the limits as *)
(* last answered allow.                                                    *)
(***************************************************************************)
TapIsAllowed ==
    Settled =>
        /\ settings.size >= bounds.minSize
        /\ settings.size <= Most(bounds.minSize, bounds.maxNotional)

(***************************************************************************)
(* "The wallet pays the margin and the opening fee out of the same         *)
(* balance": the size is one the balance can pay for, fee included, at the *)
(* leverage of some market, unless it is the smallest there is.            *)
(***************************************************************************)
SizeIsBacked ==
    Settled /\ bounds.balance > 0 /\ settings.size > bounds.minSize =>
        \E m \in Markets \cup {Home} :
            \E lev \in {leverageFor(settings, bounds, m),
                        Least(settings.leverage, maxLeverageFor(bounds, Home))} :
                Needs(settings.size, lev, bounds.fee) <= Holds(bounds.balance, lev)

(***************************************************************************)
(* "Written on every change rather than on a Done button": what the app    *)
(* shows is what the next launch starts from, unless it was changed before *)
(* the launch had read it.                                                 *)
(***************************************************************************)
StoredIsShown ==
    ready /\ ~early => stored = settings \/ (stored = Nothing /\ ~touched)

(***************************************************************************)
(* "Offers the size that fits": once taken, the keys are live again, where *)
(* the wallet has anything to back the smallest size with.                 *)
(***************************************************************************)
OfferOpensTheKeys ==
    [][\A m \in Markets :
          TakeOffer(m) /\ Settled /\ free > 0 /\ Fits(m) > bounds.minSize => ~Short(m)']_vars
=============================================================================
