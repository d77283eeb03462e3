-------------------------- MODULE PhoneScreensProofs --------------------------
(***************************************************************************)
(* What the screens of the phone promise, for every set of boards, tiers,  *)
(* assets, resolutions, messages, prizes, markets, accounts and limits,    *)
(* and for any number of taps, visits, launches, changes and answers.      *)
(*                                                                         *)
(* A behavior is of one screen, so each is proved alone: what its first    *)
(* state grants and each of its steps keeps, it keeps beside the others.   *)
(* The settings, which have the trade screen to themselves, come first.    *)
(***************************************************************************)
EXTENDS PhoneScreens, SequenceTheorems, WellFoundedInduction, TLAPS

Bounds == [minSize : Nat, maxNotional : Nat, balance : Nat, maxLeverage : Nat \ {0},
           own : [Markets -> Nat], fee : Nat, known : BOOLEAN]

(* The invariant of the types, without the enumerations of TypeOK. *)
Typed ==
    /\ world \in World
    /\ settings \in Position
    /\ stored \in Position
    /\ loading \in Position
    /\ bounds \in Bounds
    /\ asks \subseteq Bounds
    /\ free \in Nat \cup {NoState}
    /\ {ready, unset, touched, early} \subseteq BOOLEAN

-----------------------------------------------------------------------------
(* The arithmetic *)

(* maxLeverageFor is a leverage: at least one. *)
LEMMA LeverageIsPositive ==
    ASSUME NEW b \in Bounds, NEW m \in Markets
    PROVE  maxLeverageFor(b, m) \in Nat \ {0}
BY DEF maxLeverageFor, Bounds, Least, Most

(* Integer division, rounded down. *)
LEMMA Floor ==
    ASSUME NEW n \in Nat, NEW d \in Nat \ {0}
    PROVE  /\ n \div d \in Nat
           /\ (n \div d) * d <= n
OBVIOUS

(* What maxSizeFor allows is between the smallest order and the policy's   *)
(* cap, or the smallest order alone.                                       *)
LEMMA MaxSizeIsBounded ==
    ASSUME NEW b \in Bounds, NEW l \in Nat
    PROVE  /\ maxSizeFor(b, l) \in Nat
           /\ b.minSize <= maxSizeFor(b, l)
           /\ maxSizeFor(b, l) <= Most(b.minSize, b.maxNotional)
<1> DEFINE lev == Most(1, l)
           n == b.balance * 990 * lev
           d == 1000 + b.fee * lev
<1>1. lev \in Nat \ {0} /\ b.balance \in Nat /\ b.fee \in Nat
  BY DEF Most, Bounds
<1>2. n \in Nat /\ d \in Nat \ {0}
  <2> HIDE DEF lev
  <2>1. b.fee * lev \in Nat /\ b.balance * 990 \in Nat
    BY <1>1
  <2> QED BY <1>1, <2>1
<1>3. n \div d \in Nat
  <2> HIDE DEF n, d
  <2> QED BY <1>2, Floor
<1>4. maxSizeFor(b, l) = Most(b.minSize, IF b.balance > 0 THEN Least(b.maxNotional, n \div d)
                                         ELSE b.maxNotional)
  BY DEF maxSizeFor
<1> HIDE DEF n, d
<1> QED BY <1>3, <1>4 DEF Least, Most, Bounds

(* The size maxSizeFor allows is paid for by the balance, fee included.    *)
LEMMA MaxSizeIsAffordable ==
    ASSUME NEW b \in Bounds, NEW l \in Nat \ {0}, NEW size \in Nat,
           b.balance > 0, size <= maxSizeFor(b, l), size > b.minSize
    PROVE  Needs(size, l, b.fee) <= Holds(b.balance, l)
<1> DEFINE n == b.balance * 990 * l
           d == 1000 + b.fee * l
<1>1. b.balance \in Nat /\ b.fee \in Nat /\ b.minSize \in Nat /\ b.maxNotional \in Nat
  BY DEF Bounds
<1>2. n \in Nat /\ d \in Nat \ {0}
  <2>1. b.fee * l \in Nat /\ b.balance * 990 \in Nat
    BY <1>1
  <2> QED BY <1>1, <2>1
<1>3. n \div d \in Nat /\ (n \div d) * d <= n
  <2> HIDE DEF n, d
  <2> QED BY <1>2, Floor
<1>4. Most(1, l) = l
  BY DEF Most
<1>5. maxSizeFor(b, l) = Most(b.minSize, Least(b.maxNotional, n \div d))
  BY <1>4 DEF maxSizeFor
<1>6. size <= n \div d
  <2> HIDE DEF n, d
  <2> QED BY <1>1, <1>3, <1>5 DEF Least, Most
<1>7. size * d <= (n \div d) * d
  <2> DEFINE q == n \div d
  <2>1. q \in Nat /\ size <= q
    BY <1>3, <1>6
  <2> HIDE DEF q, n, d
  <2>2. size * d <= q * d
    BY <1>2, <2>1
  <2> QED BY <2>2 DEF q
<1>8. size * d <= n
  <2> DEFINE a == size * d
             c == (n \div d) * d
  <2>1. a \in Nat /\ c \in Nat
    <3> HIDE DEF n, d
    <3> QED BY <1>2, <1>3
  <2>2. a <= c /\ c <= n
    BY <1>3, <1>7
  <2> HIDE DEF a, c, n
  <2>3. a <= n
    BY <1>2, <2>1, <2>2
  <2> QED BY <2>3 DEF a
<1>9. n <= b.balance * 1000 * l
  BY <1>1
<1>10. Needs(size, l, b.fee) = size * d /\ Holds(b.balance, l) = b.balance * 1000 * l
  BY DEF Needs, Holds
<1>11. size * d \in Nat /\ b.balance * 1000 * l \in Nat
  <2>1. b.balance * 1000 \in Nat
    BY <1>1
  <2>2. size * d \in Nat
    <3> HIDE DEF d
    <3> QED BY <1>2
  <2> QED BY <2>1, <2>2
<1> HIDE DEF n, d
<1> QED BY <1>2, <1>8, <1>9, <1>10, <1>11

(* Smaller, as a relation. *)
Smaller == {ss \in Nat \X Nat : ss[1] < ss[2]}

(* Sizes of naturals have a least one. *)
LEMMA SmallerIsWellFounded == IsWellFoundedOn(Smaller, Nat)
BY NatLessThanWellFounded DEF OpToRel, Smaller

(* A set of naturals with a bound has a largest element.                   *)
LEMMA LargestExists ==
    ASSUME NEW S \in SUBSET Nat, NEW top \in Nat, \A x \in S : x <= top, S # {}
    PROVE  \E l \in S : \A k \in S : k <= l
<1> DEFINE T == {top - x : x \in S}
<1>1. T \subseteq Nat /\ T # {}
  <2>1. \A x \in S : top - x \in Nat
    OBVIOUS
  <2>2. T \subseteq Nat
    BY <2>1, Zenon
  <2>3. T # {}
    BY Zenon
  <2> QED BY <2>2, <2>3
<1>2. PICK t \in T : \A y \in T : ~ (<<y, t>> \in Smaller)
  <2> HIDE DEF T
  <2> QED BY <1>1, SmallerIsWellFounded, WFMin
<1>3. t \in Nat
  BY <1>1, <1>2
<1>4. \A y \in T : ~ (y < t)
  BY <1>1, <1>2, <1>3 DEF Smaller
<1>5. PICK l \in S : t = top - l
  BY <1>2
<1>6. \A k \in S : k <= l
  <2> TAKE k \in S
  <2>1. top - k \in T
    OBVIOUS
  <2>2. ~ (top - k < top - l)
    BY <1>4, <1>5, <2>1
  <2> HIDE DEF T
  <2> QED BY <2>2
<1> QED BY <1>6

-----------------------------------------------------------------------------
(* clamp *)

(* clamp's first step: the leverages inside their markets' ceilings. *)
Within(s, b) ==
    [s EXCEPT !.leverage = Least(maxLeverageFor(b, Home), Most(1, @)),
              !.by = [m \in Markets |->
                         IF @[m] > 0 THEN Least(maxLeverageFor(b, m), @[m]) ELSE 0]]

(* Within leaves the size and brings every leverage under its market's. *)
LEMMA WithinType ==
    ASSUME SettingsAssumption, NEW b \in Bounds, NEW s \in Position
    PROVE  /\ Within(s, b) \in Position
           /\ Within(s, b).size = s.size
           /\ Within(s, b).leverage = Least(maxLeverageFor(b, Home), Most(1, s.leverage))
           /\ Within(s, b).leverage \in Nat \ {0}
           /\ \A m \in Markets : Within(s, b).by[m] =
                 IF s.by[m] > 0 THEN Least(maxLeverageFor(b, m), s.by[m]) ELSE 0
<1>1. \A m \in Markets : maxLeverageFor(b, m) \in Nat \ {0}
  BY LeverageIsPositive
<1>2. maxLeverageFor(b, Home) \in Nat \ {0}
  BY <1>1 DEF SettingsAssumption
<1>3. Least(maxLeverageFor(b, Home), Most(1, s.leverage)) \in Nat \ {0}
  BY <1>2 DEF Least, Most, Position
<1>4. \A m \in Markets :
         (IF s.by[m] > 0 THEN Least(maxLeverageFor(b, m), s.by[m]) ELSE 0) \in Nat
  BY <1>1 DEF Least, Position
<1> QED BY <1>3, <1>4 DEF Within, Position

(* The size is bounded at a leverage some market of the position has. *)
LEMMA TopIsOneOfThem ==
    ASSUME SettingsAssumption, NEW b \in Bounds, NEW s \in Position
    PROVE  LET w == Within(s, b) IN
           /\ TopLeverage(w) \in Nat \ {0}
           /\ \/ TopLeverage(w) = w.leverage
              \/ \E m \in Markets : s.by[m] > 0 /\ TopLeverage(w) = w.by[m]
<1> DEFINE w == Within(s, b)
           S == {w.leverage} \cup {w.by[m] : m \in Markets}
           top == Most(b.maxLeverage, 1)
<1>1. /\ w \in Position /\ w.leverage \in Nat \ {0}
      /\ w.leverage = Least(maxLeverageFor(b, Home), Most(1, s.leverage))
      /\ \A m \in Markets : w.by[m] =
            IF s.by[m] > 0 THEN Least(maxLeverageFor(b, m), s.by[m]) ELSE 0
  BY WithinType
<1>2. \A m \in Markets : maxLeverageFor(b, m) \in Nat /\ maxLeverageFor(b, m) <= top
  BY DEF maxLeverageFor, Bounds, Least, Most
<1>3. top \in Nat
  BY DEF Bounds, Most
<1>4. w.leverage <= top
  <2>1. maxLeverageFor(b, Home) \in Nat /\ maxLeverageFor(b, Home) <= top
    BY <1>2 DEF SettingsAssumption
  <2>2. s.leverage \in Nat
    BY DEF Position
  <2> HIDE DEF w, top
  <2> QED BY <1>1, <1>3, <2>1, <2>2 DEF Least, Most
<1>5. \A m \in Markets : w.by[m] <= top
  <2> TAKE m \in Markets
  <2>1. s.by[m] \in Nat /\ maxLeverageFor(b, m) \in Nat /\ maxLeverageFor(b, m) <= top
    BY <1>2 DEF Position
  <2>2. w.by[m] = IF s.by[m] > 0 THEN Least(maxLeverageFor(b, m), s.by[m]) ELSE 0
    BY <1>1
  <2> HIDE DEF w, top
  <2> QED BY <1>3, <2>1, <2>2 DEF Least
<1>6. S \in SUBSET Nat /\ S # {} /\ \A x \in S : x <= top
  <2>1. w.leverage \in Nat /\ \A m \in Markets : w.by[m] \in Nat
    BY <1>1 DEF Position
  <2> HIDE DEF w, top
  <2> QED BY <1>4, <1>5, <2>1
<1>7. \E l \in S : \A k \in S : k <= l
  <2> HIDE DEF S, top
  <2> QED BY <1>3, <1>6, LargestExists
<1>8. TopLeverage(w) \in S /\ \A k \in S : k <= TopLeverage(w)
  <2> HIDE DEF w
  <2> QED BY <1>7 DEF TopLeverage
<1>9. w.leverage <= TopLeverage(w) /\ TopLeverage(w) \in Nat
  BY <1>6, <1>8
<1>10. TopLeverage(w) \in Nat \ {0}
  <2> HIDE DEF w, S
  <2> QED BY <1>1, <1>9
<1>11. CASE TopLeverage(w) = w.leverage
  BY <1>10, <1>11
<1>12. CASE \E m \in Markets : TopLeverage(w) = w.by[m]
  <2>1. PICK m \in Markets : TopLeverage(w) = w.by[m]
    BY <1>12
  <2>2. s.by[m] > 0
    <3>1. w.by[m] = IF s.by[m] > 0 THEN Least(maxLeverageFor(b, m), s.by[m]) ELSE 0
      BY <1>1
    <3>2. w.by[m] # 0
      BY <1>10, <2>1
    <3> HIDE DEF w
    <3> QED BY <3>1, <3>2
  <2> QED BY <1>10, <2>1, <2>2
<1> QED BY <1>8, <1>11, <1>12

(* What TapIsAllowed and SizeIsBacked say, of any position and limits. *)
Allowed(s, b) ==
    /\ s.size >= b.minSize
    /\ s.size <= Most(b.minSize, b.maxNotional)

Backed(s, b) ==
    b.balance > 0 /\ s.size > b.minSize =>
        \E m \in Markets \cup {Home} :
            \E lev \in {leverageFor(s, b, m), Least(s.leverage, maxLeverageFor(b, Home))} :
                Needs(s.size, lev, b.fee) <= Holds(b.balance, lev)

(* clamp is Within, and then the size. *)
LEMMA ClampIs ==
    ASSUME SettingsAssumption, NEW b \in Bounds, NEW s \in Position
    PROVE  /\ clamp(s, b) \in Position
           /\ clamp(s, b).leverage = Within(s, b).leverage
           /\ clamp(s, b).by = Within(s, b).by
           /\ clamp(s, b).size =
                 Least(maxSizeFor(b, TopLeverage(Within(s, b))), Most(b.minSize, s.size))
<1> DEFINE w == Within(s, b)
           size == Least(maxSizeFor(b, TopLeverage(w)), Most(b.minSize, w.size))
<1>1. w \in Position /\ w.size = s.size
  BY WithinType
<1>2. TopLeverage(w) \in Nat
  BY TopIsOneOfThem
<1>3. maxSizeFor(b, TopLeverage(w)) \in Nat
  <2> HIDE DEF w
  <2> QED BY <1>2, MaxSizeIsBounded
<1>4. size \in Nat
  <2>1. b.minSize \in Nat /\ w.size \in Nat
    BY <1>1 DEF Bounds, Position
  <2> HIDE DEF w
  <2> QED BY <1>3, <2>1 DEF Least, Most
<1>5. clamp(s, b) = [w EXCEPT !.size = size]
  BY DEF clamp, Within
<1> HIDE DEF w, size
<1>6. /\ clamp(s, b) \in Position /\ clamp(s, b).size = size
      /\ clamp(s, b).leverage = w.leverage /\ clamp(s, b).by = w.by
  BY <1>1, <1>4, <1>5 DEF Position
<1> QED BY <1>1, <1>6 DEF w, size

(* What comes out of clamp, and what clamp would leave as it is but for a  *)
(* market's own leverage, is allowed and backed.                           *)
LEMMA ClampFits ==
    ASSUME SettingsAssumption, NEW b \in Bounds, NEW s \in Position, NEW t \in Position,
           t.size = clamp(s, b).size, t.leverage = clamp(s, b).leverage,
           t.by = clamp(s, b).by \/ t.by = s.by
    PROVE  Allowed(t, b) /\ Backed(t, b)
<1> DEFINE w == Within(s, b)
           l == TopLeverage(w)
           most == maxSizeFor(b, l)
<1>1. /\ w \in Position /\ w.leverage \in Nat \ {0}
      /\ w.leverage = Least(maxLeverageFor(b, Home), Most(1, s.leverage))
      /\ \A m \in Markets : w.by[m] =
            IF s.by[m] > 0 THEN Least(maxLeverageFor(b, m), s.by[m]) ELSE 0
  BY WithinType
<1>2. l \in Nat \ {0} /\ (l = w.leverage \/ \E m \in Markets : s.by[m] > 0 /\ l = w.by[m])
  BY TopIsOneOfThem
<1>3. most \in Nat /\ b.minSize <= most /\ most <= Most(b.minSize, b.maxNotional)
  <2> HIDE DEF l
  <2> QED BY <1>2, MaxSizeIsBounded
<1>4. t.size = Least(most, Most(b.minSize, s.size)) /\ t.leverage = w.leverage
  BY ClampIs
<1>5. t.by = w.by \/ t.by = s.by
  BY ClampIs
<1>6. b.minSize \in Nat /\ b.maxNotional \in Nat /\ s.size \in Nat /\ t.size \in Nat
  BY DEF Bounds, Position
<1> HIDE DEF most, l, w
<1>7. Allowed(t, b) /\ t.size <= most
  BY <1>3, <1>4, <1>6 DEF Allowed, Least, Most
<1>8. ASSUME b.balance > 0, t.size > b.minSize
      PROVE  Needs(t.size, l, b.fee) <= Holds(b.balance, l)
  BY <1>2, <1>6, <1>7, <1>8, MaxSizeIsAffordable DEF most
<1>9. \E m \in Markets \cup {Home} :
         l \in {leverageFor(t, b, m), Least(t.leverage, maxLeverageFor(b, Home))}
  <2>1. \A m \in Markets : maxLeverageFor(b, m) \in Nat \ {0}
    BY LeverageIsPositive
  <2>2. CASE l = w.leverage
    <3>1. maxLeverageFor(b, Home) \in Nat \ {0} /\ s.leverage \in Nat
      BY <2>1 DEF SettingsAssumption, Position
    <3>2. l = Least(t.leverage, maxLeverageFor(b, Home))
      BY <1>1, <1>4, <2>2, <3>1 DEF Least, Most
    <3> QED BY <3>2
  <2>3. CASE \E m \in Markets : s.by[m] > 0 /\ l = w.by[m]
    <3>1. PICK m \in Markets : s.by[m] > 0 /\ l = w.by[m]
      BY <2>3
    <3>2. l = Least(maxLeverageFor(b, m), s.by[m])
      BY <1>1, <3>1
    <3>3. t.by[m] = l \/ t.by[m] = s.by[m]
      BY <1>5, <3>1
    <3>4. s.by[m] \in Nat /\ t.by[m] \in Nat /\ maxLeverageFor(b, m) \in Nat \ {0}
      BY <2>1 DEF Position
    <3>5. l = leverageFor(t, b, m)
      BY <1>2, <3>1, <3>2, <3>3, <3>4 DEF leverageFor, Least, Most
    <3> QED BY <3>5
  <2> QED BY <1>2, <2>2, <2>3
<1>10. Backed(t, b)
  <2> SUFFICES ASSUME b.balance > 0, t.size > b.minSize
               PROVE  \E m \in Markets \cup {Home} :
                 \E lev \in {leverageFor(t, b, m), Least(t.leverage, maxLeverageFor(b, Home))} :
                    Needs(t.size, lev, b.fee) <= Holds(b.balance, lev)
    BY DEF Backed
  <2>1. Needs(t.size, l, b.fee) <= Holds(b.balance, l)
    BY <1>8
  <2> QED BY <1>9, <2>1, Zenon
<1> QED BY <1>7, <1>10

-----------------------------------------------------------------------------
(* The invariants *)

(* The standard position is a position. *)
LEMMA StandardType ==
    ASSUME SettingsAssumption, NEW b \in Bounds, NEW s \in Position
    PROVE  standardPosition(s, b) \in Position
<1>1. maxLeverageFor(b, Home) \in Nat \ {0}
  BY LeverageIsPositive DEF SettingsAssumption
<1>2. maxSizeFor(b, maxLeverageFor(b, Home)) \in Nat
  BY <1>1, MaxSizeIsBounded
<1>3. Least(maxSizeFor(b, maxLeverageFor(b, Home)),
            DEFAULT_STAKE * maxLeverageFor(b, Home)) \in Nat
  BY <1>1, <1>2 DEF Least, DEFAULT_STAKE
<1> QED BY <1>1, <1>3 DEF standardPosition, Position

(* What the effect leaves: a position of the limits, shown as it is kept,  *)
(* or the one there was.                                                   *)
LEMMA SettleFits ==
    ASSUME SettingsAssumption, NEW b \in Bounds, NEW s \in Position, stored \in Position,
           NEW owed \in BOOLEAN, Settle(s, b, owed)
    PROVE  /\ settings' \in Position /\ stored' \in Position
           /\ Allowed(settings', b) /\ Backed(settings', b)
           /\ \/ settings' = s /\ stored' = stored
              \/ settings' = stored' /\ stored' # Nothing
<1> DEFINE from == IF owed THEN standardPosition(s, b) ELSE s
           next == clamp(from, b)
<1>1. from \in Position
  BY StandardType
<1>2. next \in Position
  BY <1>1, ClampIs
<1>3. Within(from, b).leverage \in Nat \ {0} /\ next.leverage = Within(from, b).leverage
  BY <1>1, ClampIs, WithinType
<1>4. next # Nothing
  BY <1>2, <1>3 DEF Nothing
<1>5. Allowed(next, b) /\ Backed(next, b)
  BY <1>1, <1>2, ClampFits
<1>6. s.by = from.by
  BY DEF standardPosition, Position
<1>7. CASE next.size = s.size /\ next.leverage = s.leverage
  <2>1. settings' = s /\ stored' = stored
    BY <1>7 DEF Settle
  <2>2. Allowed(s, b) /\ Backed(s, b)
    BY <1>1, <1>6, <1>7, ClampFits
  <2> QED BY <2>1, <2>2
<1>8. CASE ~(next.size = s.size /\ next.leverage = s.leverage)
  <2>1. settings' = next /\ stored' = next
    BY <1>8 DEF Settle
  <2> QED BY <1>2, <1>4, <1>5, <2>1
<1> QED BY <1>7, <1>8

(* What loads is what is kept, before the user gets at it. *)
LoadsWhatIsKept ==
    /\ ~ready /\ ~early => loading = stored
    /\ touched => stored # Nothing

(* The inductive invariant. *)
IInv == Typed /\ TapIsAllowed /\ SizeIsBacked /\ StoredIsShown /\ LoadsWhatIsKept

(* The two properties of a size, in one. *)
LEMMA SizeInvariants ==
    (Settled => Allowed(settings, bounds) /\ Backed(settings, bounds))
        <=> TapIsAllowed /\ SizeIsBacked
BY DEF TapIsAllowed, SizeIsBacked, Allowed, Backed

(* The constants, typed. *)
LEMMA ConstantsTyped ==
    /\ DEFAULT_SETTINGS \in Position
    /\ Nothing \in Position
    /\ FALLBACK_BOUNDS \in Bounds
    /\ \A w \in World, listed \in BOOLEAN : BoundsOf(w, listed) \in Bounds
<1>1. Unset \in [Markets -> Nat]
  BY DEF Unset
<1> QED BY <1>1 DEF DEFAULT_SETTINGS, Nothing, FALLBACK_BOUNDS, BoundsOf, Position, Bounds, World

(* The first state has it. *)
LEMMA InitIInv == ASSUME SettingsAssumption, Init PROVE IInv
<1>1. Typed
  BY ConstantsTyped DEF Init, Typed, SettingsAssumption
<1>2. ~ready /\ loading = stored /\ ~touched
  BY DEF Init
<1> QED BY <1>1, <1>2 DEF IInv, Settled, TapIsAllowed, SizeIsBacked, StoredIsShown,
                         LoadsWhatIsKept

(* A change by hand is clamped and kept. *)
LEMMA ChangeKeepsIInv ==
    ASSUME SettingsAssumption, IInv, NEW next \in Position, Change(next)
    PROVE  IInv'
<1>1. Typed /\ bounds \in Bounds
  BY DEF IInv, Typed
<1>2. clamp(next, bounds) \in Position /\ clamp(next, bounds).leverage \in Nat \ {0}
  BY <1>1, ClampIs, WithinType
<1>3. Allowed(clamp(next, bounds), bounds) /\ Backed(clamp(next, bounds), bounds)
  BY <1>1, <1>2, ClampFits
<1>4. settings' = clamp(next, bounds) /\ stored' = settings' /\ bounds' = bounds
  BY DEF Change
<1>5. Typed'
  BY <1>1, <1>2, <1>4 DEF Change, Typed
<1>6. (Settled => Allowed(settings, bounds) /\ Backed(settings, bounds))'
  BY <1>3, <1>4 DEF Allowed, Backed
<1>7. TapIsAllowed' /\ SizeIsBacked'
  BY <1>6, SizeInvariants, PTL
<1>8. stored' # Nothing
  BY <1>2, <1>4 DEF Nothing
<1>9. StoredIsShown'
  BY <1>4 DEF StoredIsShown
<1>10. LoadsWhatIsKept'
  BY <1>8 DEF LoadsWhatIsKept, Change
<1> QED BY <1>5, <1>7, <1>9, <1>10 DEF IInv

(* The size the screen offers is a size. *)
LEMMA FitsIsASize ==
    ASSUME bounds \in Bounds, settings \in Position, free \in Nat \cup {NoState}, free # NoState,
           NEW m \in Markets
    PROVE  Fits(m) \in Nat
<1>1. [bounds EXCEPT !.balance = free] \in Bounds
  BY DEF Bounds
<1>2. leverageFor(settings, bounds, m) \in Nat
  BY LeverageIsPositive DEF leverageFor, Least, Most, Position
<1> QED BY <1>1, <1>2, MaxSizeIsBounded DEF Fits

(* Every step keeps it. *)
LEMMA NextIInv == ASSUME SettingsAssumption, IInv, [Next]_vars PROVE IInv'
<1> USE DEF formVars, boundVars
<1>1. Typed /\ LoadsWhatIsKept /\ StoredIsShown
  BY DEF IInv
<1>2. bounds \in Bounds /\ settings \in Position /\ stored \in Position
  BY <1>1 DEF Typed
<1>3. ASSUME UNCHANGED <<formVars, loading, ready, bounds, touched, early>>, Typed'
      PROVE  IInv'
  <2>1. (TapIsAllowed /\ SizeIsBacked)'
    BY <1>3 DEF IInv, TapIsAllowed, SizeIsBacked, Settled, leverageFor, maxLeverageFor, Needs, Holds
  <2> QED BY <1>1, <1>3, <2>1 DEF IInv, StoredIsShown, LoadsWhatIsKept
<1>4. CASE WorldMoves
  <2>1. Typed'
    BY <1>1, <1>4 DEF WorldMoves, Typed, SettingsAssumption
  <2> QED BY <1>3, <1>4, <2>1 DEF WorldMoves
<1>5. CASE Relaunch
  <2>1. Typed'
    BY <1>1, <1>5, ConstantsTyped DEF Relaunch, Typed
  <2>2. ~ready' /\ loading' = stored' /\ stored' = stored /\ touched' = touched
    BY <1>5 DEF Relaunch
  <2> QED BY <1>1, <2>1, <2>2 DEF IInv, Settled, TapIsAllowed, SizeIsBacked, StoredIsShown,
                                 LoadsWhatIsKept
<1>6. CASE Ask
  <2>1. Typed'
    BY <1>1, <1>6, ConstantsTyped DEF Ask, Typed
  <2> QED BY <1>3, <1>6, <2>1 DEF Ask
<1>7. CASE TakeBounds
  <2>1. PICK b \in asks :
           /\ bounds' = b
           /\ asks' = asks \ {b}
           /\ IF ready THEN Settle(settings, b, unset) /\ unset' = FALSE
              ELSE UNCHANGED <<formVars, unset>>
    BY <1>7 DEF TakeBounds
  <2>2. b \in Bounds /\ unset \in BOOLEAN
    BY <1>1 DEF Typed
  <2>3. UNCHANGED <<world, loading, ready, free, touched, early>>
    BY <1>7 DEF TakeBounds
  <2>4. CASE ready
    <3>1. /\ settings' \in Position /\ stored' \in Position
          /\ Allowed(settings', b) /\ Backed(settings', b)
          /\ \/ settings' = settings /\ stored' = stored
             \/ settings' = stored' /\ stored' # Nothing
      BY <1>2, <2>1, <2>2, <2>4, SettleFits
    <3>2. Typed'
      BY <1>1, <2>1, <2>2, <2>3, <2>4, <3>1 DEF Typed
    <3>3. (Settled => Allowed(settings, bounds) /\ Backed(settings, bounds))'
      BY <2>1, <3>1 DEF Allowed, Backed
    <3>4. TapIsAllowed' /\ SizeIsBacked'
      BY <3>3, SizeInvariants, PTL
    <3>5. StoredIsShown' /\ LoadsWhatIsKept'
      BY <1>1, <2>3, <2>4, <3>1 DEF StoredIsShown, LoadsWhatIsKept
    <3> QED BY <3>2, <3>4, <3>5 DEF IInv
  <2>5. CASE ~ready
    <3>1. UNCHANGED <<settings, stored, unset>> /\ ~ready'
      BY <2>1, <2>3, <2>5
    <3>2. Typed'
      BY <1>1, <2>1, <2>2, <2>3, <3>1 DEF Typed
    <3> QED BY <1>1, <2>3, <3>1, <3>2 DEF IInv, Settled, TapIsAllowed, SizeIsBacked,
                                         StoredIsShown, LoadsWhatIsKept
  <2> QED BY <2>4, <2>5
<1>8. CASE AskFails
  <2>1. Typed'
    BY <1>1, <1>8 DEF AskFails, Typed
  <2> QED BY <1>3, <1>8, <2>1 DEF AskFails
<1>9. CASE Load
  <2> DEFINE s == IF loading = Nothing THEN DEFAULT_SETTINGS ELSE loading
             owed == loading = Nothing
  <2>1. ~ready /\ ready' = TRUE /\ UNCHANGED <<world, loading, bounds, asks, free, touched, early>>
    BY <1>9 DEF Load
  <2>2. s \in Position
    BY <1>1, ConstantsTyped DEF Typed
  <2>3. ~early => s = stored \/ (stored = Nothing /\ ~touched)
    BY <1>1, <2>1 DEF LoadsWhatIsKept
  <2>4. CASE bounds.known
    <3>1. Settle(s, bounds, owed) /\ unset' = FALSE
      BY <1>9, <2>4 DEF Load
    <3>2. owed \in BOOLEAN
      OBVIOUS
    <3> HIDE DEF s, owed
    <3>3. /\ settings' \in Position /\ stored' \in Position
          /\ Allowed(settings', bounds) /\ Backed(settings', bounds)
          /\ \/ settings' = s /\ stored' = stored
             \/ settings' = stored' /\ stored' # Nothing
      BY <1>2, <2>2, <3>1, <3>2, SettleFits
    <3>4. Typed'
      BY <1>1, <2>1, <3>1, <3>3 DEF Typed
    <3>5. (Settled => Allowed(settings, bounds) /\ Backed(settings, bounds))'
      BY <2>1, <3>3 DEF Allowed, Backed
    <3>6. TapIsAllowed' /\ SizeIsBacked'
      BY <3>5, SizeInvariants, PTL
    <3>7. StoredIsShown' /\ LoadsWhatIsKept'
      BY <1>1, <2>1, <2>3, <3>3 DEF StoredIsShown, LoadsWhatIsKept
    <3> QED BY <3>4, <3>6, <3>7 DEF IInv
  <2>5. CASE ~bounds.known
    <3>1. settings' = s /\ stored' = stored /\ unset' = owed
      BY <1>9, <2>5 DEF Load
    <3>2. Typed'
      <4>1. unset' \in BOOLEAN
        BY <3>1
      <4> HIDE DEF s, owed
      <4> QED BY <1>1, <2>1, <2>2, <3>1, <4>1 DEF Typed
    <3>3. ~Settled'
      BY <2>1, <2>5 DEF Settled
    <3> HIDE DEF s, owed
    <3>4. StoredIsShown' /\ LoadsWhatIsKept'
      BY <1>1, <2>1, <2>3, <3>1 DEF StoredIsShown, LoadsWhatIsKept
    <3> QED BY <3>2, <3>3, <3>4 DEF IInv, TapIsAllowed, SizeIsBacked
  <2> QED BY <2>4, <2>5
<1>10. CASE SetSize
  <2>1. PICK size \in Sizes : Change([settings EXCEPT !.size = size])
    BY <1>10 DEF SetSize
  <2>2. [settings EXCEPT !.size = size] \in Position
    BY <1>2 DEF SettingsAssumption, Position
  <2> QED BY <2>1, <2>2, ChangeKeepsIInv
<1>11. CASE ToggleRule
  <2>1. [settings EXCEPT !.stopOn = ~@] \in Position
    BY <1>2 DEF Position
  <2> QED BY <1>11, <2>1, ChangeKeepsIInv DEF ToggleRule
<1>12. CASE PollAccount
  <2>1. Typed'
    BY <1>1, <1>12 DEF PollAccount, Typed, World
  <2> QED BY <1>3, <1>12, <2>1 DEF PollAccount
<1>13. ASSUME NEW m \in Markets, SetLeverage(m) PROVE IInv'
  <2>1. PICK lev \in Leverages :
           Change([settings EXCEPT !.by[m] = Least(maxLeverageFor(bounds, m), lev)])
    BY <1>13 DEF SetLeverage
  <2>2. Least(maxLeverageFor(bounds, m), lev) \in Nat
    BY <1>2, LeverageIsPositive DEF SettingsAssumption, Least
  <2>3. [settings EXCEPT !.by[m] = Least(maxLeverageFor(bounds, m), lev)] \in Position
    BY <1>2, <2>2 DEF Position
  <2> QED BY <2>1, <2>3, ChangeKeepsIInv
<1>14. ASSUME NEW m \in Markets, TakeOffer(m) PROVE IInv'
  <2>1. Change([settings EXCEPT !.size = Fits(m)]) /\ free # NoState
    BY <1>14 DEF TakeOffer, Short
  <2>2. Fits(m) \in Nat
    BY <1>1, <1>2, <2>1, FitsIsASize DEF Typed
  <2>3. [settings EXCEPT !.size = Fits(m)] \in Position
    BY <1>2, <2>2 DEF Position
  <2> QED BY <2>1, <2>3, ChangeKeepsIInv
<1>15. CASE UNCHANGED vars
  <2>1. Typed'
    BY <1>1, <1>15 DEF vars, Typed
  <2> QED BY <1>3, <1>15, <2>1 DEF vars
<1> QED BY <1>4, <1>5, <1>6, <1>7, <1>8, <1>9, <1>10, <1>11, <1>12, <1>13, <1>14, <1>15
        DEF Next

-----------------------------------------------------------------------------
(* The theorems *)

(* useSettings.tsx: from the first launch on, and whatever is changed and  *)
(* answered in between, the position in use is typed, allowed and backed,  *)
(* and what is shown, kept and loaded agree.                               *)
THEOREM IInvHolds == Spec => []IInv
<1>1. Init => IInv
  BY InitIInv, SettingsAssumption
<1>2. IInv /\ [Next]_vars => IInv'
  BY NextIInv, SettingsAssumption
<1> QED BY <1>1, <1>2, PTL DEF Spec

(* A tap asks for a size the limits as last answered allow, in whatever    *)
(* order they were answered (TapIsAllowed).                                *)
THEOREM TapsAreAllowed == Spec => []TapIsAllowed
<1>1. IInv => TapIsAllowed
  BY DEF IInv
<1> QED BY <1>1, IInvHolds, PTL

(* The size is one the balance pays for, with the fee, at the leverage of  *)
(* some market (SizeIsBacked).                                             *)
THEOREM SizesAreBacked == Spec => []SizeIsBacked
<1>1. IInv => SizeIsBacked
  BY DEF IInv
<1> QED BY <1>1, IInvHolds, PTL

(* What is shown is what the next launch starts from (StoredIsShown).      *)
THEOREM ShownIsStored == Spec => []StoredIsShown
<1>1. IInv => StoredIsShown
  BY DEF IInv
<1> QED BY <1>1, IInvHolds, PTL
-----------------------------------------------------------------------------
(* The offer of the strategy screen *)

(* A leverage that clamp has seen is one that the home market allows, and  *)
(* clamp leaves it alone from then on.                                     *)
AtHome == Settled => settings.leverage \in 1..maxLeverageFor(bounds, Home)

(* clamp keeps the standard leverage under the home market's. *)
LEMMA ClampAtHome ==
    ASSUME SettingsAssumption, NEW b \in Bounds, NEW s \in Position
    PROVE  clamp(s, b).leverage \in 1..maxLeverageFor(b, Home)
<1>1. maxLeverageFor(b, Home) \in Nat \ {0} /\ s.leverage \in Nat
  BY LeverageIsPositive DEF SettingsAssumption, Position
<1>2. clamp(s, b).leverage = Least(maxLeverageFor(b, Home), Most(1, s.leverage))
  BY ClampIs, WithinType
<1> QED BY <1>1, <1>2 DEF Least, Most

(* The effect leaves such a leverage too, also where it leaves it as it is. *)
LEMMA SettleAtHome ==
    ASSUME SettingsAssumption, NEW b \in Bounds, NEW s \in Position, NEW owed \in BOOLEAN,
           Settle(s, b, owed)
    PROVE  settings'.leverage \in 1..maxLeverageFor(b, Home)
<1> DEFINE next == clamp(IF owed THEN standardPosition(s, b) ELSE s, b)
<1>1. (IF owed THEN standardPosition(s, b) ELSE s) \in Position
  BY StandardType
<1>2. next.leverage \in 1..maxLeverageFor(b, Home)
  BY <1>1, ClampAtHome
<1>3. settings' = next \/ (settings' = s /\ next.leverage = s.leverage)
  BY DEF Settle
<1> QED BY <1>2, <1>3

(* Every step keeps what is at home. *)
LEMMA NextAtHome ==
    ASSUME SettingsAssumption, IInv, AtHome, [Next]_vars
    PROVE  AtHome'
<1> USE DEF formVars, boundVars
<1>1. /\ Typed /\ bounds \in Bounds /\ settings \in Position /\ asks \subseteq Bounds
      /\ loading \in Position /\ unset \in BOOLEAN
  BY DEF IInv, Typed
<1>2. ASSUME UNCHANGED <<settings, ready, bounds>> PROVE AtHome'
  BY <1>2 DEF AtHome, Settled, maxLeverageFor
<1>3. ASSUME NEW next \in Position, Change(next) PROVE AtHome'
  <2>1. clamp(next, bounds).leverage \in 1..maxLeverageFor(bounds, Home)
    BY <1>1, ClampAtHome
  <2>2. settings' = clamp(next, bounds) /\ bounds' = bounds
    BY <1>3 DEF Change
  <2> QED BY <2>1, <2>2 DEF AtHome
<1>4. CASE Relaunch
  BY <1>4 DEF Relaunch, AtHome, Settled
<1>5. CASE TakeBounds
  <2>1. PICK b \in asks : /\ bounds' = b
                          /\ ready => Settle(settings, b, unset)
    BY <1>5 DEF TakeBounds
  <2>2. CASE ready
    <3>1. settings'.leverage \in 1..maxLeverageFor(b, Home)
      BY <1>1, <2>1, <2>2, SettleAtHome
    <3> QED BY <2>1, <3>1 DEF AtHome
  <2>3. CASE ~ready
    BY <1>5, <2>3 DEF TakeBounds, AtHome, Settled
  <2> QED BY <2>2, <2>3
<1>6. CASE Load
  <2> DEFINE s == IF loading = Nothing THEN DEFAULT_SETTINGS ELSE loading
             owed == loading = Nothing
  <2>1. s \in Position /\ owed \in BOOLEAN /\ bounds' = bounds
    BY <1>1, <1>6, ConstantsTyped DEF Load
  <2>2. bounds.known => Settle(s, bounds, owed)
    BY <1>6 DEF Load
  <2> HIDE DEF s, owed
  <2>3. bounds.known => settings'.leverage \in 1..maxLeverageFor(bounds, Home)
    BY <1>1, <2>1, <2>2, SettleAtHome
  <2> QED BY <2>1, <2>3 DEF AtHome, Settled
<1>7. CASE SetSize
  <2>1. PICK size \in Sizes : Change([settings EXCEPT !.size = size])
    BY <1>7 DEF SetSize
  <2>2. [settings EXCEPT !.size = size] \in Position
    BY <1>1 DEF SettingsAssumption, Position
  <2> QED BY <1>3, <2>1, <2>2
<1>8. CASE ToggleRule
  <2>1. [settings EXCEPT !.stopOn = ~@] \in Position
    BY <1>1 DEF Position
  <2> QED BY <1>3, <1>8, <2>1 DEF ToggleRule
<1>9. ASSUME NEW m \in Markets, SetLeverage(m) PROVE AtHome'
  <2>1. PICK lev \in Leverages :
           Change([settings EXCEPT !.by[m] = Least(maxLeverageFor(bounds, m), lev)])
    BY <1>9 DEF SetLeverage
  <2>2. Least(maxLeverageFor(bounds, m), lev) \in Nat
    BY <1>1, LeverageIsPositive DEF SettingsAssumption, Least
  <2>3. [settings EXCEPT !.by[m] = Least(maxLeverageFor(bounds, m), lev)] \in Position
    BY <1>1, <2>2 DEF Position
  <2> QED BY <1>3, <2>1, <2>3
<1>10. ASSUME NEW m \in Markets, TakeOffer(m) PROVE AtHome'
  <2>1. Change([settings EXCEPT !.size = Fits(m)]) /\ Fits(m) \in Nat
    <3>1. free \in Nat \cup {NoState} /\ free # NoState
      BY <1>1, <1>10 DEF Typed, TakeOffer, Short
    <3> QED BY <1>1, <1>10, <3>1, FitsIsASize DEF TakeOffer
  <2>2. [settings EXCEPT !.size = Fits(m)] \in Position
    BY <1>1, <2>1 DEF Position
  <2> QED BY <1>3, <2>1, <2>2
<1>11. CASE WorldMoves \/ Ask \/ AskFails \/ PollAccount \/ UNCHANGED vars
  BY <1>2, <1>11 DEF WorldMoves, Ask, AskFails, PollAccount, vars
<1> QED BY <1>4, <1>5, <1>6, <1>7, <1>8, <1>9, <1>10, <1>11 DEF Next

(* A smaller position needs less. *)
LEMMA SmallerNeedsLess ==
    ASSUME NEW l \in Nat, NEW fee \in Nat, NEW size \in Nat, NEW most \in Nat, size <= most
    PROVE  Needs(size, l, fee) <= Needs(most, l, fee)
<1>1. PICK f \in Nat : f = 1000 + fee * l
  OBVIOUS
<1>2. PICK d \in Nat : most = size + d
  <2>1. most - size \in Nat /\ most = size + (most - size)
    OBVIOUS
  <2> QED BY <2>1
<1>3. most * f = size * f + d * f /\ d * f \in Nat /\ size * f \in Nat
  BY <1>1, <1>2
<1> QED BY <1>1, <1>3 DEF Needs

(* The market's leverage is what it was before the offer was taken: every  *)
(* leverage is already inside its ceiling, the standard one inside the     *)
(* home market's.                                                          *)
LEMMA OfferKeepsLeverage ==
    ASSUME SettingsAssumption, NEW b \in Bounds, NEW s \in Position, NEW t \in Position,
           s.leverage \in 1..maxLeverageFor(b, Home), NEW m \in Markets,
           t.leverage = s.leverage, t.by = s.by
    PROVE  leverageFor(clamp(t, b), b, m) = leverageFor(s, b, m)
<1>1. /\ maxLeverageFor(b, m) \in Nat \ {0} /\ maxLeverageFor(b, Home) \in Nat \ {0}
      /\ s.leverage \in Nat /\ s.by[m] \in Nat
  BY LeverageIsPositive DEF SettingsAssumption, Position
<1>2. clamp(t, b).leverage = s.leverage
  <2>1. clamp(t, b).leverage = Least(maxLeverageFor(b, Home), Most(1, t.leverage))
    BY ClampIs, WithinType
  <2> QED BY <1>1, <2>1 DEF Least, Most
<1>3. clamp(t, b).by[m] = IF s.by[m] > 0 THEN Least(maxLeverageFor(b, m), s.by[m]) ELSE 0
  BY ClampIs, WithinType
<1> QED BY <1>1, <1>2, <1>3 DEF leverageFor, Least, Most

(* Once taken, the offer is one the balance on the screen can back. *)
LEMMA OfferIsBacked ==
    ASSUME SettingsAssumption, IInv, AtHome, NEW m \in Markets,
           TakeOffer(m), Settled, free > 0, Fits(m) > bounds.minSize
    PROVE  ~Short(m)'
<1> DEFINE lev == leverageFor(settings, bounds, m)
           afford == [bounds EXCEPT !.balance = free]
           next == [settings EXCEPT !.size = Fits(m)]
           w == Within(next, bounds)
<1>1. /\ bounds \in Bounds /\ settings \in Position /\ free \in Nat
      /\ bounds.minSize \in Nat /\ bounds.fee \in Nat
  BY DEF IInv, Typed, NoState, Bounds, TakeOffer, Short
<1>2. lev \in Nat \ {0}
  <2>1. maxLeverageFor(bounds, m) \in Nat \ {0} /\ settings.by[m] \in Nat /\ settings.leverage \in Nat
    BY <1>1, LeverageIsPositive DEF Position
  <2> QED BY <2>1 DEF leverageFor, Least, Most
<1>3. /\ afford \in Bounds /\ afford.balance = free /\ afford.fee = bounds.fee
      /\ afford.minSize = bounds.minSize
  BY <1>1 DEF Bounds
<1>4. Fits(m) = maxSizeFor(afford, lev) /\ Fits(m) \in Nat
  BY <1>1, FitsIsASize DEF TakeOffer, Short, Fits
<1>5. next \in Position /\ next.size = Fits(m) /\ next.leverage = settings.leverage
      /\ next.by = settings.by
  BY <1>1, <1>4 DEF Position
<1>6. settings' = clamp(next, bounds) /\ UNCHANGED <<bounds, free>>
  BY DEF TakeOffer, Change
<1> HIDE DEF lev, afford, next, w
<1>7. Needs(Fits(m), lev, bounds.fee) <= Holds(free, lev)
  <2>1. Needs(Fits(m), lev, afford.fee) <= Holds(afford.balance, lev)
    BY <1>2, <1>3, <1>4, MaxSizeIsAffordable
  <2> QED BY <1>3, <2>1
<1>8. settings'.size \in Nat /\ settings'.size <= Fits(m)
  <2>1. settings'.size = Least(maxSizeFor(bounds, TopLeverage(w)), Most(bounds.minSize, Fits(m)))
    BY <1>1, <1>5, <1>6, ClampIs DEF w
  <2>2. settings' \in Position
    BY <1>1, <1>5, <1>6, ClampIs
  <2>3. TopLeverage(w) \in Nat
    BY <1>1, <1>5, TopIsOneOfThem DEF w
  <2>4. maxSizeFor(bounds, TopLeverage(w)) \in Nat
    BY <1>1, <2>3, MaxSizeIsBounded
  <2>5. settings'.size \in Nat
    BY <2>2 DEF Position
  <2> QED BY <1>1, <1>4, <2>1, <2>4, <2>5 DEF Least, Most
<1>9. Needs(settings'.size, lev, bounds.fee) <= Needs(Fits(m), lev, bounds.fee)
  BY <1>1, <1>2, <1>4, <1>8, SmallerNeedsLess
<1>10. leverageFor(settings, bounds, m)' = lev
  <2>1. leverageFor(clamp(next, bounds), bounds, m) = lev
    BY <1>1, <1>5, OfferKeepsLeverage DEF AtHome, lev
  <2> QED BY <1>6, <2>1 DEF leverageFor, maxLeverageFor
<1>11. Short(m)' => Needs(settings'.size, lev, bounds.fee) > Holds(free, lev) + 5 * lev
  BY <1>6, <1>10 DEF Short
<1>12. /\ Needs(settings'.size, lev, bounds.fee) \in Int /\ Needs(Fits(m), lev, bounds.fee) \in Int
       /\ Holds(free, lev) \in Int /\ 5 * lev \in Nat
  BY <1>1, <1>2, <1>4, <1>8 DEF Needs, Holds
<1> QED BY <1>7, <1>9, <1>11, <1>12

(* "Offers the size that fits": once it is taken the keys are live, for    *)
(* all markets, limits, fees and balances (OfferOpensTheKeys).             *)
THEOREM OffersOpenTheKeys == Spec => OfferOpensTheKeys
<1>1. Init => AtHome
  BY DEF Init, AtHome, Settled
<1>2. IInv /\ AtHome /\ [Next]_vars => AtHome'
  BY NextAtHome, SettingsAssumption
<1>3. IInv /\ AtHome /\ [Next]_vars =>
         [\A m \in Markets :
             TakeOffer(m) /\ Settled /\ free > 0 /\ Fits(m) > bounds.minSize => ~Short(m)']_vars
  BY OfferIsBacked, SettingsAssumption
<1> QED BY <1>1, <1>2, <1>3, IInvHolds, PTL DEF Spec, OfferOpensTheKeys

-----------------------------------------------------------------------------
(* The screens beside the settings *)

(* A step of a behavior is a step of its screen, or leaves it alone. *)
LEMMA AScreenSteps ==
    ASSUME [ScreensNext]_<<screen, slots, vars>>
    PROVE  /\ screen' = screen
           /\ \/ UNCHANGED slots
              \/ screen = "standings" /\ Standings!Next
              \/ screen = "history" /\ History!Next
              \/ screen = "risk" /\ Risk!Next
              \/ screen = "deposit" /\ Deposit!Next
              \/ screen = "feed" /\ Feed!Next
              \/ screen = "chart" /\ Page!Next
              \/ screen = "claims" /\ Claims!Next
BY DEF ScreensNext, Other

-----------------------------------------------------------------------------
(* The risk screen *)

(* Every step of the risk screen keeps what a draft past the safe tier shows. *)
LEMMA RiskSteps ==
    ASSUME Risk!RedOverTheDraft, Risk!PastSafeTakesTwoTaps, Risk!Next
    PROVE  Risk!RedOverTheDraft' /\ Risk!PastSafeTakesTwoTaps'
<1> USE DEF Risk!RedOverTheDraft, Risk!PastSafeTakesTwoTaps, Risk!platform, Risk!zone,
            Risk!button
<1>1. Safe \notin Past
  BY ScreensAssumption DEF Risk!RiskAssumption
<1>2. CASE Risk!TapApply
  <2>1. v5 # NONE /\ Risk!tier = v5 /\ Risk!apply(v5)
    BY <1>2 DEF Risk!TapApply, Risk!dirty, Risk!tier
  <2>2. CASE ~v6 /\ v5 \in Past
    BY <2>1, <2>2 DEF Risk!apply, Risk!danger, Risk!Ask
  <2>3. CASE ~(~v6 /\ v5 \in Past)
    BY <2>1, <2>3 DEF Risk!apply, Risk!danger, Risk!Apply
  <2> QED BY <2>2, <2>3
<1>3. CASE Risk!TapBackToSafe
  BY <1>1, <1>3 DEF Risk!TapBackToSafe, Risk!apply, Risk!danger, Risk!Apply
<1>4. CASE Risk!Polled \/ \E answer \in v3 : Risk!TakeReport(answer)
  BY <1>4 DEF Risk!Polled, Risk!TakeReport
<1>5. CASE \E t \in Tiers : Risk!Move(t)
  BY <1>5 DEF Risk!Move, Risk!set
<1>6. CASE Risk!Lapse
  BY <1>6 DEF Risk!Lapse
<1>7. ASSUME NEW act \in v9,
             Risk!Takes(act) \/ Risk!ApplyFails(act) \/ Risk!Applied(act) \/ Risk!Refreshed(act)
      PROVE  Risk!RedOverTheDraft' /\ Risk!PastSafeTakesTwoTaps'
  BY <1>7 DEF Risk!Takes, Risk!ApplyFails, Risk!Applied, Risk!Refreshed
<1>8. CASE Risk!PressOnce \/ Risk!PressAgain \/ Risk!Second
  BY <1>8 DEF Risk!PressOnce, Risk!PressAgain, Risk!Second
<1>9. CASE Risk!ClosesAll
  BY <1>9 DEF Risk!ClosesAll
<1>10. CASE Risk!ShowClosed \/ Risk!CloseAllFails \/ Risk!Trade \/ Risk!Leave
  BY <1>10 DEF Risk!ShowClosed, Risk!CloseAllFails, Risk!Trade, Risk!Leave
<1> QED BY <1>2, <1>3, <1>4, <1>5, <1>6, <1>7, <1>8, <1>9, <1>10 DEF Risk!Next

(* risk.tsx, DangerZone: for all tiers and however the moves of the sliders *)
(* and the timers cross, a tier past the safe one is sent only from a red   *)
(* button that was shown over it.                                           *)
THEOREM PastSafeWasWarnedOf == ScreensSpec => []PastSafeTakesTwoTaps
<1> DEFINE Kept == screen = "risk" => Risk!RedOverTheDraft /\ Risk!PastSafeTakesTwoTaps
<1>1. ScreensInit => Kept
  BY ScreensAssumption DEF ScreensInit, From1, From8, From9, From12, Risk!Init,
     Risk!RedOverTheDraft, Risk!PastSafeTakesTwoTaps, Risk!RiskAssumption
<1>2. Kept /\ [ScreensNext]_<<screen, slots, vars>> => Kept'
  <2> SUFFICES ASSUME Kept, [ScreensNext]_<<screen, slots, vars>>, screen' = "risk"
               PROVE  Risk!RedOverTheDraft' /\ Risk!PastSafeTakesTwoTaps'
    OBVIOUS
  <2>1. CASE Risk!Next
    BY <2>1, AScreenSteps, RiskSteps
  <2>2. CASE UNCHANGED slots
    BY <2>2, AScreenSteps DEF slots, Risk!RedOverTheDraft, Risk!PastSafeTakesTwoTaps
  <2> QED BY <2>1, <2>2, AScreenSteps
<1>3. Kept => PastSafeTakesTwoTaps
  BY DEF PastSafeTakesTwoTaps
<1> QED BY <1>1, <1>2, <1>3, PTL DEF ScreensSpec

-----------------------------------------------------------------------------
(* The deposit screen *)

(* The asset of a quote is on the chain shown. *)
LEMMA AssetOnItsChain ==
    ASSUME v2 \in Deposit!Chains
    PROVE  Deposit!asset.chain = v2
BY ScreensAssumption DEF Deposit!DepositAssumption, Deposit!asset

(* A quote is asked for; the one on the screen stays until it is answered. *)
LEMMA GetQuoteFollows ==
    ASSUME Deposit!Following, Deposit!getQuote PROVE Deposit!Following'
<1> USE DEF Deposit!Following, Deposit!OnItsChain, Deposit!OfTheDeposit
<1> SUFFICES ASSUME Deposit!getQuote PROVE Deposit!Following'
  OBVIOUS
<1>1. /\ v1 = "read" /\ v6 = NONE /\ v11 < MaxQuotes /\ v11' = v11 + 1
      /\ v6' = [address |-> v11 + 1, asset |-> Deposit!asset, amount |-> Deposit!toUnits(v4)]
      /\ v9' = NONE /\ UNCHANGED <<v1, v2, v7, v8, v10, v13>>
  BY DEF Deposit!getQuote, Deposit!busy, Deposit!chips
<1>2. Deposit!asset.chain = v2
  BY <1>1, AssetOnItsChain
<1>3. MaxQuotes \in Nat
  BY ScreensAssumption DEF Deposit!DepositAssumption
<1>4. v6'.address = v11 + 1 /\ v6'.asset.chain = v2
  BY <1>1, <1>2
<1>5. Deposit!OnItsChain(v6)'
  BY <1>1, <1>3, <1>4
<1>6. ASSUME v7 # NONE PROVE Deposit!OnItsChain(v7)'
  BY <1>1, <1>3, <1>6
<1>7. \A r \in v8' : v7' # NONE /\ r.of = v7'.address /\ Deposit!OfTheDeposit(r)'
  BY <1>1
<1> QED BY <1>1, <1>3, <1>5, <1>6, <1>7

(* A chain is picked, with or without a quote on its way. *)
LEMMA PickFollows ==
    ASSUME Deposit!Following, NEW c \in Deposit!Chains, Deposit!pickChain(c)
    PROVE  Deposit!Following'
BY DEF Deposit!Following, Deposit!OnItsChain, Deposit!OfTheDeposit, Deposit!pickChain,
   Deposit!Withdraw, Deposit!busy

(* A quote is answered, fails, or is of an amount that cannot be sent. *)
LEMMA QuotedFollows ==
    ASSUME Deposit!Following, Deposit!Quoted \/ Deposit!QuoteFails \/ Deposit!CannotSend
    PROVE  Deposit!Following'
BY DEF Deposit!Following, Deposit!OnItsChain, Deposit!OfTheDeposit, Deposit!Quoted,
   Deposit!QuoteFails, Deposit!CannotSend, Deposit!busy, Deposit!chips, Deposit!history

(* A status is read of the address shown, and taken. *)
LEMMA StatusFollows ==
    ASSUME Deposit!Following,
           Deposit!Answered \/ \E answer \in v8 : Deposit!TakeStatus(answer)
    PROVE  Deposit!Following'
<1>1. MaxQuotes \in Nat
  BY ScreensAssumption DEF Deposit!DepositAssumption
<1>2. CASE Deposit!Answered
  BY <1>1, <1>2 DEF Deposit!Following, Deposit!OnItsChain, Deposit!OfTheDeposit,
     Deposit!Answered, Deposit!chips, Deposit!history
<1>3. ASSUME NEW answer \in v8, Deposit!TakeStatus(answer) PROVE Deposit!Following'
  BY <1>3 DEF Deposit!Following, Deposit!OnItsChain, Deposit!OfTheDeposit,
     Deposit!TakeStatus, Deposit!chips, Deposit!busy
<1> QED BY <1>2, <1>3

(* The deposit goes on out in the world. *)
LEMMA ProgressFollows ==
    ASSUME Deposit!Following, NEW address \in 1..MaxQuotes, Deposit!Progress(address)
    PROVE  Deposit!Following'
<1>1. /\ v10' \in [1..MaxQuotes -> Nat]
      /\ \A n \in 1..MaxQuotes : v10[n] \in Nat /\ v10'[n] \in Nat /\ v10[n] <= v10'[n]
      /\ UNCHANGED <<v1, v2, v6, v7, v8, v9, v11, v13, v14>>
  BY DEF Deposit!Following, Deposit!Progress, Deposit!chips, Deposit!history
<1> QED BY <1>1 DEF Deposit!Following, Deposit!OnItsChain, Deposit!OfTheDeposit

(* Every step of the deposit screen keeps its quote on a chain that was asked for. *)
LEMMA DepositSteps ==
    ASSUME Deposit!Following, Deposit!Next PROVE Deposit!Following'
<1>1. CASE Deposit!Offered \/ Deposit!NotOffered \/ Deposit!Unlock
  BY <1>1, ScreensAssumption DEF Deposit!DepositAssumption, Deposit!Chains, Deposit!Following,
     Deposit!OnItsChain, Deposit!OfTheDeposit, Deposit!Offered, Deposit!NotOffered,
     Deposit!Unlock, Deposit!chips, Deposit!history
<1>2. ASSUME NEW a, Deposit!pickAsset(a) \/ Deposit!Type(a) PROVE Deposit!Following'
  BY <1>2 DEF Deposit!Following, Deposit!OnItsChain, Deposit!OfTheDeposit, Deposit!pickAsset,
     Deposit!Type, Deposit!history
<1> QED BY <1>1, <1>2, GetQuoteFollows, PickFollows, QuotedFollows, StatusFollows,
        ProgressFollows DEF Deposit!Next

(* deposit.tsx: for all chains, assets and amounts, and with however many   *)
(* quotes, the address shown is on the chain named above it, unless that    *)
(* was picked while the quote was asked for, and the status under it is its *)
(* own and not ahead of the deposit.                                        *)
THEOREM AddressFitsTheChain == ScreensSpec => []AddressIsOnTheChainShown
<1> DEFINE Kept == screen = "deposit" => Deposit!Following
<1>1. ScreensInit => Kept
  BY ScreensAssumption DEF ScreensInit, From1, From8, From9, From12, Deposit!Init,
     Deposit!Following, Deposit!DepositAssumption
<1>2. Kept /\ [ScreensNext]_<<screen, slots, vars>> => Kept'
  <2> SUFFICES ASSUME Kept, [ScreensNext]_<<screen, slots, vars>>, screen' = "deposit"
               PROVE  Deposit!Following'
    OBVIOUS
  <2>1. CASE Deposit!Next
    BY <2>1, AScreenSteps, DepositSteps
  <2>2. CASE UNCHANGED slots
    BY <2>2, AScreenSteps DEF slots, Deposit!Following, Deposit!OnItsChain,
       Deposit!OfTheDeposit
  <2> QED BY <2>1, <2>2, AScreenSteps
<1>3. Kept => AddressIsOnTheChainShown
  BY DEF AddressIsOnTheChainShown, Deposit!AddressIsOnTheChainShown, Deposit!Following,
     Deposit!OnItsChain, Deposit!OfTheDeposit
<1> QED BY <1>1, <1>2, <1>3, PTL DEF ScreensSpec

-----------------------------------------------------------------------------
(* The claims *)

(* A claim that goes on to another state keeps what is under way. *)
LEMMA ClaimMoves ==
    ASSUME Claims!Honest, Claims!InYourWalletIsTrue,
           NEW claim \in v9, NEW to \in Claims!Claim, Claims!Step(claim, to),
           to.mount = claim.mount, v1 \subseteq v1', Claims!DoneIsPaid(to)',
           UNCHANGED <<v4, v7, v8, v10, v11>>
    PROVE  Claims!Honest' /\ Claims!InYourWalletIsTrue'
<1>1. v9' = (v9 \ {claim}) \cup {to}
  BY DEF Claims!Step
<1>2. \A c \in v9 : Claims!DoneIsPaid(c)'
  BY DEF Claims!Honest, Claims!DoneIsPaid
<1>3. Claims!Honest'
  BY <1>1, <1>2 DEF Claims!Honest
<1>4. v8 => \E c \in v9' : Claims!Here(c)'
  BY <1>1 DEF Claims!InYourWalletIsTrue, Claims!Here
<1> QED BY <1>3, <1>4 DEF Claims!InYourWalletIsTrue

(* One that ends takes the button's word with it. *)
LEMMA ClaimEnds ==
    ASSUME Claims!Honest, Claims!InYourWalletIsTrue,
           NEW claim \in v9, NEW words, Claims!Ends(claim, words), v1 \subseteq v1',
           UNCHANGED <<v4, v11>>,
           v7' = "inYourWallet" => v10' # {} /\ v10' \subseteq v1'
    PROVE  Claims!Honest' /\ Claims!InYourWalletIsTrue'
<1>1. v9' = v9 \ {claim} /\ v8' = (v8 /\ ~Claims!Here(claim))
  BY DEF Claims!Ends
<1>2. \A c \in v9 : Claims!DoneIsPaid(c)'
  BY DEF Claims!Honest, Claims!DoneIsPaid
<1>3. Claims!Honest'
  BY <1>1, <1>2 DEF Claims!Honest
<1>4. v8' => \E c \in v9' : Claims!Here(c)'
  BY <1>1 DEF Claims!InYourWalletIsTrue, Claims!Here
<1> QED BY <1>3, <1>4 DEF Claims!InYourWalletIsTrue

(* A claim goes its way: sent, mined, confirmed, failed, done. *)
LEMMA ClaimSteps ==
    ASSUME Claims!Honest, Claims!InYourWalletIsTrue, NEW claim \in v9,
           \/ Claims!Sent(claim) \/ Claims!Mined(claim) \/ Claims!Confirmed(claim)
           \/ Claims!ClaimFails(claim) \/ Claims!Done(claim)
    PROVE  Claims!Honest' /\ Claims!InYourWalletIsTrue'
<1>1. claim \in Claims!Claim /\ Claims!DoneIsPaid(claim)
  BY DEF Claims!Honest
<1>2. CASE Claims!Sent(claim)
  <2> DEFINE to == [claim EXCEPT !.at = "pending"]
  <2>1. to \in Claims!Claim /\ to.mount = claim.mount /\ Claims!DoneIsPaid(to)'
    BY <1>1, <1>2 DEF Claims!Claim, Claims!DoneIsPaid, Claims!Sent
  <2> QED BY <1>2, <2>1, ClaimMoves DEF Claims!Sent
<1>3. CASE Claims!Mined(claim)
  <2> DEFINE first == Claims!Foremost(claim.todo)
             Ok == [claim EXCEPT !.at = "success"]
             Bad == [claim EXCEPT !.at = "reverted"]
  <2>1. UNCHANGED <<v4, v7, v8, v10, v11>>
    BY <1>3 DEF Claims!Mined
  <2>2. CASE v1' = v1 \cup {first} /\ Claims!Step(claim, Ok)
    <3>1. Ok \in Claims!Claim /\ Ok.mount = claim.mount /\ Claims!DoneIsPaid(Ok)'
      BY <1>1, <2>2 DEF Claims!Claim, Claims!DoneIsPaid
    <3> QED BY <2>1, <2>2, <3>1, ClaimMoves
  <2>3. CASE v1' = v1 /\ Claims!Step(claim, Bad)
    <3>1. Bad \in Claims!Claim /\ Bad.mount = claim.mount /\ Claims!DoneIsPaid(Bad)'
      BY <1>1, <2>3 DEF Claims!Claim, Claims!DoneIsPaid
    <3> QED BY <2>1, <2>3, <3>1, ClaimMoves
  <2> QED BY <1>3, <2>2, <2>3 DEF Claims!Mined
<1>4. CASE Claims!Confirmed(claim)
  <2> DEFINE first == Claims!Foremost(claim.todo)
             to == [claim EXCEPT !.at = "ready", !.todo = @ \ {first}]
  <2>1. first \in v1 /\ v1' = v1
    BY <1>1, <1>4 DEF Claims!Confirmed, Claims!Counts, Claims!DoneIsPaid
  <2>2. /\ to \in Claims!Claim /\ to.mount = claim.mount /\ to.of = claim.of
        /\ to.todo = claim.todo \ {first} /\ to.at = "ready"
    BY <1>1 DEF Claims!Claim
  <2>3. Claims!DoneIsPaid(to)'
    BY <1>1, <2>1, <2>2 DEF Claims!DoneIsPaid
  <2>4. Claims!Step(claim, to) /\ UNCHANGED <<v4, v7, v8, v10, v11>>
    BY <1>4 DEF Claims!Confirmed
  <2> QED BY <2>1, <2>2, <2>3, <2>4, ClaimMoves
<1>5. CASE Claims!ClaimFails(claim)
  <2>1. v1 \subseteq v1' /\ UNCHANGED <<v4, v10, v11>> /\ Claims!Ends(claim, "error")
    BY <1>5 DEF Claims!ClaimFails
  <2>2. v7' = "inYourWallet" => v7 = "inYourWallet"
    BY <2>1 DEF Claims!Ends
  <2> QED BY <2>1, <2>2, ClaimEnds DEF Claims!InYourWalletIsTrue
<1>6. CASE Claims!Done(claim)
  <2>1. /\ v1' = v1 /\ UNCHANGED <<v4, v11>> /\ Claims!Ends(claim, "inYourWallet")
        /\ claim.of # {} /\ claim.of \subseteq v1
    BY <1>1, <1>6 DEF Claims!Done, Claims!DoneIsPaid
  <2>2. v7' = "inYourWallet" => v10' # {} /\ v10' \subseteq v1'
    BY <1>6, <2>1 DEF Claims!Done, Claims!Ends, Claims!InYourWalletIsTrue
  <2> QED BY <2>1, <2>2, ClaimEnds
<1> QED BY <1>2, <1>3, <1>4, <1>5, <1>6

(* The banner's button is pressed. *)
LEMMA PressSteps ==
    ASSUME Claims!Honest, Claims!InYourWalletIsTrue, Claims!Press
    PROVE  Claims!Honest' /\ Claims!InYourWalletIsTrue'
<1>1. Claims!Unclaimed(v6) \in SUBSET Prizes /\ Claims!Unclaimed(v6) # {}
  BY DEF Claims!Unclaimed, Claims!Press, Claims!Banner
<1>2. PICK new : new = [press |-> v11, mount |-> v4, todo |-> Claims!Unclaimed(v6),
                        of |-> Claims!Unclaimed(v6), at |-> "ready"]
  OBVIOUS
<1>3. /\ v9' = v9 \cup {new} /\ v11' = v11 + 1 /\ v7' = NONE
      /\ UNCHANGED <<v1, v4, v10>>
  BY <1>2 DEF Claims!Press
<1>4. /\ new \in Claims!Claim /\ new.mount = v4 /\ new.at = "ready"
      /\ new.of = Claims!Unclaimed(v6) /\ new.todo = new.of
  BY <1>1, <1>2 DEF Claims!Claim, Claims!Honest
<1>5. Claims!DoneIsPaid(new)' /\ Claims!Here(new)'
  BY <1>1, <1>3, <1>4 DEF Claims!DoneIsPaid, Claims!Here
<1>6. Claims!Honest'
  BY <1>3, <1>4, <1>5 DEF Claims!Honest, Claims!DoneIsPaid
<1>7. NONE # "inYourWallet"
  BY ScreensAssumption DEF Claims!ClaimsAssumption
<1> QED BY <1>3, <1>5, <1>6, <1>7 DEF Claims!InYourWalletIsTrue

(* Every step of the banner keeps it honest. *)
LEMMA ClaimsSteps ==
    ASSUME Claims!Honest, Claims!InYourWalletIsTrue, Claims!Next
    PROVE  Claims!Honest' /\ Claims!InYourWalletIsTrue'
<1> USE DEF Claims!Honest, Claims!InYourWalletIsTrue, Claims!DoneIsPaid, Claims!Here
<1>1. NONE # "inYourWallet"
  BY ScreensAssumption DEF Claims!ClaimsAssumption
<1>2. ASSUME NEW said, Claims!TakeList(said)
      PROVE  Claims!Honest' /\ Claims!InYourWalletIsTrue'
  BY <1>1, <1>2 DEF Claims!TakeList, Claims!BannerGoes
<1>3. CASE Claims!ListFails \/ Claims!Leave
  BY <1>1, <1>3 DEF Claims!ListFails, Claims!Leave, Claims!BannerGoes
<1>4. CASE Claims!Return
  BY <1>4 DEF Claims!Return
<1> QED BY <1>2, <1>3, <1>4, ClaimSteps, PressSteps DEF Claims!Next

(* leaderboard.tsx, ClaimBanner: for all prizes and any number of visits    *)
(* and claims, "In your wallet." is said only of prizes that were paid, and *)
(* a button that says "Claiming..." has a claim under way.                  *)
THEOREM TheWalletHasThem == ScreensSpec => []InYourWalletIsTrue
<1> DEFINE Kept == screen = "claims" => Claims!Honest /\ Claims!InYourWalletIsTrue
<1>1. ScreensInit => Kept
  BY ScreensAssumption DEF ScreensInit, From1, From8, From9, From12, Claims!Init,
     Claims!Honest, Claims!InYourWalletIsTrue, Claims!ClaimsAssumption
<1>2. Kept /\ [ScreensNext]_<<screen, slots, vars>> => Kept'
  <2> SUFFICES ASSUME Kept, [ScreensNext]_<<screen, slots, vars>>, screen' = "claims"
               PROVE  Claims!Honest' /\ Claims!InYourWalletIsTrue'
    OBVIOUS
  <2>1. CASE Claims!Next
    BY <2>1, AScreenSteps, ClaimsSteps
  <2>2. CASE UNCHANGED slots
    BY <2>2, AScreenSteps DEF slots, Claims!Honest, Claims!InYourWalletIsTrue,
       Claims!DoneIsPaid, Claims!Here
  <2> QED BY <2>1, <2>2, AScreenSteps
<1>3. Kept => InYourWalletIsTrue
  BY DEF InYourWalletIsTrue
<1> QED BY <1>1, <1>2, <1>3, PTL DEF ScreensSpec

-----------------------------------------------------------------------------
(* The messages to the chart's page *)

(* What is sent in a message can be. *)
LEMMA EverythingIsSent ==
    ASSUME Page!Typed
    PROVE  /\ Page!Everything \in Seq(Page!Message)
           /\ Len(Page!Everything) = Len(Effects)
           /\ \A k \in 1..Len(Effects) :
                 Page!Everything[k] = [what |-> Effects[k], value |-> v2[Effects[k]]]
<1>1. Effects \in Seq(STRING)
  BY ScreensAssumption DEF Page!ChartPageAssumption
<1>2. Len(Effects) \in Nat /\ \A k \in 1..Len(Effects) : Effects[k] \in Page!Given
  BY <1>1 DEF Page!Given
<1>3. \A k \in 1..Len(Effects) :
         [what |-> Effects[k], value |-> v2[Effects[k]]] \in Page!Message
  BY <1>2 DEF Page!Typed, Page!Message
<1> QED BY <1>2, <1>3 DEF Page!Everything

(* Whatever was on the wire, one more message has the last word on what it *)
(* is about, and none on the rest.                                         *)
LEMMA OneMoreWord ==
    ASSUME NEW h, NEW w \in Seq(Page!Message), NEW m \in Page!Message, NEW g, NEW v,
           IF g = m.what THEN v = m.value ELSE Page!LastWord(h, w, g, v)
    PROVE  Page!LastWord(h, w \o <<m>>, g, v)
<1> DEFINE s == w \o <<m>>
<1>1. /\ Len(w) \in Nat /\ Len(s) = Len(w) + 1 /\ s[Len(w) + 1] = m
      /\ \A k \in 1..Len(w) : s[k] = w[k]
  OBVIOUS
<1> HIDE DEF s
<1>2. CASE g = m.what
  <2>1. m = [what |-> g, value |-> v]
    BY <1>2 DEF Page!Message
  <2>2. Len(w) + 1 \in 1..Len(s) /\ \A j \in 1..Len(s) : j > Len(w) + 1 => s[j].what # g
    BY <1>1
  <2> QED BY <1>1, <2>1, <2>2 DEF Page!LastWord, s
<1>3. CASE g # m.what
  <2>1. CASE h[g] = v /\ \A k \in 1..Len(w) : w[k].what # g
    <3>1. \A k \in 1..Len(s) : s[k].what # g
      BY <1>1, <1>3, <2>1
    <3> QED BY <2>1, <3>1 DEF Page!LastWord, s
  <2>2. ASSUME NEW k \in 1..Len(w), w[k] = [what |-> g, value |-> v],
               \A j \in 1..Len(w) : j > k => w[j].what # g
        PROVE  Page!LastWord(h, s, g, v)
    <3>1. k \in 1..Len(s) /\ s[k] = [what |-> g, value |-> v]
      BY <1>1, <2>2
    <3>2. \A j \in 1..Len(s) : j > k => s[j].what # g
      BY <1>1, <1>3, <2>2
    <3> QED BY <3>1, <3>2 DEF Page!LastWord
  <2> QED BY <1>3, <2>1, <2>2 DEF Page!LastWord, s
<1> QED BY <1>2, <1>3

(* The page told everything will show it. *)
LEMMA EverythingIsTheLastWord ==
    ASSUME Page!Typed, NEW h, NEW g \in Page!Given
    PROVE  Page!LastWord(h, v7 \o Page!Everything, g, v2[g])
<1> DEFINE e == Page!Everything
           s == v7 \o e
<1>1. v7 \in Seq(Page!Message) /\ Len(v7) \in Nat
  BY DEF Page!Typed
<1>2. e \in Seq(Page!Message) /\ Len(e) = Len(Effects) /\ Len(Effects) \in Nat
  BY EverythingIsSent
<1>3. /\ Len(s) = Len(v7) + Len(Effects)
      /\ \A k \in 1..Len(Effects) : s[Len(v7) + k] = e[k]
  BY <1>1, <1>2
<1> HIDE DEF s, e
<1>4. \A k \in 1..Len(Effects) :
         s[Len(v7) + k] = [what |-> Effects[k], value |-> v2[Effects[k]]]
  BY <1>3, EverythingIsSent DEF e
<1> DEFINE About == {n \in 1..Len(Effects) : Effects[n] = g}
<1>5. About # {} /\ About \in SUBSET Nat /\ \A n \in About : n <= Len(Effects)
  BY <1>2 DEF Page!Given
<1>6. PICK k \in About : \A j \in About : j <= k
  <2> HIDE DEF About
  <2> QED BY <1>2, <1>5, LargestExists
<1>7. k \in 1..Len(Effects) /\ Effects[k] = g /\ Len(v7) + k \in 1..Len(s)
  BY <1>1, <1>2, <1>3, <1>6
<1>8. ASSUME NEW j \in 1..Len(s), j > Len(v7) + k PROVE s[j].what # g
  <2>1. PICK n \in 1..Len(Effects) : j = Len(v7) + n /\ n > k
    <3>1. j - Len(v7) \in 1..Len(Effects) /\ j - Len(v7) > k
      BY <1>1, <1>2, <1>3, <1>7, <1>8
    <3> QED BY <3>1, <1>1
  <2>2. Effects[n] # g
    BY <1>2, <1>6, <2>1
  <2>3. s[j] = [what |-> Effects[n], value |-> v2[Effects[n]]]
    BY <1>4, <2>1
  <2> QED BY <2>2, <2>3
<1> QED BY <1>4, <1>7, <1>8 DEF Page!LastWord, s, e

(* The component is given another value. *)
LEMMA GiveTells ==
    ASSUME Page!Typed, Page!Telling, NEW g \in Page!Given, NEW v \in Values, Page!Give(g, v)
    PROVE  Page!Typed' /\ Page!Telling'
<1>1. /\ v2' \in [Page!Given -> Values] /\ v2'[g] = v
      /\ \A x \in Page!Given : x # g => v2'[x] = v2[x]
      /\ UNCHANGED <<v1, v3, v4, v5, v6, v8, v9, v11>>
  BY DEF Page!Typed, Page!Give
<1>2. PICK m : m = [what |-> g, value |-> v]
  OBVIOUS
<1>3. m \in Page!Message /\ m.what = g /\ m.value = v
  BY <1>2 DEF Page!Message
<1>4. CASE (~v1 \/ v9) /\ v4 # "loading"
  <2>1. v7' = v7 \o <<m>> /\ v7 \in Seq(Page!Message)
    BY <1>2, <1>4 DEF Page!Give, Page!Send, Page!Typed
  <2>2. v7' \in Seq(Page!Message)
    BY <1>3, <2>1
  <2>3. ASSUME Page!WillShow PROVE Page!WillShow'
    <3> SUFFICES ASSUME NEW x \in Page!Given PROVE Page!LastWord(v6, v7', x, v2'[x])
      BY <1>1 DEF Page!WillShow
    <3>1. IF x = m.what THEN v2'[x] = m.value ELSE Page!LastWord(v6, v7, x, v2'[x])
      BY <1>1, <1>3, <2>3 DEF Page!WillShow
    <3> QED BY <1>3, <2>1, <3>1, OneMoreWord
  <2> QED BY <1>1, <2>2, <2>3 DEF Page!Typed, Page!Telling
<1>5. CASE ~((~v1 \/ v9) /\ v4 # "loading")
  <2>1. v7' = v7
    BY <1>5 DEF Page!Give, Page!Send
  <2>2. ~v5 /\ (v1 /\ ~v11 => ~v9)
    BY <1>5 DEF Page!Telling, Page!Typed
  <2> QED BY <1>1, <2>1, <2>2 DEF Page!Typed, Page!Telling
<1> QED BY <1>4, <1>5

(* Another address: the page begins with its defaults again. *)
LEMMA NavigateTells ==
    ASSUME Page!Typed, Page!Telling, NEW a \in Addresses, Page!Navigate(a)
    PROVE  Page!Typed' /\ Page!Telling'
<1>1. Page!Blank \in [Page!Given -> Values]
  BY ScreensAssumption DEF Page!ChartPageAssumption, Page!Blank
<1>2. /\ v4' = "loading" /\ v5' = FALSE /\ v6' = Page!Blank /\ v7' = <<>> /\ v11' = TRUE
      /\ UNCHANGED <<v1, v2, v8, v9>>
  BY DEF Page!Navigate
<1>3. <<>> \in Seq(Page!Message)
  OBVIOUS
<1>4. v7' \in Seq(Page!Message) /\ v6' \in [Page!Given -> Values]
  BY <1>1, <1>2, <1>3
<1>5. Page!Typed'
  BY <1>2, <1>4 DEF Page!Typed
<1> QED BY <1>2, <1>5 DEF Page!Telling

(* The page's script runs, or its chart is drawn. *)
LEMMA DrawnTells ==
    ASSUME Page!Typed, Page!Telling, Page!Listens \/ Page!Drawn
    PROVE  Page!Typed' /\ Page!Telling'
<1>1. UNCHANGED <<v1, v2, v5, v6, v7, v9, v11>>
  BY DEF Page!Listens, Page!Drawn
<1>2. Page!WillShow => Page!WillShow'
  BY <1>1 DEF Page!WillShow, Page!LastWord
<1>3. Page!Typed'
  BY <1>1 DEF Page!Typed, Page!Listens, Page!Drawn
<1>4. CASE Page!Listens
  <2>1. v4 = "loading" /\ v4' = "listening" /\ v8' = v8
    BY <1>4 DEF Page!Listens
  <2>2. ~v5 /\ (v1 /\ ~v11 => ~v8 /\ ~v9)
    BY <2>1 DEF Page!Telling
  <2>3. v5' => v4' # "loading" /\ Page!WillShow'
    BY <1>1, <2>2
  <2>4. (v9' => v1') /\ (v1' => ~v5')
    BY <1>1 DEF Page!Telling
  <2>5. v1' /\ ~v11' => (v4' = "drawn" <=> v8' \/ v9') /\ (v9' => Page!WillShow')
    BY <1>1, <2>1, <2>2
  <2> QED BY <1>3, <2>3, <2>4, <2>5 DEF Page!Telling
<1>5. CASE Page!Drawn
  <2>1. v4 = "listening" /\ v4' = "drawn" /\ v8' = TRUE
    BY <1>5 DEF Page!Drawn
  <2>3. v5' => v4' # "loading" /\ Page!WillShow'
    BY <1>1, <1>2, <2>1 DEF Page!Telling
  <2>4. (v9' => v1') /\ (v1' => ~v5')
    BY <1>1 DEF Page!Telling
  <2>5. v1' /\ ~v11' => (v4' = "drawn" <=> v8' \/ v9') /\ (v9' => Page!WillShow')
    BY <1>1, <1>2, <2>1 DEF Page!Telling
  <2> QED BY <1>3, <2>3, <2>4, <2>5 DEF Page!Telling
<1> QED BY <1>3, <1>4, <1>5

(* The frame's onLoad tells the page everything. *)
LEMMA LoadedTells ==
    ASSUME Page!Typed, Page!Telling, Page!Loaded
    PROVE  Page!Typed' /\ Page!Telling'
<1>1. /\ ~v1 /\ v4 # "loading" /\ v5' = TRUE /\ v7' = v7 \o Page!Everything
      /\ UNCHANGED <<v1, v2, v4, v6, v8, v9, v11>>
  BY DEF Page!Loaded, Page!Send, Page!Tells
<1>2. v7' \in Seq(Page!Message)
  BY <1>1, EverythingIsSent DEF Page!Typed
<1>3. Page!WillShow'
  BY <1>1, EverythingIsTheLastWord DEF Page!WillShow
<1> QED BY <1>1, <1>2, <1>3 DEF Page!Typed, Page!Telling

(* The component hears that the page is drawn. *)
LEMMA HeardTells ==
    ASSUME Page!Typed, Page!Telling, Page!Heard
    PROVE  Page!Typed' /\ Page!Telling'
<1>1. /\ v8 /\ v8' = FALSE /\ v9' = (v9 \/ v1)
      /\ UNCHANGED <<v1, v2, v4, v5, v6, v11>>
  BY DEF Page!Heard
<1>2. CASE v1 /\ ~v9 /\ v4 # "loading"
  <2>1. v7' = v7 \o Page!Everything
    BY <1>2 DEF Page!Heard, Page!Send
  <2>2. v7' \in Seq(Page!Message)
    BY <2>1, EverythingIsSent DEF Page!Typed
  <2>3. Page!WillShow'
    BY <1>1, <2>1, EverythingIsTheLastWord DEF Page!WillShow
  <2> QED BY <1>1, <1>2, <2>2, <2>3 DEF Page!Typed, Page!Telling
<1>3. CASE ~(v1 /\ ~v9 /\ v4 # "loading")
  <2>1. v7' = v7
    BY <1>3 DEF Page!Heard, Page!Send
  <2>2. Page!WillShow => Page!WillShow'
    BY <1>1, <2>1 DEF Page!WillShow, Page!LastWord
  <2> QED BY <1>1, <1>3, <2>1, <2>2 DEF Page!Typed, Page!Telling
<1> QED BY <1>2, <1>3

(* A message arrives and is applied. *)
LEMMA ApplyTells ==
    ASSUME Page!Typed, Page!Telling, Page!Apply
    PROVE  Page!Typed' /\ Page!Telling'
<1>1. PICK m : m = Head(v7)
  OBVIOUS
<1>2. /\ v7 \in Seq(Page!Message) /\ v7 # <<>> /\ v7' = Tail(v7)
      /\ v6' = [v6 EXCEPT ![m.what] = m.value]
      /\ UNCHANGED <<v1, v2, v4, v5, v8, v9, v11>>
  BY <1>1 DEF Page!Apply, Page!Typed
<1>3. /\ m = v7[1] /\ m \in Page!Message /\ Len(v7) \in Nat \ {0}
      /\ v7' \in Seq(Page!Message) /\ Len(v7') = Len(v7) - 1
      /\ \A k \in 1..Len(v7') : v7'[k] = v7[k + 1]
  BY <1>1, <1>2
<1>4. v6' \in [Page!Given -> Values]
  BY <1>2, <1>3 DEF Page!Typed, Page!Message
<1>5. ASSUME NEW g \in Page!Given, Page!LastWord(v6, v7, g, v2[g])
      PROVE  Page!LastWord(v6', v7', g, v2[g])
  <2>1. CASE v6[g] = v2[g] /\ \A k \in 1..Len(v7) : v7[k].what # g
    <3>1. m.what # g /\ \A k \in 1..Len(v7') : v7'[k].what # g
      BY <1>3, <2>1
    <3>2. v6'[g] = v2[g]
      BY <1>2, <2>1, <3>1 DEF Page!Typed
    <3> QED BY <3>1, <3>2 DEF Page!LastWord
  <2>2. ASSUME NEW k \in 1..Len(v7), v7[k] = [what |-> g, value |-> v2[g]],
               \A j \in 1..Len(v7) : j > k => v7[j].what # g
        PROVE  Page!LastWord(v6', v7', g, v2[g])
    <3>1. CASE k = 1
      <4>1. m.what = g /\ m.value = v2[g]
        BY <1>3, <2>2, <3>1
      <4>2. v6'[g] = v2[g]
        BY <1>2, <4>1 DEF Page!Typed
      <4>3. \A j \in 1..Len(v7') : v7'[j].what # g
        BY <1>3, <2>2, <3>1
      <4> QED BY <4>2, <4>3 DEF Page!LastWord
    <3>2. CASE k # 1
      <4>1. k - 1 \in 1..Len(v7') /\ v7'[k - 1] = [what |-> g, value |-> v2[g]]
        BY <1>3, <2>2, <3>2
      <4>2. \A j \in 1..Len(v7') : j > k - 1 => v7'[j].what # g
        BY <1>3, <2>2, <3>2
      <4> QED BY <4>1, <4>2 DEF Page!LastWord
    <3> QED BY <3>1, <3>2
  <2> QED BY <1>5, <2>1, <2>2 DEF Page!LastWord
<1>6. Page!WillShow => Page!WillShow'
  BY <1>2, <1>5 DEF Page!WillShow
<1> QED BY <1>2, <1>3, <1>4, <1>6 DEF Page!Typed, Page!Telling

(* Every step of the chart's page and its component leaves what will be shown. *)
LEMMA PageSteps ==
    ASSUME Page!Typed, Page!Telling, Page!Next
    PROVE  Page!Typed' /\ Page!Telling'
<1>1. CASE \E g \in Page!Given, v \in Values : Page!Give(g, v)
  BY <1>1, GiveTells
<1>2. CASE \E a \in Addresses : Page!Navigate(a)
  BY <1>2, NavigateTells
<1>3. CASE Page!Listens \/ Page!Drawn
  BY <1>3, DrawnTells
<1>4. CASE Page!Loaded
  BY <1>4, LoadedTells
<1>5. CASE Page!Heard
  BY <1>5, HeardTells
<1>6. CASE Page!Apply
  BY <1>6, ApplyTells
<1> QED BY <1>1, <1>2, <1>3, <1>4, <1>5, <1>6 DEF Page!Next

(* TVChart and tv.js: for all messages, values and addresses, a page drawn  *)
(* with nothing on its way shows what the component was given: in the       *)
(* iframe once the frame was told, in the WebView until the address changes.*)
THEOREM ThePageIsTold == ScreensSpec => []PageShowsWhatItIsGiven
<1> DEFINE Kept == screen = "chart" => Page!Typed /\ Page!Telling
<1>1. ScreensInit => Kept
  <2> SUFFICES ASSUME ScreensInit, screen = "chart" PROVE Page!Typed /\ Page!Telling
    OBVIOUS
  <2>1. Page!Init
    BY DEF ScreensInit, From1, From8, From9, From12
  <2>2. Page!Blank \in [Page!Given -> Values]
    BY ScreensAssumption DEF Page!ChartPageAssumption, Page!Blank
  <2>3. v7 \in Seq(Page!Message)
    <3>1. v7 = <<>> /\ <<>> \in Seq(Page!Message)
      BY <2>1 DEF Page!Init
    <3> QED BY <3>1
  <2>4. Page!Typed
    BY <2>1, <2>2, <2>3 DEF Page!Init, Page!Typed
  <2> QED BY <2>1, <2>4 DEF Page!Init, Page!Telling
<1>2. Kept /\ [ScreensNext]_<<screen, slots, vars>> => Kept'
  <2> SUFFICES ASSUME Kept, [ScreensNext]_<<screen, slots, vars>>, screen' = "chart"
               PROVE  Page!Typed' /\ Page!Telling'
    OBVIOUS
  <2>1. CASE Page!Next
    BY <2>1, AScreenSteps, PageSteps
  <2>2. CASE UNCHANGED slots
    BY <2>2, AScreenSteps DEF slots, Page!Typed, Page!Telling, Page!WillShow, Page!LastWord
  <2> QED BY <2>1, <2>2, AScreenSteps
<1>3. Kept => PageShowsWhatItIsGiven
  <2> SUFFICES ASSUME Kept, screen = "chart", v4 = "drawn", v7 = <<>>, ~v8,
                      IF v1 THEN ~v11 ELSE v5
               PROVE  v6 = v2
    BY DEF PageShowsWhatItIsGiven, Page!PageShowsWhatItIsGiven
  <2>1. Page!WillShow
    BY DEF Page!Telling
  <2>2. \A g \in Page!Given : v6[g] = v2[g]
    BY <2>1 DEF Page!WillShow, Page!LastWord
  <2> QED BY <2>2 DEF Page!Typed
<1> QED BY <1>1, <1>2, <1>3, PTL DEF ScreensSpec

-----------------------------------------------------------------------------
(* The pages of a board *)

(* The boards, as the proofs use them. *)
LEMMA StandingsGround ==
    /\ FirstBoard \in Boards /\ "none" \notin Boards
    /\ \A b \in Boards : Pages[b] \in Nat \ {0}
BY ScreensAssumption DEF Standings!StandingsAssumption

(* The page after one follows it, if there is one. *)
LEMMA AfterFollows ==
    ASSUME NEW b \in Boards, NEW p \in Int, p >= 0, Standings!After(b, p) > 0
    PROVE  Standings!After(b, p) = p + 1 /\ p + 1 < Pages[b]
BY StandingsGround DEF Standings!After

(* The page after a page is numbered. *)
LEMMA AfterIsNat ==
    ASSUME NEW b \in Boards, NEW p \in Nat PROVE Standings!After(b, p) \in Nat
BY DEF Standings!After

(* A book begun: its first page, or that there are no rows. *)
LEMMA BegunFollows ==
    ASSUME Standings!Typed, Standings!Following, NEW p \in {0, -1},
           NEW next \in Nat, NEW players \in Int, Standings!Begun(<<p>>, next, players),
           next > 0 => next = 1 /\ 1 < Pages[v2]
    PROVE  Standings!Typed' /\ Standings!Following'
<1>1. /\ v3' = [of |-> v2, pages |-> <<p>>, next |-> next, at |-> 1, players |-> players]
      /\ v7' = (v7 \/ (v5.of = v2 /\ v5.page > 1)) /\ UNCHANGED <<v2, v5>>
  BY DEF Standings!Begun
<1>2. /\ v3'.of = v2 /\ v3'.pages = <<p>> /\ v3'.next = next /\ v2 \in Boards
      /\ Len(v3'.pages) = 1 /\ v3'.pages[1] = p /\ v3'.pages # <<>>
  BY <1>1 DEF Standings!Typed
<1>3. Standings!Typed'
  <2>1. <<p>> \in Seq(Int)
    OBVIOUS
  <2>2. v3' \in [of : Boards \cup {"none"}, pages : Seq(Int), next : Nat, at : Int, players : Int]
    BY <1>1, <1>2, <2>1
  <2> QED BY <1>1, <1>2, <2>2 DEF Standings!Typed
<1>4. p \in Int /\ p < 1 /\ p < Pages[v2]
  BY <1>2, StandingsGround
<1>5. Standings!PagesFollow'
  BY <1>2, <1>4 DEF Standings!PagesFollow, Standings!NoRows
<1>6. ASSUME NEW n \in Int, n > 0, ~v7' => n = 1 PROVE Standings!FollowsTheBook(n)'
  BY <1>2, <1>4, <1>6 DEF Standings!FollowsTheBook
<1>7. PICK due : due = v5.page
  OBVIOUS
<1>8. ASSUME v5 # Standings!NoPage
      PROVE  due > 0 /\ (v5.of = v2 => Standings!FollowsTheBook(due)')
  <2>1. due \in Nat /\ due > 0
    BY <1>7, <1>8 DEF Standings!Typed, Standings!Following, Standings!loading
  <2>2. ~v7' => ~(v5.of = v2 /\ v5.page > 1)
    BY <1>1, Zenon
  <2>3. v5.of = v2 /\ ~v7' => due = 1
    BY <1>7, <2>1, <2>2
  <2> QED BY <1>6, <2>1, <2>3
<1>9. next > 0 => Standings!FollowsTheBook(next)' /\ next < Pages[v2]
  BY <1>6
<1> QED BY <1>1, <1>2, <1>3, <1>5, <1>7, <1>8, <1>9 DEF Standings!Following, Standings!loading

(* A page after the last of the book is taken. *)
LEMMA AppendFollows ==
    ASSUME Standings!Typed, Standings!Following, NEW page \in Nat, page > 0,
           Standings!FollowsTheBook(page), v3.of \in Boards, page < Pages[v3.of],
           v3'.of = v3.of, v3'.pages = Append(v3.pages, page),
           v3'.next = Standings!After(v3.of, page), v3' \in [of : Boards \cup {"none"},
               pages : Seq(Int), next : Nat, at : Int, players : Int],
           v5' = Standings!NoPage, UNCHANGED <<v2, v7>>
    PROVE  Standings!Typed' /\ Standings!Following'
<1> DEFINE n == Len(v3.pages)
<1>1. v3.pages \in Seq(Int) /\ n \in Nat \ {0}
  BY DEF Standings!Typed, Standings!FollowsTheBook
<1>2. /\ Len(v3'.pages) = n + 1 /\ v3'.pages[n + 1] = page
      /\ \A i \in 1..n : v3'.pages[i] = v3.pages[i]
  BY <1>1
<1>3. v3.pages[n] < page /\ (~v7 => page = n)
  BY DEF Standings!FollowsTheBook
<1>4. /\ \A i \in 1..n - 1 : v3.pages[i] < v3.pages[i + 1]
      /\ ~v7 => \A i \in 1..n :
            v3.pages[i] = i - 1 \/ (i = 1 /\ v3.pages[i] = Standings!NoRows)
  BY <1>1 DEF Standings!Following, Standings!PagesFollow
<1> HIDE DEF n
<1>5. \A i \in 1..n : v3'.pages[i] < v3'.pages[i + 1]
  <2> TAKE i \in 1..n
  <2>1. CASE i = n
    BY <1>1, <1>2, <1>3, <2>1
  <2>2. CASE i # n
    <3>1. i \in 1..n - 1 /\ i + 1 \in 1..n
      BY <1>1, <2>2
    <3> QED BY <1>2, <1>4, <3>1
  <2> QED BY <2>1, <2>2
<1>6. ~v7 => \A i \in 1..n + 1 :
            v3'.pages[i] = i - 1 \/ (i = 1 /\ v3'.pages[i] = Standings!NoRows)
  <2> SUFFICES ASSUME ~v7, NEW i \in 1..n + 1
               PROVE  v3'.pages[i] = i - 1 \/ (i = 1 /\ v3'.pages[i] = Standings!NoRows)
    OBVIOUS
  <2>1. CASE i = n + 1
    BY <1>1, <1>2, <1>3, <2>1
  <2>2. CASE i # n + 1
    <3>1. i \in 1..n
      BY <1>1, <2>2
    <3> QED BY <1>2, <1>4, <3>1
  <2> QED BY <2>1, <2>2
<1>7. n + 1 - 1 = n
  BY <1>1
<1>8. v3'.pages # <<>>
  BY <1>1, <1>2
<1>9. Standings!PagesFollow'
  <2>1. \A i \in 1..Len(v3'.pages) - 1 : v3'.pages[i] < v3'.pages[i + 1]
    <3>1. Len(v3'.pages) - 1 = n
      BY <1>1, <1>2
    <3> QED BY <1>5, <3>1
  <2>2. v3'.pages[Len(v3'.pages)] < Pages[v3'.of]
    BY <1>2
  <2>3. ~v7' => \A i \in 1..Len(v3'.pages) :
            v3'.pages[i] = i - 1 \/ (i = 1 /\ v3'.pages[i] = Standings!NoRows)
    BY <1>2, <1>6
  <2> QED BY <2>1, <2>2, <2>3 DEF Standings!PagesFollow, Standings!NoRows
<1>10. PICK next : next = Standings!After(v3.of, page)
  OBVIOUS
<1>11. ASSUME next > 0 PROVE Standings!FollowsTheBook(next)' /\ next < Pages[v3.of]
  <2>1. next = page + 1 /\ page + 1 < Pages[v3.of]
    BY <1>10, <1>11, AfterFollows
  <2> QED BY <1>1, <1>2, <1>3, <1>8, <2>1 DEF Standings!FollowsTheBook
<1>12. Standings!Typed'
  BY <1>8, StandingsGround DEF Standings!Typed, Standings!NoPage
<1> QED BY <1>9, <1>10, <1>11, <1>12 DEF Standings!Following, Standings!loading

(* The book and what is asked for stand, but for the page shown. *)
LEMMA BookStands ==
    ASSUME Standings!Typed, Standings!Following, v2' \in Boards,
           v3' \in [of : Boards \cup {"none"}, pages : Seq(Int), next : Nat, at : Int,
                    players : Int],
           v3'.of = v3.of, v3'.pages = v3.pages, v3'.next = v3.next,
           v5' = v5 \/ v5' = Standings!NoPage, v7' = v7
    PROVE  Standings!Typed' /\ Standings!Following'
<1>1. Standings!PagesFollow'
  BY DEF Standings!Following, Standings!PagesFollow
<1>2. \A n : Standings!FollowsTheBook(n) => Standings!FollowsTheBook(n)'
  BY DEF Standings!FollowsTheBook
<1>3. Standings!Typed'
  BY StandingsGround DEF Standings!Typed, Standings!NoPage
<1>4. PICK next, due : next = v3.next /\ due = v5.page
  OBVIOUS
<1>5. next > 0 => Standings!FollowsTheBook(next)' /\ next < Pages[v3.of]
  BY <1>2, <1>4 DEF Standings!Following
<1>6. v5 # Standings!NoPage => due > 0 /\ (v5.of = v3.of => Standings!FollowsTheBook(due)')
  BY <1>2, <1>4 DEF Standings!Following, Standings!loading
<1> QED BY <1>1, <1>3, <1>4, <1>5, <1>6 DEF Standings!Following, Standings!loading

(* Every step of the standings keeps the pages of the book in order. *)
LEMMA StandingsSteps ==
    ASSUME Standings!Typed, Standings!Following, Standings!Next
    PROVE  Standings!Typed' /\ Standings!Following'
<1> DEFINE Books == [of : Boards \cup {"none"}, pages : Seq(Int), next : Nat, at : Int,
                     players : Int]
<1>1. v2 \in Boards /\ v3 \in Books
  BY DEF Standings!Typed
<1>2. CASE Standings!Known
  BY <1>1, <1>2, BookStands DEF Standings!Known
<1>3. ASSUME NEW b \in Boards, Standings!Pick(b)
      PROVE  Standings!Typed' /\ Standings!Following'
  BY <1>1, <1>3, BookStands DEF Standings!Pick
<1>4. CASE Standings!TakeFirst
  <2>1. PICK next, players : next = Standings!After(v2, 0) /\ players = Pages[v2]
    OBVIOUS
  <2>2. next \in Nat /\ players \in Int /\ (next > 0 => next = 1 /\ 1 < Pages[v2])
    BY <1>1, <2>1, StandingsGround DEF Standings!After
  <2> QED BY <1>4, <2>1, <2>2, BegunFollows DEF Standings!TakeFirst
<1>5. CASE Standings!FirstFails
  BY <1>5, BegunFollows DEF Standings!FirstFails, Standings!NoRows
<1>6. CASE Standings!NextKept \/ Standings!Prev
  <2>1. /\ v3' \in Books /\ v3'.of = v3.of /\ v3'.pages = v3.pages /\ v3'.next = v3.next
        /\ UNCHANGED <<v2, v5, v7>>
    BY <1>1, <1>6 DEF Standings!NextKept, Standings!Prev
  <2> QED BY <1>1, <2>1, BookStands
<1>7. CASE Standings!NextAsked
  <2>1. PICK next : next = v3.next
    OBVIOUS
  <2>2. /\ v5' = [of |-> v2, page |-> next] /\ v3.of = v2 /\ next > 0
        /\ UNCHANGED <<v2, v3, v7>>
    BY <1>7, <2>1 DEF Standings!NextAsked, Standings!CanStep, Standings!current
  <2>3. next \in Nat /\ Standings!FollowsTheBook(next) /\ next < Pages[v3.of]
    BY <1>1, <2>1, <2>2 DEF Standings!Following
  <2>4. Standings!FollowsTheBook(next)'
    BY <2>2, <2>3 DEF Standings!FollowsTheBook
  <2>5. Standings!PagesFollow'
    BY <2>2 DEF Standings!Following, Standings!PagesFollow
  <2>6. v5'.of = v2 /\ v5'.page = next /\ v5' \in [of : Boards, page : Nat]
    BY <1>1, <2>2, <2>3
  <2>7. Standings!Typed'
    BY <2>2, <2>3, <2>6 DEF Standings!Typed
  <2> QED BY <2>1, <2>2, <2>3, <2>4, <2>5, <2>6, <2>7 DEF Standings!Following, Standings!loading
<1>8. CASE Standings!TakeMore
  <2>1. /\ v5 # Standings!NoPage /\ v5' = Standings!NoPage /\ v3' = Standings!Taken(v5)
        /\ UNCHANGED <<v2, v7>>
    BY <1>8 DEF Standings!TakeMore, Standings!loading
  <2>2. CASE v3.of # v5.of
    BY <1>1, <2>1, <2>2, BookStands DEF Standings!Taken
  <2>3. CASE v3.of = v5.of
    <3>1. PICK page : page = v5.page
      OBVIOUS
    <3>2. /\ page \in Nat /\ page > 0 /\ Standings!FollowsTheBook(page)
          /\ v3.of \in Boards /\ page < Pages[v3.of]
      BY <2>1, <2>3, <3>1 DEF Standings!Typed, Standings!Following, Standings!loading
    <3>3. /\ Append(v3.pages, page) \in Seq(Int) /\ Len(v3.pages) + 1 \in Int
          /\ Standings!After(v3.of, page) \in Nat /\ Pages[v3.of] \in Int
      <4>1. v3.pages \in Seq(Int) /\ page \in Int /\ Len(v3.pages) \in Nat
        BY <1>1, <3>2
      <4>2. Standings!After(v3.of, page) \in Nat
        BY <3>2, AfterIsNat
      <4>3. Pages[v3.of] \in Int
        BY <3>2, StandingsGround
      <4> QED BY <4>1, <4>2, <4>3
    <3>4. v3' = [v3 EXCEPT !.pages = Append(v3.pages, page),
                           !.next = Standings!After(v3.of, page),
                           !.at = Len(v3.pages) + 1, !.players = Pages[v3.of]]
      BY <2>1, <2>3, <3>1 DEF Standings!Taken
    <3>5. /\ v3' \in Books /\ v3'.of = v3.of /\ v3'.pages = Append(v3.pages, page)
          /\ v3'.next = Standings!After(v3.of, page)
      BY <1>1, <3>3, <3>4
    <3> QED BY <2>1, <3>2, <3>5, AppendFollows
  <2> QED BY <2>2, <2>3
<1>9. CASE Standings!MoreFails
  BY <1>1, <1>9, BookStands DEF Standings!MoreFails
<1> QED BY <1>2, <1>3, <1>4, <1>5, <1>6, <1>7, <1>8, <1>9 DEF Standings!Next

(* leaderboard.tsx, useStandings: for all boards and their pages, and      *)
(* however choices and answers cross, the pages of the book rise, and each *)
(* is the board's own unless a later page was on its way when the board    *)
(* was left and chosen again.                                              *)
THEOREM ThePagesFollow == ScreensSpec => []PagesFollow
<1> DEFINE Kept == screen = "standings" => Standings!Typed /\ Standings!Following
<1>1. ScreensInit => Kept
  <2> SUFFICES ASSUME ScreensInit, screen = "standings"
               PROVE  Standings!Typed /\ Standings!Following
    OBVIOUS
  <2>1. Standings!Init
    BY DEF ScreensInit, From1, From8, From9, From12
  <2>2. /\ v3 = [of |-> "none", pages |-> <<>>, next |-> 0, at |-> 1, players |-> 0]
        /\ <<>> \in Seq(Int) /\ Len(v3.pages) = 0
    BY <2>1 DEF Standings!Init, Standings!EmptyBook
  <2>3. Standings!Typed
    <3>1. /\ v2 = FirstBoard /\ v5 = [of |-> FirstBoard, page |-> 0] /\ v7 = FALSE
          /\ FirstBoard \in Boards /\ 0 < Pages[FirstBoard]
      BY <2>1, StandingsGround DEF Standings!Init, Standings!NoPage
    <3>2. v3 \in [of : Boards \cup {"none"}, pages : Seq(Int), next : Nat, at : Int,
                  players : Int]
      BY <2>2
    <3>3. v3.pages = <<>>
      BY <2>2
    <3>4. v5 \in [of : Boards, page : Nat] /\ v5.page < Pages[v5.of]
      BY <3>1
    <3> QED BY <3>1, <3>2, <3>3, <3>4 DEF Standings!Typed
  <2>4. Standings!PagesFollow
    BY <2>2 DEF Standings!PagesFollow
  <2> QED BY <2>1, <2>2, <2>3, <2>4 DEF Standings!Init, Standings!Following, Standings!loading
<1>2. Kept /\ [ScreensNext]_<<screen, slots, vars>> => Kept'
  <2> SUFFICES ASSUME Kept, [ScreensNext]_<<screen, slots, vars>>, screen' = "standings"
               PROVE  Standings!Typed' /\ Standings!Following'
    OBVIOUS
  <2>1. CASE Standings!Next
    BY <2>1, AScreenSteps, StandingsSteps
  <2>2. CASE UNCHANGED slots
    <3>1. v2 \in Boards /\ UNCHANGED <<v2, v3, v5, v7>>
      BY <2>2, AScreenSteps DEF slots, Standings!Typed
    <3> QED BY <3>1, AScreenSteps, BookStands DEF Standings!Typed
  <2> QED BY <2>1, <2>2, AScreenSteps
<1>3. Kept => PagesFollow
  BY DEF PagesFollow, Standings!Following
<1> QED BY <1>1, <1>2, <1>3, PTL DEF ScreensSpec

-----------------------------------------------------------------------------
(* The chart's feed *)

(* A bar takes time. *)
LEMMA FeedGround ==
    FirstInterval \in DOMAIN PERIODS /\ \A r \in DOMAIN PERIODS : PERIODS[r] \in Nat \ {0}
BY ScreensAssumption DEF Feed!FeedAssumption, Feed!RESOLUTIONS

(* The bars before a moment begin before it. *)
LEMMA Quotient ==
    ASSUME NEW p \in Nat \ {0}, NEW m \in Nat, NEW n \in Nat, n <= m \div p
    PROVE  n * p \in Nat /\ n * p <= m
<1>1. (m \div p) \in Nat /\ (m \div p) * p <= m
  OBVIOUS
<1>2. PICK q \in Nat : q = m \div p
  BY <1>1
<1>3. n <= q /\ q * p <= m
  BY <1>1, <1>2
<1>4. PICK d \in Nat : q = n + d
  <2>1. q - n \in Nat /\ q = n + (q - n)
    BY <1>3
  <2> QED BY <2>1
<1>5. q * p = n * p + d * p /\ n * p \in Nat /\ d * p \in Nat
  BY <1>4
<1> QED BY <1>3, <1>5

(* A bar closes in its own time, not before it begins. *)
LEMMA BarClosesInTime ==
    ASSUME NEW read \in Feed!Read, NEW moment \in Nat, NEW bar \in Feed!BarsAt(read, moment)
    PROVE  /\ bar.time \in Nat /\ bar.close \in Nat
           /\ bar.time <= bar.close /\ bar.close <= moment
           /\ bar.close < bar.time + PERIODS[read.resolution]
<1> DEFINE period == PERIODS[read.resolution]
           upto == Feed!Earlier(read.to, moment)
<1>1. /\ period \in Nat \ {0} /\ read.from \in Nat /\ read.to \in Nat
      /\ upto \in Nat /\ upto <= moment
  BY FeedGround DEF Feed!Read, Feed!RESOLUTIONS, Feed!Earlier
<1>2. PICK n \in Feed!FirstNumber(read)..Feed!LastNumber(read, moment) :
           bar = Feed!Bar(read, n, moment)
  BY DEF Feed!BarsAt
<1> HIDE DEF period, upto
<1>3. n \in Nat /\ n <= upto \div period
  <2>1. (read.from + period - 1) \div period \in Nat
    BY <1>1
  <2>2. n \in (read.from + period - 1) \div period .. upto \div period
    BY <1>2 DEF Feed!FirstNumber, Feed!LastNumber, period, upto
  <2>3. upto \div period \in Nat
    BY <1>1
  <2> QED BY <2>1, <2>2, <2>3
<1>4. n * period \in Nat /\ n * period <= moment
  BY <1>1, <1>3, Quotient
<1>5. PICK time \in Nat : time = n * period
  BY <1>4
<1>6. bar = [time |-> time,
             close |-> IF time + period <= moment THEN time + period - 1 ELSE moment]
  BY <1>2, <1>5 DEF Feed!Bar, period
<1> QED BY <1>1, <1>4, <1>5, <1>6 DEF period

(* Of bars that a read answers, the latest began last. *)
LEMMA LatestIs ==
    ASSUME NEW read \in Feed!Read, NEW moment \in Nat,
           NEW bars \in SUBSET Feed!BarsAt(read, moment), bars # {}
    PROVE  /\ Feed!Latest(bars) \in bars
           /\ \A bar \in bars : bar.time <= Feed!Latest(bars).time
<1> DEFINE S == {bar.time : bar \in bars}
<1>1. /\ S \in SUBSET Nat /\ S # {}
      /\ \A bar \in bars : bar.time \in Nat /\ bar.time <= moment
  <2>1. \A bar \in bars : /\ bar.time \in Nat /\ bar.close \in Nat
                          /\ bar.time <= bar.close /\ bar.close <= moment
    BY BarClosesInTime
  <2>2. \A bar \in bars : bar.time \in Nat /\ bar.time <= moment
    BY <2>1
  <2> QED BY <2>2
<1>2. PICK l \in S : \A k \in S : k <= l
  <2> HIDE DEF S
  <2>1. \A x \in S : x <= moment
    BY <1>1 DEF S
  <2> QED BY <1>1, <2>1, LargestExists
<1>3. \E bar \in bars : \A other \in bars : other.time <= bar.time
  BY <1>2
<1> QED BY <1>3 DEF Feed!Latest

(* The price told, and what was seen, after one more answer. *)
LEMMA StillWithinABar ==
    ASSUME Feed!Typed, Feed!InStep, NEW read \in Feed!Read, NEW moment \in Nat,
           NEW told \in [time : Int, close : Int], v5.time <= told.time,
           Feed!BarsAt(read, moment) # {} =>
               Feed!Latest(Feed!BarsAt(read, moment)).time <= told.time
    PROVE  /\ Feed!Freshest(Feed!BarsAt(read, moment)) \in Int
           /\ \E r \in DOMAIN PERIODS :
                 Feed!Freshest(Feed!BarsAt(read, moment)) < told.time + PERIODS[r]
<1> DEFINE bars == Feed!BarsAt(read, moment)
           b == Feed!Latest(bars)
           fresh == Feed!Freshest(bars)
<1>1. v11 \in Int /\ v5.time \in Int /\ told.time \in Int
  BY DEF Feed!Typed
<1>2. PICK r \in DOMAIN PERIODS : v11 < v5.time + PERIODS[r]
  BY DEF Feed!InStep, Feed!RESOLUTIONS
<1>3. PERIODS[r] \in Nat /\ read.resolution \in DOMAIN PERIODS
      /\ PERIODS[read.resolution] \in Nat
  BY FeedGround DEF Feed!Read, Feed!RESOLUTIONS
<1>4. CASE bars # {} /\ b.close > v11
  <2>1. b \in bars
    BY <1>4, LatestIs
  <2>2. /\ b.time \in Nat /\ b.close \in Nat
        /\ b.close < b.time + PERIODS[read.resolution] /\ b.time <= told.time
    BY <1>4, <2>1, BarClosesInTime
  <2>3. fresh = b.close
    BY <1>4 DEF Feed!Freshest
  <2> HIDE DEF b, fresh
  <2>4. fresh \in Int /\ fresh < told.time + PERIODS[read.resolution]
    BY <1>1, <1>3, <2>2, <2>3
  <2> QED BY <1>3, <2>4 DEF fresh
<1>5. CASE ~(bars # {} /\ b.close > v11)
  <2>1. fresh = v11
    BY <1>5 DEF Feed!Freshest
  <2> HIDE DEF fresh
  <2>2. fresh \in Int /\ fresh < told.time + PERIODS[r]
    BY <1>1, <1>2, <1>3, <2>1
  <2> QED BY <2>2 DEF fresh
<1> QED BY <1>4, <1>5

(* What the page tells after it saw some bars. *)
LEMMA SawIs ==
    ASSUME Feed!Typed, Feed!InStep, NEW b, b.time \in Nat, b.close \in Nat,
           b \in [time : Int, close : Int], b.time <= b.close,
           NEW bars, Feed!Latest(bars) = b
    PROVE  /\ Feed!Saw(bars) \in [time : Int, close : Int]
           /\ Feed!Saw(bars).time <= Feed!Saw(bars).close
           /\ v5.time <= Feed!Saw(bars).time /\ b.time <= Feed!Saw(bars).time
<1>1. v5 \in [time : Int, close : Int] /\ v5.time \in Int /\ v5.time <= v5.close
  BY DEF Feed!Typed, Feed!InStep
<1>2. Feed!Saw(bars) = IF b.time >= v5.time THEN b ELSE v5
  BY DEF Feed!Saw
<1> QED BY <1>1, <1>2

(* A bar is a time and a close. *)
LEMMA BarIsARecord ==
    ASSUME NEW read \in Feed!Read, NEW moment \in Nat, NEW bar \in Feed!BarsAt(read, moment)
    PROVE  bar \in [time : Int, close : Int]
<1>1. bar = [time |-> bar.time, close |-> bar.close]
  BY DEF Feed!BarsAt, Feed!Bar
<1>2. bar.time \in Int /\ bar.close \in Int
  BY BarClosesInTime
<1> QED BY <1>1, <1>2

(* A history is answered: nothing it holds is later than what is told next. *)
LEMMA HistoryKeeps ==
    ASSUME Feed!Typed, Feed!InStep, NEW read \in v6, NEW moment \in Nat,
           Feed!TakeHistory(read, moment)
    PROVE  Feed!Typed' /\ Feed!InStep'
<1> DEFINE bars == Feed!BarsAt(read, moment)
           end == IF bars = {} THEN 0 ELSE Feed!Latest(bars).time
<1>1. read \in Feed!Read /\ read.resolution \in DOMAIN PERIODS
  BY DEF Feed!Typed, Feed!Read, Feed!RESOLUTIONS
<1>2. /\ v6' = v6 \ {read} /\ v5' = (IF bars = {} THEN v5 ELSE Feed!Saw(bars))
      /\ v4' = [v4 EXCEPT ![read.resolution] =
                    IF end > v4[read.resolution] THEN end ELSE v4[read.resolution]]
      /\ v9' = [v9 EXCEPT ![read.resolution] =
                    IF end > v9[read.resolution] THEN end ELSE v9[read.resolution]]
      /\ v11' = Feed!Freshest(bars) /\ UNCHANGED <<v1, v2, v10>>
  BY DEF Feed!TakeHistory, Feed!NewestOf
<1>3. /\ v5' \in [time : Int, close : Int] /\ v5'.time <= v5'.close /\ v5.time <= v5'.time
      /\ bars # {} => Feed!Latest(bars).time <= v5'.time
      /\ end \in Nat /\ (end = 0 \/ end <= v5'.time)
  <2>1. CASE bars = {}
    BY <1>2, <2>1 DEF Feed!Typed, Feed!InStep
  <2>2. CASE bars # {}
    <3>1. PICK b \in bars : b = Feed!Latest(bars)
      BY <1>1, <2>2, LatestIs
    <3>2. b.time \in Nat /\ b.close \in Nat /\ b.time <= b.close
      BY <1>1, BarClosesInTime
    <3>3. b \in [time : Int, close : Int]
      BY <1>1, BarIsARecord
    <3>4. v5' = Feed!Saw(bars) /\ end = b.time
      BY <1>2, <2>2, <3>1
    <3> HIDE DEF bars, end
    <3> QED BY <3>1, <3>2, <3>3, <3>4, SawIs
  <2> QED BY <2>1, <2>2
<1>4. /\ v11' \in Int
      /\ \E r \in DOMAIN PERIODS : v11' < v5'.time + PERIODS[r]
  BY <1>1, <1>2, <1>3, StillWithinABar
<1> HIDE DEF bars, end
<1>5. /\ v4' \in [Feed!RESOLUTIONS -> Nat] /\ v9' = v4'
      /\ \A r \in Feed!RESOLUTIONS : v4'[r] = 0 \/ v4'[r] <= v5'.time
  <2>1. v4 \in [Feed!RESOLUTIONS -> Nat] /\ v9 = v4 /\ v5.time \in Int /\ v5'.time \in Int
    BY <1>3 DEF Feed!Typed, Feed!InStep
  <2>2. \A r \in Feed!RESOLUTIONS : v4[r] = 0 \/ v4[r] <= v5'.time
    <3> TAKE r \in Feed!RESOLUTIONS
    <3>1. v4[r] \in Nat /\ (v4[r] = 0 \/ v4[r] <= v5.time)
      BY <2>1 DEF Feed!InStep
    <3> QED BY <1>3, <2>1, <3>1
  <2>3. v4' \in [Feed!RESOLUTIONS -> Nat] /\ v9' = v4'
    BY <1>2, <1>3, <2>1
  <2>4. \A r \in Feed!RESOLUTIONS : v4'[r] = v4[r] \/ v4'[r] = end
    BY <1>2, <2>1
  <2> QED BY <1>3, <2>2, <2>3, <2>4
<1> QED BY <1>2, <1>3, <1>4, <1>5 DEF Feed!Typed, Feed!InStep, Feed!RESOLUTIONS

(* A poll is answered: bars older than the newest are passed over. *)
LEMMA LiveKeeps ==
    ASSUME Feed!Typed, Feed!InStep, NEW read \in v6, NEW moment \in Nat,
           Feed!TakeLive(read, moment)
    PROVE  Feed!Typed' /\ Feed!InStep'
<1> DEFINE all == Feed!BarsAt(read, moment)
           r == read.resolution
           bars == {bar \in all : bar.time >= v4[r]}
<1>1. read \in Feed!Read /\ r \in Feed!RESOLUTIONS /\ Feed!RESOLUTIONS = DOMAIN PERIODS
  BY DEF Feed!Typed, Feed!Read, Feed!RESOLUTIONS
<1>2. /\ v6' = v6 \ {read} /\ v11' = Feed!Freshest(all) /\ UNCHANGED <<v1, v2>>
      /\ bars = {} => UNCHANGED <<v4, v5, v9, v10>>
      /\ bars # {} => /\ v4' = [v4 EXCEPT ![r] = Feed!Latest(bars).time]
                      /\ v5' = Feed!Saw(bars)
                      /\ v10' = (v10 \/ \E bar \in bars : bar.time < v9[r])
                      /\ v9' = [v9 EXCEPT ![r] = Feed!Latest(bars).time]
  BY DEF Feed!TakeLive
<1>3. /\ v4 \in [Feed!RESOLUTIONS -> Nat] /\ v9 = v4 /\ v10 = FALSE /\ v4[r] \in Nat
      /\ v5 \in [time : Int, close : Int] /\ v5.time \in Int /\ v5.time <= v5.close
      /\ \A q \in Feed!RESOLUTIONS : v4[q] \in Nat /\ (v4[q] = 0 \/ v4[q] <= v5.time)
  BY <1>1 DEF Feed!Typed, Feed!InStep
<1>4. CASE bars = {}
  <2>1. UNCHANGED <<v1, v2, v4, v5, v9, v10>>
    BY <1>2, <1>4
  <2>2. all # {} => Feed!Latest(all).time <= v5.time
    <3> SUFFICES ASSUME all # {} PROVE Feed!Latest(all).time <= v5.time
      OBVIOUS
    <3>1. PICK b \in all : b = Feed!Latest(all)
      BY <1>1, LatestIs
    <3>2. b.time \in Nat
      BY <1>1, BarClosesInTime
    <3>3. ~(b.time >= v4[r])
      BY <1>4
    <3>4. v4[r] = 0 \/ v4[r] <= v5.time
      BY <1>1, <1>3
    <3> QED BY <1>3, <3>1, <3>2, <3>3, <3>4
  <2>3. v11' \in Int /\ \E q \in DOMAIN PERIODS : v11' < v5.time + PERIODS[q]
    BY <1>1, <1>2, <1>3, <2>2, StillWithinABar
  <2> HIDE DEF bars, all, r
  <2> QED BY <1>1, <1>2, <2>1, <2>3 DEF Feed!Typed, Feed!InStep
<1>5. CASE bars # {}
  <2>1. bars \in SUBSET all
    OBVIOUS
  <2>2. PICK b \in bars : b = Feed!Latest(bars) /\ \A bar \in bars : bar.time <= b.time
    BY <1>1, <1>5, <2>1, LatestIs
  <2>3. b.time \in Nat /\ b.close \in Nat /\ b.time <= b.close
    BY <1>1, <2>1, <2>2, BarClosesInTime
  <2>4. b \in [time : Int, close : Int]
    BY <1>1, <2>1, <2>2, BarIsARecord
  <2>5. \A bar \in bars : bar.time \in Nat /\ bar.time >= v4[r]
    BY <1>1, BarClosesInTime
  <2>6. PICK newest \in all : newest = Feed!Latest(all) /\ \A bar \in all : bar.time <= newest.time
    BY <1>1, <1>5, LatestIs
  <2>7. newest.time \in Nat
    BY <1>1, <2>6, BarClosesInTime
  <2>8. b.time <= newest.time /\ b.time >= v4[r]
    BY <2>2, <2>5, <2>6
  <2>9. newest \in bars
    BY <1>3, <2>3, <2>6, <2>7, <2>8
  <2>10. newest.time = b.time
    BY <2>2, <2>3, <2>7, <2>8, <2>9
  <2>11. /\ v4' = [v4 EXCEPT ![r] = b.time] /\ v5' = Feed!Saw(bars) /\ v9' = [v9 EXCEPT ![r] = b.time]
         /\ v10' = (v10 \/ \E bar \in bars : bar.time < v9[r])
    BY <1>2, <1>5, <2>2
  <2> HIDE DEF bars, r
  <2>12. /\ v5' \in [time : Int, close : Int] /\ v5'.time <= v5'.close
         /\ v5.time <= v5'.time /\ b.time <= v5'.time
    BY <2>2, <2>3, <2>4, <2>11, SawIs
  <2>13. v11' \in Int /\ \E q \in DOMAIN PERIODS : v11' < v5'.time + PERIODS[q]
    <3>1. all # {} => Feed!Latest(all).time <= v5'.time
      BY <2>6, <2>10, <2>12
    <3> QED BY <1>1, <1>2, <2>12, <3>1, StillWithinABar
  <2> HIDE DEF all
  <2>14. v10' = FALSE
    <3>1. \A bar \in bars : ~(bar.time < v9[r])
      BY <1>3, <2>5
    <3> QED BY <1>3, <2>11, <3>1
  <2>15. v4' \in [Feed!RESOLUTIONS -> Nat] /\ v9' = v4'
    BY <1>3, <2>3, <2>11
  <2>16. \A q \in Feed!RESOLUTIONS : v4'[q] = 0 \/ v4'[q] <= v5'.time
    <3> TAKE q \in Feed!RESOLUTIONS
    <3>1. v5'.time \in Int
      BY <2>12
    <3>2. v4'[q] = v4[q] \/ v4'[q] = b.time
      BY <1>3, <2>11
    <3>3. v4[q] \in Nat /\ (v4[q] = 0 \/ v4[q] <= v5.time)
      BY <1>3
    <3> QED BY <1>3, <2>3, <2>12, <3>1, <3>2, <3>3
  <2> QED BY <1>1, <1>2, <2>12, <2>13, <2>14, <2>15, <2>16 DEF Feed!Typed, Feed!InStep
<1> QED BY <1>4, <1>5

(* A read that is asked is of a range that has not come to an end below 0. *)
LEMMA AskedIsARead ==
    ASSUME Feed!Typed, NEW kind \in {"open", "back", "live"}, NEW from \in Nat, NEW to \in Nat,
           Feed!Ask(kind, v2, from, to)
    PROVE  v6' \subseteq Feed!Read
<1>1. [kind |-> kind, resolution |-> v2, from |-> from, to |-> to, asked |-> v1, attempt |-> 1]
          \in Feed!Read
  BY DEF Feed!Typed, Feed!Read
<1> QED BY <1>1 DEF Feed!Ask, Feed!Typed

(* Every step of the datafeed keeps the price within a bar. *)
LEMMA FeedSteps ==
    ASSUME Feed!Typed, Feed!InStep, Feed!Next
    PROVE  Feed!Typed' /\ Feed!InStep'
<1>1. v1 \in Nat /\ v2 \in Feed!RESOLUTIONS /\ Feed!RESOLUTIONS = DOMAIN PERIODS
      /\ PERIODS[v2] \in Nat \ {0}
  BY FeedGround DEF Feed!Typed, Feed!RESOLUTIONS
<1>2. ASSUME v1' \in Nat, v2' \in Feed!RESOLUTIONS, v6' \subseteq Feed!Read,
             UNCHANGED <<v4, v5, v9, v10, v11>>
      PROVE  Feed!Typed' /\ Feed!InStep'
  BY <1>2 DEF Feed!Typed, Feed!InStep
<1>3. CASE Feed!Tick
  BY <1>1, <1>2, <1>3 DEF Feed!Tick, Feed!Typed
<1>4. CASE Feed!AskHistory
  <2>1. Feed!AtLeast0(v1 - 4 * PERIODS[v2]) \in Nat
    BY <1>1 DEF Feed!AtLeast0
  <2>2. v6' \subseteq Feed!Read
    BY <1>1, <1>4, <2>1, AskedIsARead DEF Feed!AskHistory
  <2> QED BY <1>1, <1>2, <1>4, <2>2 DEF Feed!AskHistory
<1>5. CASE Feed!AskFurtherBack
  <2>1. Feed!Begins(v1, PERIODS[v2]) \in Int
    BY <1>1 DEF Feed!Begins
  <2>2. PICK edge \in Int : edge > 0 /\ Feed!Ask("back", v2, 0, edge - 1)
    BY <1>5, <2>1 DEF Feed!AskFurtherBack
  <2>3. v6' \subseteq Feed!Read
    BY <2>2, AskedIsARead
  <2> QED BY <1>1, <1>2, <1>5, <2>3 DEF Feed!AskFurtherBack
<1>6. CASE Feed!Poll
  <2>1. Feed!Begins(v1, PERIODS[v2]) \in Int
    BY <1>1 DEF Feed!Begins
  <2>2. PICK edge \in Int : edge = Feed!Begins(v1, PERIODS[v2])
    BY <2>1
  <2>3. Feed!AtLeast0(edge - 2 * PERIODS[v2]) \in Nat
    BY <1>1 DEF Feed!AtLeast0
  <2>4. v6' \subseteq Feed!Read
    BY <1>1, <1>6, <2>2, <2>3, AskedIsARead DEF Feed!Poll
  <2> QED BY <1>1, <1>2, <1>6, <2>4 DEF Feed!Poll
<1>7. ASSUME NEW read \in v6, NEW moment \in read.asked..v1,
             Feed!TakeHistory(read, moment) \/ Feed!TakeLive(read, moment)
      PROVE  Feed!Typed' /\ Feed!InStep'
  <2>1. read.asked \in Nat
    BY DEF Feed!Typed, Feed!Read
  <2>2. moment \in Nat
    BY <1>1, <2>1
  <2> QED BY <1>7, <2>2, HistoryKeeps, LiveKeeps
<1>8. ASSUME NEW read \in v6, Feed!HistoryFails(read) \/ Feed!LiveFails(read)
      PROVE  Feed!Typed' /\ Feed!InStep'
  <2>1. [read EXCEPT !.attempt = read.attempt + 1, !.asked = v1] \in Feed!Read
    <3>1. read \in Feed!Read
      BY DEF Feed!Typed
    <3>2. PICK again \in Nat : again = read.attempt + 1
      BY <3>1 DEF Feed!Read
    <3>3. [read EXCEPT !.attempt = again, !.asked = v1] \in Feed!Read
      BY <1>1, <3>1 DEF Feed!Read
    <3> QED BY <3>2, <3>3
  <2>2. v6' \subseteq Feed!Read
    BY <1>8, <2>1 DEF Feed!HistoryFails, Feed!LiveFails, Feed!Typed
  <2> QED BY <1>1, <1>2, <1>8, <2>2 DEF Feed!HistoryFails, Feed!LiveFails
<1>9. ASSUME NEW r \in Feed!RESOLUTIONS, Feed!SetResolution(r)
      PROVE  Feed!Typed' /\ Feed!InStep'
  BY <1>1, <1>2, <1>9 DEF Feed!SetResolution, Feed!Typed
<1> QED BY <1>3, <1>4, <1>5, <1>6, <1>7, <1>8, <1>9 DEF Feed!Next

(* tv.js, the datafeed: for all resolutions, however polls, histories and  *)
(* changes of resolution cross, the price told lags what the page has been *)
(* told of by less than a bar of some resolution, and the library is never *)
(* given a bar that it refuses.                                            *)
THEOREM ThePriceIsWithinABar == ScreensSpec => []PriceIsWithinABar
<1> DEFINE Kept == screen = "feed" => Feed!Typed /\ Feed!InStep
<1>1. ScreensInit => Kept
  <2> SUFFICES ASSUME ScreensInit, screen = "feed" PROVE Feed!Typed /\ Feed!InStep
    OBVIOUS
  <2>1. Feed!Init
    BY DEF ScreensInit, From1, From8, From9, From12
  <2>2. v5 = [time |-> -1, close |-> -1] /\ v11 = -1 /\ v6 = {} /\ v1 = 0
    BY <2>1 DEF Feed!Init, Feed!NoBar
  <2>3. v4 = [r \in Feed!RESOLUTIONS |-> 0] /\ v9 = v4
    BY <2>1 DEF Feed!Init
  <2>4. v2 \in Feed!RESOLUTIONS /\ PERIODS[v2] \in Nat \ {0}
    BY <2>1, FeedGround DEF Feed!Init, Feed!RESOLUTIONS
  <2>5. Feed!Typed
    BY <2>2, <2>3, <2>4 DEF Feed!Typed
  <2>6. v11 < v5.time + PERIODS[v2]
    BY <2>2, <2>4
  <2>7. ~v10
    BY <2>1 DEF Feed!Init
  <2> QED BY <2>2, <2>3, <2>4, <2>5, <2>6, <2>7 DEF Feed!InStep
<1>2. Kept /\ [ScreensNext]_<<screen, slots, vars>> => Kept'
  <2> SUFFICES ASSUME Kept, [ScreensNext]_<<screen, slots, vars>>, screen' = "feed"
               PROVE  Feed!Typed' /\ Feed!InStep'
    OBVIOUS
  <2>1. CASE Feed!Next
    BY <2>1, AScreenSteps, FeedSteps
  <2>2. CASE UNCHANGED slots
    BY <2>2, AScreenSteps DEF slots, Feed!Typed, Feed!InStep
  <2> QED BY <2>1, <2>2, AScreenSteps
<1>3. Kept => PriceIsWithinABar
  <2> SUFFICES ASSUME Kept, screen = "feed"
               PROVE  Feed!PriceIsWithinABar
    BY DEF PriceIsWithinABar
  <2>1. v5.time \in Int /\ v5.close \in Int /\ v11 \in Int /\ v5.time <= v5.close /\ ~v10
    BY DEF Feed!Typed, Feed!InStep
  <2>2. PICK r \in Feed!RESOLUTIONS : v11 < v5.time + PERIODS[r]
    BY DEF Feed!InStep
  <2>3. PERIODS[r] \in Nat
    BY FeedGround DEF Feed!RESOLUTIONS
  <2>4. v11 - v5.close < PERIODS[r]
    BY <2>1, <2>2, <2>3
  <2> QED BY <2>1, <2>4 DEF Feed!PriceIsWithinABar
<1> QED BY <1>1, <1>2, <1>3, PTL DEF ScreensSpec


-----------------------------------------------------------------------------
(* Rows in sequence.  FlattenSeq is a function defined by recursion over   *)
(* the places of its argument; that it exists, and that it is the sequence *)
(* that grows by one more element at a time, is by induction.              *)

(* Induction over the natural numbers, for a set instead of a predicate. *)
LEMMA Induct ==
    ASSUME NEW N, 0 \in N, \A n \in Nat : n \in N => n + 1 \in N
    PROVE  \A n \in Nat : n \in N
<1> SUFFICES ASSUME Nat \ N # {} PROVE FALSE
  OBVIOUS
<1>1. IsWellFoundedOn(OpToRel(<, Nat), Nat)
  BY NatLessThanWellFounded
<1>2. PICK m \in Nat \ N : \A y \in Nat \ N : ~ (<<y, m>> \in OpToRel(<, Nat))
  BY <1>1, WFMin
<1>3. \A y \in Nat \ N : ~ (y < m)
  BY <1>2 DEF OpToRel
<1>4. m - 1 \in Nat
  OBVIOUS
<1>5. m - 1 \in N /\ (m - 1) + 1 = m
  BY <1>3, <1>4
<1>6. m \in N
  BY <1>4, <1>5
<1> QED BY <1>6

(* A row is a line of a round trip. *)
Row == Nat \X {"trip", "close", "open"}

(* g flattens the first n of some sequences of rows. *)
Flattens(blocks, n, g) ==
    g = [i \in 1..n |-> IF i = 1 THEN blocks[i] ELSE g[i - 1] \o blocks[i]]

(* FlattenSeq, as the last value of one of these. *)
LEMMA FlattenIs ==
    ASSUME NEW blocks, Len(blocks) # 0
    PROVE  History!FlattenSeq(blocks) =
               (CHOOSE g : Flattens(blocks, Len(blocks), g))[Len(blocks)]
BY DEF History!FlattenSeq, Flattens

(* There is such a g, and its values are sequences of rows.                *)
LEMMA FlattenExists ==
    ASSUME NEW blocks, NEW m \in Nat, \A i \in 1..m : blocks[i] \in Seq(Row)
    PROVE  \E g : Flattens(blocks, m, g) /\ \A i \in 1..m : g[i] \in Seq(Row)
<1> DEFINE N == {n \in Nat : n <= m =>
                    \E g : Flattens(blocks, n, g) /\ \A i \in 1..n : g[i] \in Seq(Row)}
<1>1. 0 \in N
  <2> DEFINE g == [i \in 1..0 |-> 0]
  <2>1. g = [i \in 1..0 |-> IF i = 1 THEN blocks[i] ELSE g[i - 1] \o blocks[i]]
    OBVIOUS
  <2> HIDE DEF g
  <2>2. Flattens(blocks, 0, g)
    BY <2>1 DEF Flattens
  <2>3. \A i \in 1..0 : g[i] \in Seq(Row)
    OBVIOUS
  <2> QED BY <2>2, <2>3
<1>2. ASSUME NEW n \in Nat, n \in N PROVE n + 1 \in N
  <2> SUFFICES ASSUME n + 1 <= m
               PROVE  \E g : Flattens(blocks, n + 1, g) /\ \A i \in 1..(n + 1) : g[i] \in Seq(Row)
    OBVIOUS
  <2>1. PICK h : Flattens(blocks, n, h) /\ \A i \in 1..n : h[i] \in Seq(Row)
    BY <1>2
  <2> DEFINE last == IF n = 0 THEN blocks[1] ELSE h[n] \o blocks[n + 1]
             g == [i \in 1..(n + 1) |-> IF i <= n THEN h[i] ELSE last]
  <2>2. last \in Seq(Row)
    <3>1. blocks[n + 1] \in Seq(Row)
      OBVIOUS
    <3>2. n # 0 => h[n] \in Seq(Row)
      BY <2>1
    <3> QED BY <3>1, <3>2, ConcatProperties
  <2>3. \A i \in 1..n : h[i] = IF i = 1 THEN blocks[i] ELSE h[i - 1] \o blocks[i]
    BY <2>1 DEF Flattens
  <2>4. \A i \in 1..(n + 1) : g[i] = IF i = 1 THEN blocks[i] ELSE g[i - 1] \o blocks[i]
    <3> TAKE i \in 1..(n + 1)
    <3>1. CASE i <= n
      <4>1. i \in 1..n /\ g[i] = h[i] /\ (i # 1 => g[i - 1] = h[i - 1])
        BY <3>1
      <4> HIDE DEF g
      <4> QED BY <2>3, <4>1
    <3>2. CASE i = n + 1
      <4>1. g[i] = last /\ (n # 0 => g[i - 1] = h[n])
        BY <3>2
      <4>2. (i = 1 <=> n = 0)
        BY <3>2
      <4> HIDE DEF g
      <4> QED BY <3>2, <4>1, <4>2
    <3> QED BY <3>1, <3>2
  <2>5. \A i \in 1..(n + 1) : g[i] \in Seq(Row)
    <3> HIDE DEF last
    <3> QED BY <2>1, <2>2
  <2>6. Flattens(blocks, n + 1, g)
    <3> DEFINE r == [i \in 1..(n + 1) |-> IF i = 1 THEN blocks[i] ELSE g[i - 1] \o blocks[i]]
    <3>1. DOMAIN g = 1..(n + 1) /\ g = [i \in 1..(n + 1) |-> g[i]]
      OBVIOUS
    <3> HIDE DEF g
    <3>2. g = r
      BY <2>4, <3>1
    <3> QED BY <3>2 DEF Flattens
  <2> HIDE DEF g
  <2> QED BY <2>5, <2>6
<1> HIDE DEF N
<1>3. \A n \in Nat : n \in N
  BY <1>1, <1>2, Induct
<1>4. m \in N
  BY <1>3
<1> QED BY <1>4 DEF N

(* Two of them agree as far as both go. *)
LEMMA FlattensAgree ==
    ASSUME NEW blocks, NEW more, NEW m \in Nat, NEW n \in Nat, m <= n,
           \A i \in 1..m : blocks[i] = more[i],
           NEW g, Flattens(blocks, m, g), NEW h, Flattens(more, n, h)
    PROVE  \A i \in 1..m : g[i] = h[i]
<1> DEFINE N == {i \in Nat : i \in 1..m => g[i] = h[i]}
<1>1. 0 \in N
  OBVIOUS
<1>2. ASSUME NEW i \in Nat, i \in N PROVE i + 1 \in N
  <2> SUFFICES ASSUME i + 1 \in 1..m PROVE g[i + 1] = h[i + 1]
    OBVIOUS
  <2>1. g[i + 1] = IF i + 1 = 1 THEN blocks[i + 1] ELSE g[(i + 1) - 1] \o blocks[i + 1]
    BY DEF Flattens
  <2>2. i + 1 \in 1..n /\ blocks[i + 1] = more[i + 1]
    OBVIOUS
  <2>3. h[i + 1] = IF i + 1 = 1 THEN more[i + 1] ELSE h[(i + 1) - 1] \o more[i + 1]
    BY <2>2 DEF Flattens
  <2>4. (i + 1) - 1 = i /\ (i # 0 => g[i] = h[i])
    BY <1>2
  <2> QED BY <2>1, <2>2, <2>3, <2>4
<1> HIDE DEF N
<1>3. \A i \in Nat : i \in N
  BY <1>1, <1>2, Induct
<1> QED BY <1>3 DEF N

(* What is flattened grows by its last element. *)
LEMMA FlattenGrows ==
    ASSUME NEW n \in Nat, NEW blocks, Len(blocks) = n, NEW more, Len(more) = n + 1,
           \A i \in 1..n : blocks[i] = more[i], \A i \in 1..(n + 1) : more[i] \in Seq(Row),
           n = 0 => blocks = <<>>
    PROVE  /\ History!FlattenSeq(blocks) \in Seq(Row)
           /\ History!FlattenSeq(more) = History!FlattenSeq(blocks) \o more[n + 1]
<1> DEFINE g == CHOOSE g : Flattens(blocks, n, g)
           h == CHOOSE h : Flattens(more, n + 1, h)
<1>1. \A i \in 1..n : blocks[i] \in Seq(Row)
  OBVIOUS
<1>2. PICK g0 : Flattens(blocks, n, g0) /\ \A i \in 1..n : g0[i] \in Seq(Row)
  BY <1>1, FlattenExists
<1>3. \E h0 : Flattens(more, n + 1, h0)
  <2>1. PICK k \in Nat : k = n + 1
    OBVIOUS
  <2>2. \A i \in 1..k : more[i] \in Seq(Row)
    BY <2>1
  <2>3. \E h0 : Flattens(more, k, h0)
    BY ONLY k \in Nat, <2>2, FlattenExists
  <2> QED BY <2>1, <2>3
<1>4. Flattens(blocks, n, g) /\ Flattens(more, n + 1, h)
  <2>1. Flattens(blocks, n, g)
    BY <1>2
  <2>2. Flattens(more, n + 1, h)
    BY <1>3
  <2> QED BY <2>1, <2>2
<1>5. History!FlattenSeq(more) = h[n + 1]
  BY FlattenIs
<1>6. n # 0 => History!FlattenSeq(blocks) = g[n]
  BY FlattenIs
<1> HIDE DEF g, h
<1>7. h[n + 1] = IF n + 1 = 1 THEN more[n + 1] ELSE h[(n + 1) - 1] \o more[n + 1]
  <2>1. n + 1 \in 1..(n + 1)
    OBVIOUS
  <2> QED BY <1>4, <2>1 DEF Flattens
<1>8. CASE n = 0
  <2>1. History!FlattenSeq(blocks) = <<>>
    BY <1>8 DEF History!FlattenSeq
  <2>2. more[n + 1] \in Seq(Row)
    OBVIOUS
  <2>3. <<>> \o more[n + 1] = more[n + 1]
    BY <2>2, ConcatEmptySeq
  <2>4. <<>> \in Seq(Row)
    OBVIOUS
  <2> QED BY <1>5, <1>7, <1>8, <2>1, <2>3, <2>4
<1>9. CASE n # 0
  <2>1. n \in 1..n /\ n <= n + 1 /\ (n + 1) - 1 = n /\ n + 1 # 1
    BY <1>9
  <2>2. g[n] = h[n]
    <3>1. PICK k \in Nat : k = n + 1
      OBVIOUS
    <3>2. Flattens(more, k, h) /\ n <= k
      BY <1>4, <3>1
    <3>3. \A i \in 1..n : blocks[i] = more[i]
      OBVIOUS
    <3>4. \A i \in 1..n : g[i] = h[i]
      BY ONLY n \in Nat, k \in Nat, <1>4, <3>2, <3>3, FlattensAgree
    <3> QED BY <2>1, <3>4
  <2>3. g[n] = g0[n]
    BY <1>2, <1>4, <2>1, FlattensAgree
  <2>4. g[n] \in Seq(Row)
    BY <1>2, <2>1, <2>3
  <2> QED BY <1>5, <1>6, <1>7, <1>9, <2>1, <2>2, <2>4
<1> QED BY <1>8, <1>9

-----------------------------------------------------------------------------
(* The history's rows *)

(* What is assumed of the journals and the page. *)
LEMMA HistoryGround ==
    /\ FirstFilter \in Filters /\ "none" \notin Filters
    /\ \A f \in Filters : Trips[f] \in Nat
    /\ PAGE \in Nat \ {0}
BY ScreensAssumption DEF History!HistoryAssumption

(* A round trip has one row, or two as orders. *)
LEMMA LinesAre ==
    ASSUME NEW f, NEW trip \in Nat
    PROVE  /\ History!Lines(f, trip) \in Seq(Row)
           /\ Len(History!Lines(f, trip)) \in 1..2
           /\ v2 = "positions" => Len(History!Lines(f, trip)) = 1
<1>1. <<trip, "trip">> \in Row /\ <<trip, "close">> \in Row /\ <<trip, "open">> \in Row
  BY DEF Row
<1>2. CASE v2 = "positions"
  <2>1. History!Lines(f, trip) = <<<<trip, "trip">>>>
    BY <1>2 DEF History!Lines
  <2> QED BY <1>1, <2>1
<1>3. CASE v2 # "positions" /\ History!Closed(f, trip)
  <2>1. History!Lines(f, trip) = <<<<trip, "close">>, <<trip, "open">>>>
    BY <1>3 DEF History!Lines
  <2> QED BY <1>1, <1>3, <2>1
<1>4. CASE v2 # "positions" /\ ~History!Closed(f, trip)
  <2>1. History!Lines(f, trip) = <<<<trip, "open">>>>
    BY <1>4 DEF History!Lines
  <2> QED BY <1>1, <1>4, <2>1
<1> QED BY <1>2, <1>3, <1>4

(* No round trips have no rows. *)
LEMMA RowsEmpty == ASSUME NEW f PROVE History!RowsOf(f, <<>>) = <<>>
<1>1. Len(<<>>) = 0
  OBVIOUS
<1>2. [k \in 1..0 |-> History!Lines(f, <<>>[k])] = <<>>
  OBVIOUS
<1>3. History!RowsOf(f, <<>>) = History!FlattenSeq(<<>>)
  BY <1>1, <1>2 DEF History!RowsOf
<1>4. History!FlattenSeq(<<>>) = <<>>
  BY <1>1 DEF History!FlattenSeq
<1> QED BY <1>3, <1>4

(* One more round trip, its lines more. *)
LEMMA RowsAppend ==
    ASSUME NEW f, NEW trips \in Seq(Nat), NEW trip \in Nat
    PROVE  /\ History!RowsOf(f, trips) \in Seq(Row)
           /\ History!RowsOf(f, Append(trips, trip)) =
                  History!RowsOf(f, trips) \o History!Lines(f, trip)
<1> DEFINE n == Len(trips)
           longer == Append(trips, trip)
           blocks == [k \in 1..n |-> History!Lines(f, trips[k])]
           more == [k \in 1..Len(longer) |-> History!Lines(f, longer[k])]
<1>1. /\ n \in Nat /\ Len(longer) = n + 1 /\ longer[n + 1] = trip
      /\ \A k \in 1..n : longer[k] = trips[k] /\ trips[k] \in Nat
  OBVIOUS
<1>2. History!RowsOf(f, trips) = History!FlattenSeq(blocks)
      /\ History!RowsOf(f, longer) = History!FlattenSeq(more)
  BY DEF History!RowsOf
<1>3. Len(blocks) = n /\ (n = 0 => blocks = <<>>)
  BY <1>1
<1>4. Len(more) = n + 1 /\ more[n + 1] = History!Lines(f, trip)
      /\ \A k \in 1..n : blocks[k] = more[k]
  BY <1>1
<1>5. \A k \in 1..(n + 1) : more[k] \in Seq(Row)
  <2> TAKE k \in 1..(n + 1)
  <2>1. longer[k] \in Nat /\ more[k] = History!Lines(f, longer[k])
    BY <1>1
  <2> QED BY <2>1, LinesAre
<1> HIDE DEF n, blocks, more, longer
<1>6. /\ History!FlattenSeq(blocks) \in Seq(Row)
      /\ History!FlattenSeq(more) = History!FlattenSeq(blocks) \o more[n + 1]
  <2>1. n \in Nat /\ Len(more) = n + 1 /\ \A k \in 1..n : blocks[k] = more[k]
    BY <1>1, <1>4
  <2> QED BY ONLY <1>3, <1>5, <2>1, FlattenGrows
<1> QED BY <1>2, <1>4, <1>6 DEF longer

(* The rows of round trips are sequences of rows, at least one each. *)
LEMMA RowsAre ==
    ASSUME NEW f
    PROVE  \A trips \in Seq(Nat) :
              /\ History!RowsOf(f, trips) \in Seq(Row)
              /\ Len(History!RowsOf(f, trips)) \in Nat
              /\ Len(History!RowsOf(f, trips)) >= Len(trips)
              /\ v2 = "positions" => Len(History!RowsOf(f, trips)) = Len(trips)
<1> DEFINE Is(trips) ==
              /\ History!RowsOf(f, trips) \in Seq(Row)
              /\ Len(History!RowsOf(f, trips)) \in Nat
              /\ Len(History!RowsOf(f, trips)) >= Len(trips)
              /\ v2 = "positions" => Len(History!RowsOf(f, trips)) = Len(trips)
           N == {n \in Nat : \A trips \in Seq(Nat) : Len(trips) = n => Is(trips)}
<1>1. 0 \in N
  <2> SUFFICES ASSUME NEW trips \in Seq(Nat), Len(trips) = 0 PROVE Is(trips)
    OBVIOUS
  <2>1. trips = <<>> /\ <<>> \in Seq(Row) /\ Len(<<>>) = 0
    OBVIOUS
  <2>2. History!RowsOf(f, trips) = <<>>
    BY <2>1, RowsEmpty
  <2>3. Len(History!RowsOf(f, trips)) = 0
    BY <2>2
  <2>4. Len(trips) = 0 /\ History!RowsOf(f, trips) \in Seq(Row)
    BY <2>1, <2>2
  <2> QED BY ONLY <2>3, <2>4
<1>2. ASSUME NEW n \in Nat, n \in N PROVE n + 1 \in N
  <2> SUFFICES ASSUME NEW trips \in Seq(Nat), Len(trips) = n + 1 PROVE Is(trips)
    OBVIOUS
  <2>1. trips # <<>>
    OBVIOUS
  <2>2. PICK front \in Seq(Nat), trip \in Nat : trips = Append(front, trip)
    BY <2>1, SequenceEmptyOrAppend
  <2>3. Len(front) = n /\ Len(front) \in Nat
    BY <2>2
  <2>4. Is(front)
    BY <1>2, <2>3
  <2>5. History!RowsOf(f, trips) = History!RowsOf(f, front) \o History!Lines(f, trip)
    BY <2>2, RowsAppend
  <2>6. /\ History!Lines(f, trip) \in Seq(Row) /\ Len(History!Lines(f, trip)) \in 1..2
        /\ v2 = "positions" => Len(History!Lines(f, trip)) = 1
    BY LinesAre
  <2>7. PICK rows \in Seq(Row) : rows = History!RowsOf(f, front) /\ Len(rows) \in Nat
    BY <2>4
  <2>8. PICK lines \in Seq(Row) : lines = History!Lines(f, trip)
    BY <2>6
  <2>9. rows \o lines \in Seq(Row) /\ Len(rows \o lines) = Len(rows) + Len(lines)
    BY ConcatProperties
  <2>10. /\ Len(rows) >= n /\ Len(lines) \in 1..2
         /\ v2 = "positions" => Len(rows) = n /\ Len(lines) = 1
    BY <2>3, <2>4, <2>6, <2>7, <2>8
  <2>11. History!RowsOf(f, trips) = rows \o lines
    BY <2>5, <2>7, <2>8
  <2>12. PICK all \in Seq(Row) : all = rows \o lines /\ Len(all) = Len(rows) + Len(lines)
    BY <2>9
  <2>13. History!RowsOf(f, trips) = all
    BY <2>11, <2>12
  <2>14. Len(all) \in Nat /\ Len(all) >= n + 1 /\ (v2 = "positions" => Len(all) = n + 1)
    <3>1. PICK x \in Nat, y \in 1..2 : x = Len(rows) /\ y = Len(lines)
      BY <2>7, <2>10
    <3>2. Len(all) = x + y /\ x >= n /\ (v2 = "positions" => x = n /\ y = 1)
      BY <2>10, <2>12, <3>1
    <3> QED BY ONLY n \in Nat, x \in Nat, y \in 1..2, <3>2
  <2> QED BY <2>13, <2>14
<1> HIDE DEF N
<1>3. \A n \in Nat : n \in N
  BY <1>1, <1>2, Induct
<1> SUFFICES ASSUME NEW trips \in Seq(Nat) PROVE Is(trips)
  OBVIOUS
<1>4. Len(trips) \in N
  BY <1>3
<1> QED BY <1>4 DEF N

(* Rows put behind one another, in whichever order. *)
LEMMA RowsAssociate ==
    ASSUME NEW a \in Seq(Row), NEW b \in Seq(Row), NEW c \in Seq(Row)
    PROVE  (a \o b) \o c = a \o (b \o c)
BY ConcatAssociative

(* The rows of some round trips and of others are the rows of them all. *)
LEMMA RowsConcat ==
    ASSUME NEW f, NEW s \in Seq(Nat)
    PROVE  \A t \in Seq(Nat) :
              History!RowsOf(f, s \o t) = History!RowsOf(f, s) \o History!RowsOf(f, t)
<1> DEFINE Is(t) == History!RowsOf(f, s \o t) = History!RowsOf(f, s) \o History!RowsOf(f, t)
           N == {n \in Nat : \A t \in Seq(Nat) : Len(t) = n => Is(t)}
<1>1. 0 \in N
  <2> SUFFICES ASSUME NEW t \in Seq(Nat), Len(t) = 0 PROVE Is(t)
    OBVIOUS
  <2>1. t = <<>> /\ s \o <<>> = s
    BY ConcatEmptySeq
  <2>2. History!RowsOf(f, s) \in Seq(Row)
    BY RowsAre
  <2>3. History!RowsOf(f, s) \o <<>> = History!RowsOf(f, s)
    BY <2>2, ConcatEmptySeq
  <2> QED BY <2>1, <2>3, RowsEmpty
<1>2. ASSUME NEW n \in Nat, n \in N PROVE n + 1 \in N
  <2> SUFFICES ASSUME NEW t \in Seq(Nat), Len(t) = n + 1 PROVE Is(t)
    OBVIOUS
  <2>1. t # <<>>
    OBVIOUS
  <2>2. PICK front \in Seq(Nat), trip \in Nat : t = Append(front, trip)
    BY <2>1, SequenceEmptyOrAppend
  <2>3. Len(front) = n /\ s \o front \in Seq(Nat)
    BY <2>2
  <2>4. s \o t = Append(s \o front, trip)
    <3>1. <<trip>> \in Seq(Nat)
      OBVIOUS
    <3>2. t = front \o <<trip>> /\ Append(s \o front, trip) = (s \o front) \o <<trip>>
      BY <2>2, <2>3, AppendIsConcat
    <3> QED BY <3>1, <3>2, ConcatAssociative
  <2>5. History!RowsOf(f, s \o t) = History!RowsOf(f, s \o front) \o History!Lines(f, trip)
    BY <2>3, <2>4, RowsAppend
  <2>6. History!RowsOf(f, s \o front) = History!RowsOf(f, s) \o History!RowsOf(f, front)
    BY <1>2, <2>3
  <2>7. History!RowsOf(f, t) = History!RowsOf(f, front) \o History!Lines(f, trip)
    BY <2>2, RowsAppend
  <2>8. /\ History!RowsOf(f, s) \in Seq(Row) /\ History!RowsOf(f, front) \in Seq(Row)
        /\ History!Lines(f, trip) \in Seq(Row)
    BY RowsAre, LinesAre
  <2>9. PICK a \in Seq(Row), b \in Seq(Row), c \in Seq(Row) :
             /\ a = History!RowsOf(f, s) /\ b = History!RowsOf(f, front)
             /\ c = History!Lines(f, trip)
    BY <2>8
  <2>10. (a \o b) \o c = a \o (b \o c)
    BY RowsAssociate
  <2> QED BY <2>5, <2>6, <2>7, <2>9, <2>10
<1> HIDE DEF N
<1>3. \A n \in Nat : n \in N
  BY <1>1, <1>2, Induct
<1> SUFFICES ASSUME NEW t \in Seq(Nat) PROVE Is(t)
  OBVIOUS
<1>4. Len(t) \in N
  BY <1>3
<1> QED BY <1>4 DEF N

(* The middle of three sequences put together. *)
LEMMA Middle ==
    ASSUME NEW a \in Seq(Row), NEW b \in Seq(Row), NEW c \in Seq(Row)
    PROVE  SubSeq((a \o b) \o c, Len(a) + 1, Len(a) + Len(b)) = b
<1> DEFINE all == (a \o b) \o c
           x == Len(a)
           y == Len(b)
<1>1. /\ x \in Nat /\ y \in Nat /\ Len(c) \in Nat /\ all \in Seq(Row)
      /\ a \o b \in Seq(Row) /\ Len(a \o b) = x + y
      /\ Len(all) = x + y + Len(c)
  OBVIOUS
<1>2. \A i \in 1..y : all[x + i] = b[i]
  <2> TAKE i \in 1..y
  <2>1. x + i \in 1..(x + y) /\ x + i \in 1..(x + y + Len(c))
    BY <1>1
  <2>2. all[x + i] = (a \o b)[x + i]
    BY <1>1, <2>1, ConcatProperties
  <2>3. (a \o b)[x + i] = b[(x + i) - x]
    BY <1>1, <2>1, ConcatProperties
  <2> QED BY <1>1, <2>2, <2>3
<1>3. \A i \in (x + 1)..(x + y) : all[i] \in Row
  BY <1>1
<1> HIDE DEF all, x, y
<1>4. /\ SubSeq(all, x + 1, x + y) \in Seq(Row)
      /\ Len(SubSeq(all, x + 1, x + y)) = y
      /\ \A i \in 1..y : SubSeq(all, x + 1, x + y)[i] = all[x + i]
  <2>1. /\ SubSeq(all, x + 1, x + y) \in Seq(Row)
        /\ Len(SubSeq(all, x + 1, x + y)) =
              IF x + 1 <= x + y THEN (x + y) - (x + 1) + 1 ELSE 0
        /\ \A i \in 1..((x + y) - (x + 1) + 1) :
              SubSeq(all, x + 1, x + y)[i] = all[(x + 1) + i - 1]
    BY <1>1, <1>3, SubSeqProperties
  <2>2. (x + y) - (x + 1) + 1 = y /\ (x + 1 <= x + y <=> y # 0)
        /\ \A i \in 1..y : (x + 1) + i - 1 = x + i
    BY <1>1
  <2> QED BY <1>1, <2>1, <2>2
<1>5. Len(b) = y
  BY DEF y
<1>6. SubSeq(all, x + 1, x + y) = b
  BY <1>2, <1>4, <1>5, SeqEqual
<1> QED BY <1>6 DEF all, x, y

(* The round trips from one to another have the rows from the first row of *)
(* the one to the last of the other, at least one each.                    *)
LEMMA RowsBetween ==
    ASSUME v3.trips \in Seq(Nat), NEW j \in 1..(Len(v3.trips) + 1),
           NEW k \in j..(Len(v3.trips) + 1)
    PROVE  /\ History!Before(j) \in Nat /\ History!Before(k) \in Nat
           /\ History!Before(k) >= History!Before(j) + (k - j)
           /\ v2 = "positions" => History!Before(k) = k - 1
           /\ SubSeq(v3.trips, j, k - 1) \in Seq(Nat)
           /\ History!RowsOf(v3.of, SubSeq(v3.trips, j, k - 1)) =
                  SubSeq(History!Rows, History!Before(j) + 1, History!Before(k))
           /\ Len(History!RowsOf(v3.of, SubSeq(v3.trips, j, k - 1))) =
                  History!Before(k) - History!Before(j)
<1>0. PICK f : f = v3.of
  OBVIOUS
<1>1. PICK trips \in Seq(Nat), n \in Nat : trips = v3.trips /\ n = Len(trips)
  OBVIOUS
<1> DEFINE pre == SubSeq(trips, 1, j - 1)
           mid == SubSeq(trips, j, k - 1)
           post == SubSeq(trips, k, n)
           upto == SubSeq(trips, 1, k - 1)
<1>2. j \in 1..(n + 1) /\ k \in j..(n + 1) /\ j - 1 \in 0..n /\ k - 1 \in (j - 1)..n
  BY <1>1
<1>3. \A i \in 1..n : trips[i] \in Nat
  BY <1>1
<1>4. /\ pre \in Seq(Nat) /\ mid \in Seq(Nat) /\ post \in Seq(Nat) /\ upto \in Seq(Nat)
      /\ Len(mid) = k - j /\ Len(upto) = k - 1
  <2>1. pre \in Seq(Nat)
    BY <1>2, <1>3, SubSeqProperties
  <2>2. mid \in Seq(Nat) /\ Len(mid) = IF j <= k - 1 THEN (k - 1) - j + 1 ELSE 0
    BY <1>2, <1>3, SubSeqProperties
  <2>3. post \in Seq(Nat)
    BY <1>2, <1>3, SubSeqProperties
  <2>4. upto \in Seq(Nat) /\ Len(upto) = IF 1 <= k - 1 THEN (k - 1) - 1 + 1 ELSE 0
    BY <1>2, <1>3, SubSeqProperties
  <2>5. j \in Nat /\ k \in Nat /\ j <= k /\ 1 <= k
    BY <1>2
  <2> HIDE DEF pre, mid, post, upto
  <2> QED BY <2>1, <2>2, <2>3, <2>4, <2>5
<1>5. upto = pre \o mid
  <2>1. /\ 1 \in 1..(Len(trips) + 1) /\ j - 1 \in (1 - 1)..Len(trips)
        /\ k - 1 \in (j - 1)..Len(trips) /\ (j - 1) + 1 = j
    BY <1>1, <1>2
  <2>2. SubSeq(trips, 1, j - 1) \o SubSeq(trips, (j - 1) + 1, k - 1) = SubSeq(trips, 1, k - 1)
    BY <2>1, ConcatAdjacentSubSeq
  <2> QED BY <2>1, <2>2
<1>6. trips = upto \o post
  <2>1. /\ 1 \in 1..(Len(trips) + 1) /\ k - 1 \in (1 - 1)..Len(trips)
        /\ n \in (k - 1)..Len(trips) /\ (k - 1) + 1 = k
    BY <1>1, <1>2
  <2>2. SubSeq(trips, 1, k - 1) \o SubSeq(trips, (k - 1) + 1, n) = SubSeq(trips, 1, n)
    BY <2>1, ConcatAdjacentSubSeq
  <2>3. SubSeq(trips, 1, n) = trips
    BY <1>1, SubSeqFull
  <2> QED BY <2>1, <2>2, <2>3
<1> HIDE DEF pre, mid, post, upto
<1>7. PICK a \in Seq(Row), b \in Seq(Row), c \in Seq(Row) :
         /\ a = History!RowsOf(f, pre) /\ b = History!RowsOf(f, mid)
         /\ c = History!RowsOf(f, post)
  BY <1>4, RowsAre
<1>8. /\ Len(a) \in Nat /\ Len(b) \in Nat /\ Len(b) >= k - j
      /\ v2 = "positions" => Len(a \o b) = k - 1
  <2>1. Len(b) >= Len(mid)
    BY <1>4, <1>7, RowsAre
  <2>2. History!RowsOf(f, upto) = a \o b
    BY <1>4, <1>5, <1>7, RowsConcat
  <2>3. v2 = "positions" => Len(a \o b) = Len(upto)
    BY <1>4, <2>2, RowsAre
  <2>4. Len(a) \in Nat /\ Len(b) \in Nat
    OBVIOUS
  <2> QED BY <1>4, <2>1, <2>3, <2>4
<1>9. /\ History!RowsOf(f, upto) = a \o b
      /\ History!RowsOf(f, trips) = (a \o b) \o c
  <2>1. History!RowsOf(f, upto) = a \o b
    BY <1>4, <1>5, <1>7, RowsConcat
  <2>2. History!RowsOf(f, upto \o post) = (a \o b) \o c
    BY <1>4, <1>7, <2>1, RowsConcat
  <2> QED BY <1>6, <2>1, <2>2
<1>10. History!Before(j) = Len(a) /\ History!Before(k) = Len(a \o b)
       /\ History!Rows = (a \o b) \o c
  BY <1>0, <1>1, <1>7, <1>9 DEF History!Before, History!Rows, pre, upto
<1>11. Len(a \o b) = Len(a) + Len(b)
  OBVIOUS
<1>12. SubSeq((a \o b) \o c, Len(a) + 1, Len(a) + Len(b)) = b
  BY Middle
<1>13. /\ History!Before(j) = Len(a) /\ History!Before(k) = Len(a) + Len(b)
       /\ SubSeq(History!Rows, History!Before(j) + 1, History!Before(k)) = b
       /\ History!RowsOf(v3.of, SubSeq(v3.trips, j, k - 1)) = b
       /\ SubSeq(v3.trips, j, k - 1) \in Seq(Nat)
  <2>1. SubSeq(v3.trips, j, k - 1) = mid /\ v3.of = f
    BY <1>0, <1>1 DEF mid
  <2> QED BY <1>4, <1>7, <1>10, <1>11, <1>12, <2>1
<1>14. j \in Nat /\ k \in Nat
  BY <1>2
<1>15. PICK x \in Nat, y \in Nat : x = Len(a) /\ y = Len(b)
  BY <1>8
<1>16. /\ x \in Nat /\ x + y \in Nat /\ x + y >= x + (k - j)
       /\ v2 = "positions" => x + y = k - 1
       /\ y = (x + y) - x
  <2>1. y >= k - j /\ (v2 = "positions" => x + y = k - 1)
    BY <1>8, <1>11, <1>15
  <2> QED BY ONLY j \in Nat, k \in Nat, x \in Nat, y \in Nat, <1>14, <2>1
<1> QED BY <1>13, <1>15, <1>16

(* The rows before each round trip, as the numbers they are. *)
LEMMA BeforeIs ==
    ASSUME v3.trips \in Seq(Nat)
    PROVE  /\ Len(v3.trips) \in Nat /\ History!total \in Nat
           /\ History!Rows \in Seq(Row) /\ Len(History!Rows) = History!total
           /\ History!Before(1) = 0 /\ History!Before(Len(v3.trips) + 1) = History!total
           /\ \A j \in 1..(Len(v3.trips) + 1) :
                 /\ History!Before(j) \in Nat
                 /\ v2 = "positions" => History!Before(j) = j - 1
                 /\ \A k \in j..(Len(v3.trips) + 1) :
                       History!Before(k) >= History!Before(j) + (k - j)
<1>1. Len(v3.trips) \in Nat
  OBVIOUS
<1>2. History!Rows \in Seq(Row) /\ Len(History!Rows) = History!total /\ History!total \in Nat
  BY RowsAre DEF History!Rows, History!total
<1>3. History!Before(1) = 0
  <2>1. SubSeq(v3.trips, 1, 0) = <<>>
    BY SubSeqEmpty
  <2>2. 1 - 1 = 0 /\ Len(<<>>) = 0
    OBVIOUS
  <2>3. History!RowsOf(v3.of, <<>>) = <<>>
    BY RowsEmpty
  <2>4. History!Before(1) = Len(History!RowsOf(v3.of, SubSeq(v3.trips, 1, 1 - 1)))
    BY DEF History!Before
  <2> QED BY <2>1, <2>2, <2>3, <2>4
<1>4. History!Before(Len(v3.trips) + 1) = History!total
  <2>1. SubSeq(v3.trips, 1, Len(v3.trips)) = v3.trips
    BY SubSeqFull
  <2>2. (Len(v3.trips) + 1) - 1 = Len(v3.trips)
    BY <1>1
  <2> QED BY <2>1, <2>2 DEF History!Before, History!total
<1>5. ASSUME NEW j \in 1..(Len(v3.trips) + 1)
      PROVE  /\ History!Before(j) \in Nat
             /\ v2 = "positions" => History!Before(j) = j - 1
             /\ \A k \in j..(Len(v3.trips) + 1) :
                   History!Before(k) >= History!Before(j) + (k - j)
  <2>1. j \in j..(Len(v3.trips) + 1)
    BY <1>1
  <2>2. History!Before(j) \in Nat /\ (v2 = "positions" => History!Before(j) = j - 1)
    BY <2>1, RowsBetween
  <2>3. \A k \in j..(Len(v3.trips) + 1) : History!Before(k) >= History!Before(j) + (k - j)
    BY RowsBetween
  <2> QED BY <2>2, <2>3
<1> QED BY <1>1, <1>2, <1>3, <1>4, <1>5

(* A row of numbers that rises at every place, and the places whose step   *)
(* runs into a band.                                                       *)
Rises(b, n) ==
    b[1] = 0 /\ \A j \in 1..(n + 1) : b[j] \in Nat /\ \A k \in j..(n + 1) : b[k] >= b[j] + (k - j)

Into(b, n, lo, hi) == {k \in 1..n : b[k + 1] > lo /\ b[k] < hi}

FromTo(b, n, lo, hi, S, e, m) ==
    /\ e \in S /\ \A j \in S : e <= j
    /\ m \in S /\ \A j \in S : j <= m
    /\ e <= m
    /\ b[e] <= lo /\ lo < b[e + 1] /\ b[m] < hi /\ (m = n \/ hi <= b[m + 1])

(* They are all the places from the first of them to the last. *)
LEMMA Band ==
    ASSUME NEW n \in Nat, NEW b, NEW lo \in Nat, NEW hi \in Nat, lo < hi, Rises(b, n)
    PROVE  /\ b[n + 1] <= lo => Into(b, n, lo, hi) = {}
           /\ b[n + 1] > lo =>
                 \E e \in 1..n, m \in 1..n : FromTo(b, n, lo, hi, Into(b, n, lo, hi), e, m)
<1> DEFINE S == Into(b, n, lo, hi)
<1>2. S = {k \in 1..n : b[k + 1] > lo /\ b[k] < hi}
  BY DEF Into
<1>3. /\ b[1] = 0 /\ b[n + 1] \in Nat
      /\ \A j \in 1..(n + 1) : b[j] \in Nat /\ \A k \in j..(n + 1) : b[k] >= b[j] + (k - j)
  BY DEF Rises
<1> HIDE DEF S
<1>4. \A j \in 1..(n + 1), k \in 1..(n + 1) : j <= k => b[j] <= b[k]
  <2> TAKE j \in 1..(n + 1), k \in 1..(n + 1)
  <2> HAVE j <= k
  <2>1. k \in j..(n + 1) /\ j \in Nat /\ k \in Nat
    OBVIOUS
  <2>2. b[j] \in Nat /\ b[k] \in Nat /\ b[k] >= b[j] + (k - j)
    BY <1>3, <2>1
  <2> QED BY ONLY j \in Nat, k \in Nat, j <= k, <2>1, <2>2
<1>5. ASSUME b[n + 1] <= lo PROVE S = {}
  <2> SUFFICES ASSUME NEW k \in S PROVE FALSE
    OBVIOUS
  <2>1. k \in 1..n /\ b[k + 1] > lo /\ k + 1 \in 1..(n + 1) /\ n + 1 \in 1..(n + 1) /\ k + 1 <= n + 1
    BY <1>2
  <2>2. b[k + 1] <= b[n + 1] /\ b[k + 1] \in Nat
    BY <1>3, <1>4, <2>1
  <2> QED BY <1>3, <1>5, <2>1, <2>2
<1>6. ASSUME b[n + 1] > lo
      PROVE  \E e \in 1..n, m \in 1..n :
                 /\ e \in S /\ \A j \in S : e <= j
                 /\ m \in S /\ \A j \in S : j <= m
                 /\ e <= m
                 /\ b[e] <= lo /\ lo < b[e + 1] /\ b[m] < hi /\ (m = n \/ hi <= b[m + 1])
  <2> DEFINE T == {k \in 1..(n + 1) : b[k] <= lo}
             U == {k \in 1..n : b[k] < hi}
  <2>1. T \in SUBSET Nat /\ n + 1 \in Nat /\ \A k \in T : k <= n + 1
    OBVIOUS
  <2>2. 1 \in T
    BY <1>3
  <2>3. PICK e \in T : \A k \in T : k <= e
    <3> HIDE DEF T
    <3> QED BY <2>1, <2>2, LargestExists
  <2>4. e \in 1..(n + 1) /\ b[e] <= lo /\ e # n + 1
    BY <1>3, <1>6, <2>3
  <2>5. e \in 1..n /\ e + 1 \in 1..(n + 1)
    BY <2>4
  <2>6. b[e + 1] > lo
    <3>1. e + 1 \notin T
      BY <2>3, <2>5
    <3>2. b[e + 1] \in Nat
      BY <1>3, <2>5
    <3> QED BY <2>5, <3>1, <3>2
  <2>7. b[e] < hi
    <3>1. b[e] \in Nat
      BY <1>3, <2>4
    <3> QED BY <2>4, <3>1
  <2>8. e \in S
    BY <1>2, <2>5, <2>6, <2>7
  <2>9. \A j \in S : e <= j
    <3> TAKE j \in S
    <3>1. j \in 1..n /\ b[j + 1] > lo /\ j + 1 \in 1..(n + 1)
      BY <1>2
    <3>2. b[j + 1] \in Nat /\ b[e] \in Nat
      BY <1>3, <2>4, <3>1
    <3>3. ~(j + 1 <= e)
      <4> SUFFICES ASSUME j + 1 <= e PROVE FALSE
        OBVIOUS
      <4>1. b[j + 1] <= b[e]
        BY <1>4, <2>4, <3>1
      <4> QED BY <2>4, <3>1, <3>2, <4>1
    <3> QED BY <2>5, <3>1, <3>3
  <2>10. U \in SUBSET Nat /\ n \in Nat /\ \A k \in U : k <= n
    OBVIOUS
  <2>11. e \in U
    BY <2>5, <2>7
  <2>12. PICK m \in U : \A k \in U : k <= m
    <3> HIDE DEF U
    <3> QED BY <2>10, <2>11, LargestExists
  <2>13. m \in 1..n /\ b[m] < hi /\ e <= m
    BY <2>11, <2>12
  <2>14. m = n \/ hi <= b[m + 1]
    <3> SUFFICES ASSUME m # n PROVE hi <= b[m + 1]
      OBVIOUS
    <3>1. m + 1 \in 1..n /\ m + 1 \in 1..(n + 1)
      BY <2>13
    <3>2. m + 1 \notin U
      BY <2>12, <2>13
    <3>3. b[m + 1] \in Nat
      BY <1>3, <3>1
    <3> QED BY <3>1, <3>2, <3>3
  <2>15. m \in S
    <3>1. m + 1 \in 1..(n + 1) /\ e + 1 <= m + 1
      BY <2>5, <2>13
    <3>2. b[e + 1] <= b[m + 1] /\ b[e + 1] \in Nat /\ b[m + 1] \in Nat
      BY <1>3, <1>4, <2>5, <3>1
    <3>3. b[m + 1] > lo
      BY <2>6, <3>2
    <3> QED BY <1>2, <2>13, <3>3
  <2>16. \A j \in S : j <= m
    BY <1>2, <2>12
  <2> HIDE DEF T, U
  <2> QED BY <2>4, <2>5, <2>6, <2>8, <2>9, <2>13, <2>14, <2>15, <2>16
<1> QED BY <1>5, <1>6 DEF FromTo, S

(* The round trips on a page are from the one whose rows run over its      *)
(* beginning to the one whose rows run over its end, or the last.          *)
LEMMA ThePage ==
    ASSUME v3.trips \in Seq(Nat), NEW lo \in Nat, lo = v3.at * PAGE,
           NEW hi \in Nat, hi = (v3.at + 1) * PAGE, lo < hi
    PROVE  /\ History!total <= lo => History!OnPage = {}
           /\ History!total > lo =>
                 /\ History!OnPage # {}
                 /\ \E e \in 1..Len(v3.trips), m \in 1..Len(v3.trips) :
                       /\ e = History!Earliest(History!OnPage)
                       /\ m = History!Latest(History!OnPage)
                       /\ e <= m
                       /\ History!Before(e) <= lo /\ lo < History!Before(e + 1)
                       /\ History!Before(m) < hi
                       /\ m = Len(v3.trips) \/ hi <= History!Before(m + 1)
<1>1. PICK n \in Nat : n = Len(v3.trips)
  OBVIOUS
<1> DEFINE b == [k \in 1..(n + 1) |-> History!Before(k)]
           S == History!OnPage
<1>2. S = {k \in 1..n : b[k + 1] > lo /\ b[k] < hi}
  <2>1. S = {k \in 1..n : History!Before(k + 1) > lo /\ History!Before(k) < hi}
    BY <1>1 DEF History!OnPage
  <2>2. \A k \in 1..n : b[k + 1] = History!Before(k + 1) /\ b[k] = History!Before(k)
    OBVIOUS
  <2> HIDE DEF b
  <2> QED BY <2>1, <2>2
<1>3. \A k \in 1..(n + 1) : b[k] = History!Before(k)
  OBVIOUS
<1>4. 1 \in 1..(n + 1) /\ n + 1 \in 1..(n + 1)
  OBVIOUS
<1> HIDE DEF b, S
<1>5. /\ b[1] = 0 /\ b[n + 1] = History!total /\ History!total \in Nat
      /\ \A j \in 1..(n + 1) : b[j] \in Nat /\ \A k \in j..(n + 1) : b[k] >= b[j] + (k - j)
  <2>1. b[1] = 0 /\ b[n + 1] = History!total /\ History!total \in Nat
    BY <1>1, <1>3, <1>4, BeforeIs
  <2>2. ASSUME NEW j \in 1..(n + 1), NEW k \in j..(n + 1)
        PROVE  b[j] \in Nat /\ b[k] >= b[j] + (k - j)
    <3>1. k \in 1..(n + 1)
      OBVIOUS
    <3>2. History!Before(j) \in Nat /\ History!Before(k) >= History!Before(j) + (k - j)
      BY <1>1, BeforeIs
    <3> QED BY <1>3, <3>1, <3>2
  <2>3. \A j \in 1..(n + 1) : b[j] \in Nat
    BY <1>1, <1>3, BeforeIs
  <2> QED BY <2>1, <2>2, <2>3
<1>6. S = Into(b, n, lo, hi) /\ Rises(b, n)
  BY <1>2, <1>5 DEF Into, Rises
<1>7. CASE History!total > lo
  <2>1. PICK e \in 1..n, m \in 1..n :
                 /\ e \in S /\ \A j \in S : e <= j
                 /\ m \in S /\ \A j \in S : j <= m
                 /\ e <= m
                 /\ b[e] <= lo /\ lo < b[e + 1] /\ b[m] < hi /\ (m = n \/ hi <= b[m + 1])
    <3>1. b[n + 1] > lo
      BY <1>5, <1>7
    <3>2. \E e \in 1..n, m \in 1..n : FromTo(b, n, lo, hi, S, e, m)
      BY ONLY n \in Nat, lo \in Nat, hi \in Nat, lo < hi, <1>6, <3>1, Band
    <3> QED BY <3>2 DEF FromTo
  <2>2. \A j \in S : j \in 1..n
    BY <1>2
  <2>3. History!Earliest(S) = e
    <3>1. \A x \in S : (\A j \in S : x <= j) => x = e
      BY <2>1, <2>2
    <3> QED BY <2>1, <3>1 DEF History!Earliest
  <2>4. History!Latest(S) = m
    <3>1. \A x \in S : (\A j \in S : j <= x) => x = m
      BY <2>1, <2>2
    <3> QED BY <2>1, <3>1 DEF History!Latest
  <2>5. ~(History!total <= lo)
    BY ONLY <1>5, <1>7, lo \in Nat
  <2>6. /\ History!Before(e) <= lo /\ lo < History!Before(e + 1) /\ History!Before(m) < hi
        /\ m = n \/ hi <= History!Before(m + 1)
    <3>1. {e, e + 1, m, m + 1} \subseteq 1..(n + 1)
      OBVIOUS
    <3> QED BY <1>3, <2>1, <3>1
  <2> QED BY <1>1, <2>1, <2>3, <2>4, <2>5, <2>6 DEF S
<1>8. CASE ~(History!total > lo)
  <2>1. History!total <= lo
    BY ONLY <1>5, <1>8, lo \in Nat
  <2>2. S = {}
    BY ONLY n \in Nat, lo \in Nat, hi \in Nat, lo < hi, <1>5, <1>6, <2>1, Band
  <2> QED BY <1>8, <2>2 DEF S
<1> QED BY <1>7, <1>8

(* A part of the middle of a sequence is a part of the sequence: a page    *)
(* cut once more from the rows of its round trips.                         *)
LEMMA CutTwice ==
    ASSUME NEW R \in Seq(Row), NEW total \in Nat, total = Len(R),
           NEW x \in Nat, NEW y \in Nat, NEW lo \in Nat, NEW hi \in Nat,
           x <= lo, lo < hi, lo < y, y <= total, hi <= y \/ y = total,
           NEW mid, mid = SubSeq(R, x + 1, y),
           NEW n \in Nat, n = IF hi <= y THEN hi ELSE y
    PROVE  /\ Len(mid) = y - x
           /\ SubSeq(mid, (lo - x) + 1, n - x) = SubSeq(R, lo + 1, n)
<1>1. x + 1 \in 1..Len(R) /\ y \in 1..Len(R)
  OBVIOUS
<1>2. (lo - x) + 1 \in 1..(y - (x + 1) + 1) /\ n - x \in 1..(y - (x + 1) + 1)
  OBVIOUS
<1>3. SubSeq(SubSeq(R, x + 1, y), (lo - x) + 1, n - x)
        = SubSeq(R, (x + 1) + ((lo - x) + 1) - 1, (x + 1) + (n - x) - 1)
  BY <1>1, <1>2, SubSeqOfSubSeq
<1>4. (x + 1) + ((lo - x) + 1) - 1 = lo + 1 /\ (x + 1) + (n - x) - 1 = n
  OBVIOUS
<1>5. \A i \in (x + 1)..y : R[i] \in Row
  OBVIOUS
<1>6. Len(mid) = IF x + 1 <= y THEN y - (x + 1) + 1 ELSE 0
  BY <1>5, SubSeqProperties
<1> QED BY <1>3, <1>4, <1>6

(* The page shown is its rows, and how many they are. *)
LEMMA TheCut ==
    ASSUME v3.trips \in Seq(Nat), v3.at \in Nat, v2 \in {"positions", "orders"},
           NEW lo \in Nat, lo = v3.at * PAGE, NEW hi \in Nat, hi = (v3.at + 1) * PAGE,
           hi = lo + PAGE
    PROVE  /\ History!Shown = SubSeq(History!Rows, lo + 1, History!Upto(hi, History!Rows))
           /\ Len(History!Shown) = IF History!total <= lo THEN 0
                                   ELSE IF hi <= History!total THEN PAGE ELSE History!total - lo
<1>1. PAGE \in Nat /\ PAGE >= 1 /\ lo < hi
  BY HistoryGround
<1>2. PICK total \in Nat : total = History!total /\ total = Len(History!Rows)
  BY BeforeIs
<1>3. History!Rows \in Seq(Row)
  BY BeforeIs
<1>4. PICK n \in Nat : n = Len(v3.trips)
  OBVIOUS
<1>5. PICK top \in Nat : top = (IF hi <= total THEN hi ELSE total)
  OBVIOUS
<1>6. History!Upto(hi, History!Rows) = top
  BY <1>2, <1>5 DEF History!Upto
<1>7. PICK P \in Nat : P = PAGE /\ hi = lo + P /\ P >= 1
  BY <1>1
<1>8. CASE total <= lo
  <2>1. History!OnPage = {}
    BY <1>1, <1>2, <1>8, ThePage
  <2>2. History!pageTrips = <<>>
    BY <2>1 DEF History!pageTrips
  <2>3. History!RowsOf(v3.of, History!pageTrips) = <<>>
    BY <2>2, RowsEmpty
  <2>4. PICK off \in Nat : off = History!orderOffset
    <3>1. PICK past \in Nat : past = (IF lo > total THEN lo - total ELSE 0)
      OBVIOUS
    <3>2. History!orderOffset = (IF lo > total THEN lo - total ELSE 0)
      BY <1>2, <2>1 DEF History!orderOffset
    <3> QED BY <3>1, <3>2
  <2>5. History!Upto(off + PAGE, <<>>) = 0
    <3>1. Len(<<>>) = 0 /\ ~(off + P <= 0)
      BY <1>7
    <3> QED BY <1>7, <3>1 DEF History!Upto
  <2>6. SubSeq(<<>>, off + 1, 0) = <<>>
    <3>1. 0 < off + 1 /\ 0 \in Int /\ off + 1 \in Int
      OBVIOUS
    <3> QED BY <3>1, SubSeqEmpty
  <2>7. History!Shown = <<>>
    BY <2>3, <2>4, <2>5, <2>6 DEF History!Shown
  <2>8. SubSeq(History!Rows, lo + 1, top) = <<>>
    <3>1. top < lo + 1 /\ top \in Int /\ lo + 1 \in Int
      BY ONLY <1>1, <1>5, <1>8, top \in Nat, lo \in Nat, total \in Nat, hi \in Nat
    <3> QED BY <3>1, SubSeqEmpty
  <2>9. Len(<<>>) = 0
    OBVIOUS
  <2>10. History!Shown = SubSeq(History!Rows, lo + 1, History!Upto(hi, History!Rows))
    BY <1>6, <2>7, <2>8
  <2>11. Len(History!Shown) = 0 /\ History!total <= lo
    BY <1>2, <1>8, <2>7, <2>9
  <2> QED BY ONLY <2>10, <2>11
<1>9. CASE ~(total <= lo)
  <2>1. History!total > lo
    BY ONLY <1>2, <1>9, total \in Nat, lo \in Nat
  <2>2. PICK e \in 1..n, m \in 1..n :
           /\ e = History!Earliest(History!OnPage) /\ m = History!Latest(History!OnPage)
           /\ e <= m
           /\ History!Before(e) <= lo /\ lo < History!Before(e + 1)
           /\ History!Before(m) < hi
           /\ m = n \/ hi <= History!Before(m + 1)
    BY <1>1, <1>4, <2>1, ThePage
  <2>3. History!OnPage # {}
    BY <1>1, <2>1, ThePage
  <2>4. e \in 1..(n + 1) /\ m + 1 \in e..(n + 1) /\ e + 1 \in 1..(n + 1) /\ m + 1 \in (e + 1)..(n + 1)
    BY <2>2
  <2>5. PICK x \in Nat, y \in Nat, z \in Nat : x = History!Before(e) /\ y = History!Before(m + 1)
                                              /\ z = History!Before(e + 1)
    <3>1. \A j \in 1..(n + 1) : History!Before(j) \in Nat
      BY <1>4, BeforeIs
    <3>2. m + 1 \in 1..(n + 1)
      OBVIOUS
    <3> QED BY <2>4, <3>1, <3>2
  <2>6. PICK mid : mid = History!RowsOf(v3.of, History!pageTrips)
    OBVIOUS
  <2>7. mid = SubSeq(History!Rows, x + 1, y) /\ Len(mid) = y - x
    <3>1. History!pageTrips = SubSeq(v3.trips, e, (m + 1) - 1)
      <4>1. (m + 1) - 1 = m
        OBVIOUS
      <4> QED BY <2>2, <2>3, <4>1 DEF History!pageTrips
    <3>2. /\ History!RowsOf(v3.of, SubSeq(v3.trips, e, (m + 1) - 1)) =
                 SubSeq(History!Rows, History!Before(e) + 1, History!Before(m + 1))
          /\ Len(History!RowsOf(v3.of, SubSeq(v3.trips, e, (m + 1) - 1))) =
                 History!Before(m + 1) - History!Before(e)
      BY <1>4, <2>4, RowsBetween
    <3> QED BY <2>5, <2>6, <3>1, <3>2
  <2>8. lo < y /\ y <= total /\ (hi <= y \/ y = total)
    <3>1. y >= z + ((m + 1) - (e + 1))
      BY <1>4, <2>4, <2>5, BeforeIs
    <3>2. lo < y
      BY ONLY <2>2, <2>5, <3>1, e \in 1..n, m \in 1..n, n \in Nat, lo \in Nat, y \in Nat, z \in Nat
    <3>3. History!Before(n + 1) = total
      BY <1>2, <1>4, BeforeIs
    <3>4. n + 1 \in (m + 1)..(n + 1) /\ m + 1 \in 1..(n + 1)
      OBVIOUS
    <3>5. total >= y + ((n + 1) - (m + 1))
      BY <1>4, <2>5, <3>3, <3>4, BeforeIs
    <3>6. y <= total
      BY ONLY <3>5, m \in 1..n, n \in Nat, y \in Nat, total \in Nat
    <3>7. hi <= y \/ y = total
      BY <2>2, <2>5, <3>3
    <3> QED BY <3>2, <3>6, <3>7
  <2>9. top = IF hi <= y THEN hi ELSE y
    BY ONLY <1>5, <2>8, hi \in Nat, y \in Nat, total \in Nat
  <2>10. x <= lo
    BY <2>2, <2>5
  <2>11. /\ Len(mid) = y - x
         /\ SubSeq(mid, (lo - x) + 1, top - x) = SubSeq(History!Rows, lo + 1, top)
    BY ONLY <1>1, <1>2, <1>3, <2>7, <2>8, <2>9, <2>10, total \in Nat, x \in Nat, y \in Nat,
            lo \in Nat, hi \in Nat, top \in Nat, CutTwice
  <2>12. ASSUME v2 = "positions" PROVE History!Shown = SubSeq(History!Rows, lo + 1, top)
    <3>1. History!Shown = mid
      BY <2>6, <2>12 DEF History!Shown
    <3>2. x = e - 1 /\ z = (e + 1) - 1 /\ y = (m + 1) - 1 /\ History!Before(m) = m - 1
      <4>1. m \in 1..(n + 1) /\ m + 1 \in 1..(n + 1)
        OBVIOUS
      <4> QED BY <1>4, <2>4, <2>5, <2>12, <4>1, BeforeIs
    <3>3. x = lo /\ y <= hi
      BY ONLY <2>2, <2>5, <3>2, e \in 1..n, m \in 1..n, n \in Nat, lo \in Nat, hi \in Nat,
              x \in Nat, y \in Nat, z \in Nat
    <3>4. y = top
      BY ONLY <2>8, <2>9, <3>3, y \in Nat, hi \in Nat, top \in Nat, total \in Nat
    <3> QED BY <2>7, <3>1, <3>3, <3>4
  <2>13. ASSUME v2 # "positions" PROVE History!Shown = SubSeq(History!Rows, lo + 1, top)
    <3>1. History!orderOffset = lo - x
      <4>1. History!orderOffset = IF lo > x THEN lo - x ELSE 0
        BY <2>2, <2>3, <2>5 DEF History!orderOffset
      <4>2. ~(lo > x) => lo - x = 0
        BY <2>10
      <4> QED BY <4>1, <4>2
    <3>2. History!Upto(History!orderOffset + PAGE, mid) = top - x
      <4>1. (lo - x) + P = hi - x
        BY <1>7
      <4>2. hi - x <= y - x <=> hi <= y
        OBVIOUS
      <4>3. History!Upto((lo - x) + P, mid) = IF (lo - x) + P <= y - x THEN (lo - x) + P ELSE y - x
        BY <2>7 DEF History!Upto
      <4> QED BY <1>7, <2>9, <3>1, <4>1, <4>2, <4>3
    <3>3. History!Shown = SubSeq(mid, (lo - x) + 1, top - x)
      BY <2>6, <2>13, <3>1, <3>2 DEF History!Shown
    <3> QED BY <2>11, <3>3
  <2>14. History!Shown = SubSeq(History!Rows, lo + 1, top)
    BY <1>6, <2>12, <2>13
  <2>15. Len(History!Shown) = top - lo
    <3>1. \A i \in (lo + 1)..top : History!Rows[i] \in Row
      <4>1. top <= total
        BY <1>5
      <4> QED BY <1>2, <1>3, <4>1
    <3>2. Len(SubSeq(History!Rows, lo + 1, top)) =
             IF lo + 1 <= top THEN top - (lo + 1) + 1 ELSE 0
      <4>1. lo + 1 \in Int /\ top \in Int
        OBVIOUS
      <4> QED BY <3>1, <4>1, SubSeqProperties
    <3>3. lo + 1 <= top
      BY ONLY <1>1, <1>5, <1>9, lo \in Nat, hi \in Nat, total \in Nat, top \in Nat
    <3>4. top - (lo + 1) + 1 = top - lo
      OBVIOUS
    <3> QED BY <2>14, <3>2, <3>3, <3>4
  <2>16. top - lo = IF hi <= total THEN PAGE ELSE total - lo
    BY ONLY <1>5, <1>7, lo \in Nat, hi \in Nat, total \in Nat, top \in Nat, P \in Nat
  <2> QED BY <1>2, <1>6, <1>9, <2>14, <2>15, <2>16
<1> QED BY <1>8, <1>9

-----------------------------------------------------------------------------
(* The history's reads *)

(* A list has a row for each of its round trips. *)
LEMMA ARowEach ==
    v3.trips \in Seq(Nat) => History!total \in Nat /\ History!total >= Len(v3.trips)
BY RowsAre DEF History!total

(* And has under the tab there is then. *)
LEMMA ARowEachThen ==
    (v3.trips \in Seq(Nat) => History!total \in Nat /\ History!total >= Len(v3.trips))'
BY ARowEach, PTL

(* What is counted after a step that leaves the tab. *)
LEMMA TotalThen ==
    ASSUME v2' = v2, NEW f, NEW trips, v3'.of = f, v3'.trips = trips
    PROVE  History!total' = Len(History!RowsOf(f, trips))
<1> DEFINE a == [k \in 1..Len(trips) |-> History!Lines(f, trips[k])]
<1>1. History!RowsOf(f, trips) = History!FlattenSeq(a)
  BY DEF History!RowsOf
<1>2. History!total' = Len(History!FlattenSeq(a))
  BY DEF History!total, History!RowsOf, History!Lines, History!Closed
<1> QED BY <1>1, <1>2

(* And of what was asked for. *)
LEMMA AskedThen ==
    ASSUME v2' = v2, NEW f, NEW n, v5'.of = f, v5'.after = n
    PROVE  Len(History!RowsOf(v5.of, History!Newest(v5.after)))' =
               Len(History!RowsOf(f, History!Newest(n)))
BY DEF History!RowsOf, History!Newest, History!Lines, History!Closed

(* Whole pages and one page more are whole pages. *)
LEMMA WholePages ==
    ASSUME NEW P \in Nat \ {0}, NEW n \in Nat, n % P = 0
    PROVE  (n + P) % P = 0
<1>1. PICK q \in Int, z \in Int, r \in Int : q = n \div P /\ z = (n + P) \div P /\ r = (n + P) % P
  OBVIOUS
<1>2. n = q * P
  BY <1>1
<1>3. n + P = z * P + r /\ 0 <= r /\ r < P
  <2>1. n + P \in Nat
    OBVIOUS
  <2> QED BY <1>1, <2>1
<1>4. PICK d \in Int : d = (q + 1) - z
  OBVIOUS
<1>5. d * P = r
  BY <1>2, <1>3, <1>4
<1>6. d >= 1 => d * P >= P
  OBVIOUS
<1>7. d <= -1 => d * P <= -P
  OBVIOUS
<1>8. r = 0
  BY <1>3, <1>5, <1>6, <1>7
<1> QED BY <1>1, <1>8

(* So are one page, and none. *)
LEMMA NoPages == PAGE % PAGE = 0 /\ 0 % PAGE = 0
<1>1. PICK P \in Nat \ {0} : P = PAGE
  BY HistoryGround
<1>2. P % P = 0 /\ 0 % P = 0
  OBVIOUS
<1> QED BY <1>1, <1>2

(* The newest round trips are as many as are asked for. *)
LEMMA NewestIs ==
    ASSUME NEW n \in Nat
    PROVE  History!Newest(n) \in Seq(Nat) /\ Len(History!Newest(n)) = n
BY DEF History!Newest

(* What a read answers: round trips there are, and after the newest ones   *)
(* the next of them, a page or the rest.                                   *)
LEMMA ReadIs ==
    ASSUME NEW f \in Filters, NEW n \in Nat
    PROVE  /\ History!Read(f, n) \in Seq(1..Trips[f]) /\ History!Read(f, n) \in Seq(Nat)
           /\ History!MayBeMore(f, n) => History!Read(f, n) # <<>>
           /\ History!MayBeMore(f, n) \in BOOLEAN
           /\ n <= Trips[f] =>
                 \E r \in Nat :
                    /\ r = Len(History!Read(f, n)) /\ n + r <= Trips[f]
                    /\ History!Newest(n) \o History!Read(f, n) = History!Newest(n + r)
                    /\ IF History!MayBeMore(f, n) THEN r = PAGE ELSE n + r = Trips[f]
<1>1. PICK P \in Nat \ {0}, t \in Nat : P = PAGE /\ t = Trips[f]
  BY HistoryGround
<1>2. PICK r \in Int : r = IF t - n < P THEN t - n ELSE P
  OBVIOUS
<1>3. History!Read(f, n) = [k \in 1..r |-> n + k]
  BY <1>1, <1>2 DEF History!Read
<1>4. n + r <= t /\ (History!MayBeMore(f, n) <=> t - n >= P)
  BY <1>1, <1>2 DEF History!MayBeMore
<1>5. \A k \in 1..r : n + k \in 1..t /\ n + k \in Nat
  BY <1>4
<1>6. History!Read(f, n) \in Seq(1..t) /\ History!Read(f, n) \in Seq(Nat)
  <2>1. CASE r <= 0
    <3>1. 1..r = {}
      BY <2>1
    <3>2. [k \in 1..r |-> n + k] = <<>>
      BY <3>1
    <3>3. <<>> \in Seq(1..t) /\ <<>> \in Seq(Nat)
      OBVIOUS
    <3> QED BY <1>3, <3>2, <3>3
  <2>2. CASE ~(r <= 0)
    <3>1. r \in Nat
      BY <2>2
    <3> QED BY <1>3, <1>5, <3>1
  <2> QED BY <2>1, <2>2
<1>7. ASSUME n <= t
      PROVE  \E q \in Nat :
                    /\ q = Len(History!Read(f, n)) /\ n + q <= t
                    /\ History!Newest(n) \o History!Read(f, n) = History!Newest(n + q)
                    /\ IF History!MayBeMore(f, n) THEN q = P ELSE n + q = t
  <2>1. r \in Nat
    BY <1>2, <1>7
  <2>2. Len(History!Read(f, n)) = r
    BY <1>3, <2>1
  <2>3. History!Newest(n) \o History!Read(f, n) = History!Newest(n + r)
    <3>1. PICK a \in Seq(Nat), b \in Seq(Nat), c \in Seq(Nat) :
             /\ a = History!Newest(n) /\ b = History!Read(f, n) /\ c = History!Newest(n + r)
      BY <1>6, <2>1, NewestIs
    <3>2. Len(a) = n /\ Len(b) = r /\ Len(c) = n + r
      BY <2>1, <2>2, <3>1, NewestIs
    <3>3. /\ \A i \in 1..n : a[i] = i
          /\ \A i \in 1..r : b[i] = n + i
          /\ \A i \in 1..(n + r) : c[i] = i
      <4>1. a = [k \in 1..n |-> k] /\ c = [k \in 1..(n + r) |-> k]
        BY <3>1 DEF History!Newest
      <4> QED BY <1>3, <3>1, <4>1
    <3>4. a \o b \in Seq(Nat) /\ Len(a \o b) = n + r
      BY <2>1, <3>2, ConcatProperties
    <3>5. \A i \in 1..(n + r) : (a \o b)[i] = c[i]
      <4> TAKE i \in 1..(n + r)
      <4>1. CASE i <= n
        <5>1. i \in 1..n
          BY <4>1
        <5>2. (a \o b)[i] = a[i]
          BY <3>2, <5>1, <4>1, ConcatProperties
        <5> QED BY <3>3, <5>1, <5>2
      <4>2. CASE ~(i <= n)
        <5>1. i - n \in 1..r
          BY <2>1, <4>2
        <5>2. (a \o b)[i] = b[i - n]
          BY <2>1, <3>2, <4>2, ConcatProperties
        <5>3. b[i - n] = n + (i - n)
          BY <3>3, <5>1
        <5> QED BY <3>3, <5>2, <5>3
      <4> QED BY <4>1, <4>2
    <3>6. a \o b = c
      BY <3>2, <3>4, <3>5, SeqEqual
    <3> QED BY <3>1, <3>6
  <2>4. n + r <= t /\ IF History!MayBeMore(f, n) THEN r = P ELSE n + r = t
    BY <1>2, <1>4
  <2> QED BY <2>1, <2>2, <2>3, <2>4
<1>8. ASSUME History!MayBeMore(f, n) PROVE History!Read(f, n) # <<>>
  <2>1. n <= t
    BY <1>4, <1>8
  <2>2. Len(History!Read(f, n)) = P
    BY <1>7, <1>8, <2>1
  <2>3. Len(<<>>) = 0
    OBVIOUS
  <2> QED BY <2>2, <2>3
<1>9. History!MayBeMore(f, n) \in BOOLEAN
  BY DEF History!MayBeMore
<1> QED BY <1>1, <1>6, <1>7, <1>8, <1>9

(* Where a page begins and ends, in numbers. *)
LEMMA PagesAre ==
    ASSUME NEW at \in Nat
    PROVE  /\ at * PAGE \in Nat /\ (at + 1) * PAGE = at * PAGE + PAGE
           /\ PAGE \in Nat /\ PAGE >= 1 /\ 0 * PAGE = 0 /\ (0 + 1) * PAGE = PAGE
<1>1. PICK P \in Nat \ {0} : P = PAGE
  BY HistoryGround
<1>2. at * P \in Nat /\ (at + 1) * P = at * P + P /\ P >= 1 /\ 0 * P = 0 /\ (0 + 1) * P = P
  OBVIOUS
<1> QED BY <1>1, <1>2

(* What Following says of the state, in parts. *)
LEMMA FollowingIs ==
    ASSUME History!Following
    PROVE  /\ v1 \in Filters /\ v2 \in {"positions", "orders"}
           /\ v3 \in [of : Filters \cup {"none"}, trips : Seq(Nat), more : BOOLEAN, at : Nat]
           /\ v5 \in [of : Filters, after : Nat, target : Nat]
           /\ v3.trips \in Seq(Nat) /\ v3.at \in Nat /\ v3.more \in BOOLEAN
           /\ v5.of \in Filters /\ v5.after \in Nat /\ v5.target \in Nat
           /\ v3.of \in Filters => v3.trips \in Seq(1..Trips[v3.of])
           /\ v3.more => v3.of \in Filters /\ v3.trips # <<>>
BY DEF History!Following, History!Typed

(* A step that leaves the list, the tab and the marks of what came         *)
(* between, and at most lets go of what was asked for.                     *)
LEMMA QuietFollows ==
    ASSUME History!Following, v1' \in Filters, v2' = v2, v3' = v3, v7' = v7, v8' = v8,
           v5' = v5 \/ v5' = History!Nowhere
    PROVE  History!Following'
<1>1. History!Nowhere \in [of : Filters, after : Nat, target : Nat]
  BY HistoryGround DEF History!Nowhere
<1>2. v5' \in [of : Filters, after : Nat, target : Nat]
  BY <1>1, FollowingIs
<1>3. History!Typed'
  BY <1>2 DEF History!Following, History!Typed
<1>4. History!loading' => History!loading /\ v5' = v5
  BY DEF History!loading
<1>5. History!NoGaps'
  BY <1>4 DEF History!Following, History!NoGaps
<1>6. History!total' = History!total
  <2>1. PICK f, trips : v3.of = f /\ v3.trips = trips
    OBVIOUS
  <2>2. v3'.of = f /\ v3'.trips = trips
    BY <2>1
  <2>3. History!total' = Len(History!RowsOf(f, trips))
    BY <2>2, TotalThen
  <2> QED BY <2>1, <2>3 DEF History!total
<1>7. ASSUME v5' = v5
      PROVE  Len(History!RowsOf(v5.of, History!Newest(v5.after)))' =
                 Len(History!RowsOf(v5.of, History!Newest(v5.after)))
  <2>1. PICK f, n : v5.of = f /\ v5.after = n
    OBVIOUS
  <2>2. v5'.of = f /\ v5'.after = n
    BY <1>7, <2>1
  <2> QED BY <2>1, <2>2, AskedThen
<1>8. History!Filled'
  BY <1>4, <1>6, <1>7 DEF History!Following, History!Filled
<1> QED BY <1>3, <1>5, <1>8 DEF History!Following

(* A first page begins the list again. *)
LEMMA FirstFollows ==
    ASSUME History!Following, History!TakeFirst
    PROVE  History!Following'
<1>1. v1' = v1 /\ v2' = v2 /\ v5' = v5 /\ v8' = v8
  BY DEF History!TakeFirst
<1>2. PICK f \in Filters : f = v1
  BY FollowingIs
<1>3. PICK s \in Seq(Nat), more \in BOOLEAN :
         /\ s = History!Read(f, 0) /\ more = History!MayBeMore(f, 0)
         /\ s \in Seq(1..Trips[f]) /\ (more => s # <<>>)
  <2>1. 0 \in Nat
    OBVIOUS
  <2> QED BY <2>1, ReadIs
<1>4. v3' = [of |-> f, trips |-> s, more |-> more, at |-> 0]
  BY <1>2, <1>3 DEF History!TakeFirst
<1>5. v3'.of = f /\ v3'.trips = s /\ v3'.more = more /\ v3'.at = 0
  BY <1>4
<1>6. PICK t \in Nat, P \in Nat \ {0} : t = Trips[f] /\ P = PAGE
  BY HistoryGround
<1>7. PICK r \in Nat :
         /\ r = Len(s) /\ r <= t /\ s = History!Newest(r)
         /\ IF more THEN r = P ELSE r = t
  <2>1. PICK r \in Nat :
           /\ r = Len(History!Read(f, 0)) /\ 0 + r <= Trips[f]
           /\ History!Newest(0) \o History!Read(f, 0) = History!Newest(0 + r)
           /\ IF History!MayBeMore(f, 0) THEN r = PAGE ELSE 0 + r = Trips[f]
    <3>1. 0 \in Nat /\ 0 <= Trips[f]
      BY <1>6
    <3> QED BY <3>1, ReadIs
  <2>2. 0 + r = r
    OBVIOUS
  <2>3. History!Newest(0) = <<>>
    BY DEF History!Newest
  <2>4. <<>> \o s = s
    BY ConcatEmptySeq
  <2> QED BY <1>3, <1>6, <2>1, <2>2, <2>3, <2>4
<1>8. History!Typed'
  <2>1. [of |-> f, trips |-> s, more |-> more, at |-> 0]
           \in [of : Filters \cup {"none"}, trips : Seq(Nat), more : BOOLEAN, at : Nat]
    OBVIOUS
  <2>2. v1' \in Filters /\ v2' \in {"positions", "orders"}
        /\ v5' \in [of : Filters, after : Nat, target : Nat]
    BY <1>1, FollowingIs
  <2> QED BY <1>3, <1>4, <1>5, <2>1, <2>2 DEF History!Typed
<1>9. ~v7' => ~v7 /\ ~(v5.of = f /\ v5.after > P)
  BY <1>2, <1>6 DEF History!TakeFirst
<1>10. more => History!WholeReads(f, r)
  BY <1>6, <1>7, NoPages DEF History!WholeReads
<1>11. ASSUME ~v7', History!loading, f = v5.of PROVE r = v5.after
  <2>1. History!WholeReads(v5.of, v5.after)
    BY <1>9, <1>11 DEF History!Following, History!NoGaps
  <2>2. PICK n \in Nat : n = v5.after
    BY FollowingIs
  <2>3. n >= P /\ n <= t
    BY <1>6, <1>11, <2>1, <2>2 DEF History!WholeReads
  <2>4. ~(n > P)
    BY <1>9, <1>11, <2>2
  <2>5. n = P /\ ~(t < P)
    BY <2>3, <2>4
  <2>6. History!MayBeMore(f, 0)
    <3>1. History!MayBeMore(f, 0) <=> t - 0 >= P
      BY <1>6 DEF History!MayBeMore
    <3> QED BY <2>5, <3>1
  <2>7. more
    BY <1>3, <2>6
  <2> QED BY <1>7, <2>2, <2>5, <2>7
<1>12. History!loading' = History!loading
  BY <1>1 DEF History!loading
<1>13. History!NoGaps'
  <2>1. ASSUME ~v7'
        PROVE  /\ s = History!Newest(Len(s))
               /\ IF more THEN History!WholeReads(f, Len(s)) ELSE Len(s) = Trips[f]
               /\ History!loading => History!WholeReads(v5.of, v5.after)
               /\ History!loading /\ f = v5.of => Len(s) = v5.after
    <3>1. History!loading => History!WholeReads(v5.of, v5.after)
      BY <1>9, <2>1 DEF History!Following, History!NoGaps
    <3> QED BY <1>6, <1>7, <1>10, <1>11, <2>1, <3>1
  <2> QED BY <1>1, <1>5, <1>12, <2>1 DEF History!NoGaps
<1>14. History!Filled'
  <2>1. Len(History!RowsOf(v5.of, History!Newest(v5.after)))' =
            Len(History!RowsOf(v5.of, History!Newest(v5.after)))
    <3>1. PICK g, n : v5.of = g /\ v5.after = n
      OBVIOUS
    <3>2. v5'.of = g /\ v5'.after = n
      BY <1>1, <3>1
    <3> QED BY <1>1, <3>1, <3>2, AskedThen
  <2>2. History!total' \in Nat /\ History!total' >= r
    <3>1. v3'.trips \in Seq(Nat)
      BY <1>5
    <3> QED BY <1>5, <1>7, <3>1, ARowEachThen
  <2>3. more => History!total' >= (0 + 1) * PAGE
    <3>1. 0 \in Nat
      OBVIOUS
    <3> QED BY <1>6, <1>7, <2>2, <3>1, PagesAre
  <2>4. ~v8' /\ ~v7' /\ History!loading =>
            Len(History!RowsOf(v5.of, History!Newest(v5.after))) >= v5.target * PAGE
    BY <1>1, <1>9 DEF History!Following, History!Filled
  <2>5. ~(v3'.at > 0)
    BY <1>5
  <2> QED BY <1>1, <1>5, <1>12, <2>1, <2>3, <2>4, <2>5 DEF History!Filled
<1> QED BY <1>8, <1>13, <1>14 DEF History!Following

(* A list that is only turned: what it has stays, the page moves. *)
LEMMA TurnedList ==
    ASSUME History!Following, NEW at \in Nat, v3' = [v3 EXCEPT !.at = at],
           v1' = v1, v2' = v2, v7' = v7, v8' = v8
    PROVE  /\ v3'.of = v3.of /\ v3'.trips = v3.trips /\ v3'.more = v3.more /\ v3'.at = at
           /\ v3' \in [of : Filters \cup {"none"}, trips : Seq(Nat), more : BOOLEAN, at : Nat]
           /\ History!total' = History!total
<1>1. v3'.of = v3.of /\ v3'.trips = v3.trips /\ v3'.more = v3.more /\ v3'.at = at
  BY FollowingIs
<1>2. v3' \in [of : Filters \cup {"none"}, trips : Seq(Nat), more : BOOLEAN, at : Nat]
  BY FollowingIs
<1>3. History!total' = History!total
  <2>1. PICK f, trips : v3.of = f /\ v3.trips = trips
    OBVIOUS
  <2>2. History!total' = Len(History!RowsOf(f, trips))
    BY <1>1, <2>1, TotalThen
  <2> QED BY <2>1, <2>2 DEF History!total
<1> QED BY <1>1, <1>2, <1>3

(* So a turn keeps what is followed as far as the rows of the page go. *)
LEMMA TurnFollows ==
    ASSUME History!Following, NEW at \in Nat, v3' = [v3 EXCEPT !.at = at],
           v1' = v1, v2' = v2, v5' = v5, v7' = v7, v8' = v8,
           ~v8 /\ ~v7 =>
              /\ v3.more => History!total >= (at + 1) * PAGE
              /\ at > 0 => \/ History!total > at * PAGE
                           \/ History!total = at * PAGE /\ Trips[v3.of] % PAGE = 0
    PROVE  History!Following'
<1>1. /\ v3'.of = v3.of /\ v3'.trips = v3.trips /\ v3'.more = v3.more /\ v3'.at = at
      /\ v3' \in [of : Filters \cup {"none"}, trips : Seq(Nat), more : BOOLEAN, at : Nat]
      /\ History!total' = History!total
  BY TurnedList
<1>2. History!Typed'
  BY <1>1, FollowingIs DEF History!Typed
<1>3. History!loading' = History!loading
  BY DEF History!loading
<1>4. History!NoGaps'
  BY <1>1, <1>3 DEF History!Following, History!NoGaps
<1>5. Len(History!RowsOf(v5.of, History!Newest(v5.after)))' =
          Len(History!RowsOf(v5.of, History!Newest(v5.after)))
  <2>1. PICK g, n : v5.of = g /\ v5.after = n
    OBVIOUS
  <2>2. v5'.of = g /\ v5'.after = n
    BY <2>1
  <2> QED BY <2>1, <2>2, AskedThen
<1>6. History!Filled'
  <2>1. ~v8 /\ ~v7 /\ History!loading =>
            Len(History!RowsOf(v5.of, History!Newest(v5.after))) >= v5.target * PAGE
    BY DEF History!Following, History!Filled
  <2> QED BY <1>1, <1>3, <1>5, <2>1 DEF History!Filled
<1> QED BY <1>2, <1>4, <1>6 DEF History!Following

(* A page is turned to that is there. *)
LEMMA NextKeptFollows ==
    ASSUME History!Following, History!NextKept
    PROVE  History!Following'
<1>1. PICK at \in Nat : at = v3.at
  BY FollowingIs
<1>2. at + 1 \in Nat
  OBVIOUS
<1>3. /\ v3' = [v3 EXCEPT !.at = at + 1]
      /\ v1' = v1 /\ v2' = v2 /\ v5' = v5 /\ v7' = v7 /\ v8' = v8
  BY <1>1 DEF History!NextKept
<1>4. /\ History!total > (at + 1) * PAGE
      /\ v3.more => History!total >= ((at + 1) + 1) * PAGE
  BY <1>1 DEF History!NextKept, History!Covers
<1> QED BY <1>2, <1>3, <1>4, TurnFollows

(* A page is turned back to. *)
LEMMA PrevFollows ==
    ASSUME History!Following, History!Prev
    PROVE  History!Following'
<1>1. PICK at \in Nat : at + 1 = v3.at
  <2>1. v3.at \in Nat /\ v3.at > 0
    BY FollowingIs DEF History!Prev
  <2>2. v3.at - 1 \in Nat /\ (v3.at - 1) + 1 = v3.at
    BY <2>1
  <2> QED BY <2>2
<1>2. /\ v3' = [v3 EXCEPT !.at = at]
      /\ v1' = v1 /\ v2' = v2 /\ v5' = v5 /\ v7' = v7 /\ v8' = v8
  <2>1. v3.at - 1 = at
    BY <1>1
  <2> QED BY <2>1 DEF History!Prev
<1>3. PICK total \in Nat, lo \in Nat, hi \in Nat, P \in Nat :
         total = History!total /\ lo = at * PAGE /\ hi = (at + 1) * PAGE /\ hi = lo + P /\ P >= 1
  <2>1. History!total \in Nat
    BY FollowingIs, ARowEach
  <2>2. /\ at * PAGE \in Nat /\ (at + 1) * PAGE = at * PAGE + PAGE /\ PAGE \in Nat /\ PAGE >= 1
    BY PagesAre
  <2>3. (at + 1) * PAGE \in Nat
    BY <2>2
  <2> QED BY <2>1, <2>2, <2>3
<1>4. ASSUME ~v8 /\ ~v7 PROVE total >= hi
  <2>1. v3.at > 0
    BY <1>1
  <2>2. History!total > v3.at * PAGE \/ History!total = v3.at * PAGE
    BY <1>4, <2>1 DEF History!Following, History!Filled
  <2>3. total > hi \/ total = hi
    BY ONLY <1>1, <1>3, <2>2
  <2> QED BY <2>3
<1>5. ~v8 /\ ~v7 => History!total >= (at + 1) * PAGE /\ History!total > at * PAGE
  BY <1>3, <1>4
<1> QED BY <1>2, <1>5, TurnFollows

(* A later page is asked for, after the last round trip there is. *)
LEMMA AskedFollows ==
    ASSUME History!Following, History!NextAsked
    PROVE  History!Following'
<1>1. /\ v3.of = v1 /\ v3.more /\ ~History!loading
      /\ v1' = v1 /\ v2' = v2 /\ v3' = v3 /\ v7' = v7 /\ v8' = v8
  BY DEF History!NextAsked, History!CanTurn, History!current
<1>2. PICK f \in Filters, trips \in Seq(Nat), at \in Nat :
         f = v1 /\ f = v3.of /\ trips = v3.trips /\ at = v3.at /\ trips # <<>>
  BY <1>1, FollowingIs
<1>3. PICK n \in Nat, last \in Nat : n = Len(trips) /\ last = trips[n]
  BY <1>2
<1>4. /\ v5' = [of |-> f, after |-> last, target |-> at + 1]
      /\ v5'.of = f /\ v5'.after = last /\ v5'.target = at + 1
  BY <1>2, <1>3 DEF History!NextAsked
<1>5. History!Typed'
  <2>1. [of |-> f, after |-> last, target |-> at + 1] \in [of : Filters, after : Nat, target : Nat]
    OBVIOUS
  <2> QED BY <1>1, <1>4, <2>1, FollowingIs DEF History!Typed
<1>6. ASSUME ~v7
      PROVE  trips = History!Newest(n) /\ last = n /\ History!WholeReads(f, n)
  <2>1. trips = History!Newest(n) /\ History!WholeReads(f, n)
    BY <1>1, <1>2, <1>3, <1>6 DEF History!Following, History!NoGaps
  <2>2. n \in 1..n
    BY <1>2, <1>3
  <2>3. trips[n] = n
    BY <2>1, <2>2 DEF History!Newest
  <2> QED BY <1>3, <2>1, <2>3
<1>7. History!NoGaps'
  <2>1. ASSUME ~v7
        PROVE  /\ trips = History!Newest(Len(trips))
               /\ IF v3.more THEN History!WholeReads(f, Len(trips)) ELSE Len(trips) = Trips[f]
               /\ History!WholeReads(f, last) /\ Len(trips) = last
    BY <1>1, <1>3, <1>6, <2>1
  <2> QED BY <1>1, <1>2, <1>4, <2>1 DEF History!NoGaps
<1>8. History!total' = History!total
  <2>1. v3'.of = f /\ v3'.trips = trips
    BY <1>1, <1>2
  <2>2. History!total' = Len(History!RowsOf(f, trips))
    BY <1>1, <2>1, TotalThen
  <2> QED BY <1>2, <2>2 DEF History!total
<1>9. Len(History!RowsOf(v5.of, History!Newest(v5.after)))' =
          Len(History!RowsOf(f, History!Newest(last)))
  BY <1>1, <1>4, AskedThen
<1>10. ASSUME ~v8 /\ ~v7
       PROVE  Len(History!RowsOf(f, History!Newest(last))) >= (at + 1) * PAGE
  <2>1. History!total >= (at + 1) * PAGE
    BY <1>1, <1>2, <1>10 DEF History!Following, History!Filled
  <2>2. History!total = Len(History!RowsOf(f, History!Newest(last)))
    BY <1>2, <1>6, <1>10 DEF History!total
  <2> QED BY <2>1, <2>2
<1>11. History!Filled'
  <2>1. ~v8 /\ ~v7 =>
           /\ v3.more => History!total >= (v3.at + 1) * PAGE
           /\ v3.at > 0 => \/ History!total > v3.at * PAGE
                           \/ History!total = v3.at * PAGE /\ Trips[v3.of] % PAGE = 0
    BY DEF History!Following, History!Filled
  <2> QED BY <1>1, <1>4, <1>8, <1>9, <1>10, <2>1 DEF History!Filled
<1> QED BY <1>5, <1>7, <1>11 DEF History!Following

(* A later page arrives and is put behind the list it was asked for. *)
LEMMA LaterFollows ==
    ASSUME History!Following, History!TakeLater
    PROVE  History!Following'
<1>1. /\ History!loading /\ v5' = History!Nowhere
      /\ v1' = v1 /\ v2' = v2 /\ v7' = v7 /\ v8' = v8
  BY DEF History!TakeLater
<1>2. CASE v3.of # v5.of
  <2>1. v3' = v3
    BY <1>2 DEF History!TakeLater
  <2>2. v1' \in Filters
    BY <1>1, FollowingIs
  <2> QED BY <1>1, <2>1, <2>2, QuietFollows
<1>3. CASE v3.of = v5.of
  <2>1. PICK f \in Filters, trips \in Seq(Nat), n \in Nat, to \in Nat :
           /\ f = v3.of /\ f = v5.of /\ trips = v3.trips /\ n = v5.after /\ to = v5.target
    BY <1>3, FollowingIs
  <2>2. trips \in Seq(1..Trips[f])
    BY <2>1, FollowingIs
  <2>3. PICK s \in Seq(Nat), more \in BOOLEAN :
           /\ s = History!Read(f, n) /\ more = History!MayBeMore(f, n)
           /\ s \in Seq(1..Trips[f]) /\ (more => s # <<>>)
    BY ReadIs
  <2>4. v3' = [v3 EXCEPT !.trips = trips \o s, !.more = more, !.at = to]
    BY <2>1, <2>3 DEF History!TakeLater
  <2>5. PICK all : all = trips \o s
    OBVIOUS
  <2>6. all \in Seq(Nat) /\ all \in Seq(1..Trips[f]) /\ Len(all) = Len(trips) + Len(s)
    BY <2>2, <2>3, <2>5, ConcatProperties
  <2>7. /\ v3'.of = f /\ v3'.trips = all /\ v3'.more = more /\ v3'.at = to
        /\ v3' \in [of : Filters \cup {"none"}, trips : Seq(Nat), more : BOOLEAN, at : Nat]
    <3>1. v3 \in [of : Filters \cup {"none"}, trips : Seq(Nat), more : BOOLEAN, at : Nat]
      BY FollowingIs
    <3>2. v3' = [v3 EXCEPT !.trips = all, !.more = more, !.at = to]
      BY <2>4, <2>5
    <3> QED BY <2>1, <2>6, <3>1, <3>2
  <2>8. PICK L \in Nat, r \in Nat, t \in Nat, P \in Nat \ {0} :
           L = Len(trips) /\ r = Len(s) /\ t = Trips[f] /\ P = PAGE
    BY HistoryGround
  <2>9. Len(all) = L + r
    BY <2>6, <2>8
  <2>10. History!Typed'
    <3>1. more => all # <<>>
      <4>1. more => r # 0
        BY <2>3, <2>8
      <4>2. Len(<<>>) = 0
        OBVIOUS
      <4> QED BY <2>8, <2>9, <4>1, <4>2
    <3>2. v5' \in [of : Filters, after : Nat, target : Nat]
      BY <1>1, HistoryGround DEF History!Nowhere
    <3> QED BY <1>1, <2>6, <2>7, <3>1, <3>2, FollowingIs DEF History!Typed
  <2>11. ~History!loading'
    BY <1>1 DEF History!loading
  <2>12. ASSUME ~v7
         PROVE  /\ L = n /\ n >= P /\ n % PAGE = 0 /\ n <= t /\ trips = History!Newest(n)
                /\ all = History!Newest(n + r)
                /\ n + r <= t /\ IF more THEN r = P ELSE n + r = t
    <3>1. /\ trips = History!Newest(L) /\ L = n /\ History!WholeReads(f, n)
      BY <1>1, <2>1, <2>8, <2>12 DEF History!Following, History!NoGaps
    <3>2. n >= P /\ n % PAGE = 0 /\ n <= t
      BY <2>8, <3>1 DEF History!WholeReads
    <3>3. /\ n + r <= Trips[f]
          /\ History!Newest(n) \o s = History!Newest(n + r)
          /\ IF more THEN r = PAGE ELSE n + r = Trips[f]
      BY <2>3, <2>8, <3>2, ReadIs
    <3> QED BY <2>5, <2>8, <3>1, <3>2, <3>3
  <2>13. History!NoGaps'
    <3>1. ASSUME ~v7
          PROVE  /\ all = History!Newest(Len(all))
                 /\ IF more THEN History!WholeReads(f, Len(all)) ELSE Len(all) = Trips[f]
      <4>1. all = History!Newest(Len(all))
        BY <2>9, <2>12, <3>1
      <4>2. ~more => Len(all) = Trips[f]
        BY <2>8, <2>9, <2>12, <3>1
      <4>3. ASSUME more PROVE History!WholeReads(f, n + r)
        <5>1. n % P = 0
          BY <2>8, <2>12, <3>1
        <5>2. (n + P) % P = 0
          BY <5>1, WholePages
        <5>3. r = P /\ n + r <= t /\ n >= P
          BY <2>12, <3>1, <4>3
        <5>4. n + r >= P
          BY <5>3
        <5> QED BY <2>8, <5>2, <5>3, <5>4 DEF History!WholeReads
      <4> QED BY <2>9, <2>12, <3>1, <4>1, <4>2, <4>3
    <3> QED BY <1>1, <2>7, <2>11, <3>1 DEF History!NoGaps
  <2>14. PICK x \in Nat, y \in Nat :
            x = Len(History!RowsOf(f, trips)) /\ y = Len(History!RowsOf(f, s)) /\ y >= r
    BY <2>8, RowsAre
  <2>15. History!total' = x + y
    <3>1. History!total' = Len(History!RowsOf(f, all))
      BY <1>1, <2>7, TotalThen
    <3>2. PICK a \in Seq(Row), b \in Seq(Row) :
             a = History!RowsOf(f, trips) /\ b = History!RowsOf(f, s)
      BY RowsAre
    <3>3. History!RowsOf(f, all) = a \o b
      BY <2>5, <3>2, RowsConcat
    <3>4. Len(a \o b) = Len(a) + Len(b)
      BY ConcatProperties
    <3> QED BY <2>14, <3>1, <3>2, <3>3, <3>4
  <2>16. PICK lo \in Nat, hi \in Nat :
            lo = to * PAGE /\ hi = (to + 1) * PAGE /\ hi = lo + P
    <3>1. to * PAGE \in Nat /\ (to + 1) * PAGE = to * PAGE + PAGE /\ PAGE \in Nat
      BY PagesAre
    <3>2. (to + 1) * PAGE \in Nat
      BY <3>1
    <3> QED BY <2>8, <3>1, <3>2
  <2>17. ASSUME ~v8 /\ ~v7
         PROVE  /\ more => x + y >= hi
                /\ x + y > lo \/ (x + y = lo /\ Trips[f] % PAGE = 0)
    <3>1. x >= lo
      <4>1. Len(History!RowsOf(v5.of, History!Newest(v5.after))) >= v5.target * PAGE
        BY <1>1, <2>17 DEF History!Following, History!Filled
      <4>2. History!RowsOf(v5.of, History!Newest(v5.after)) = History!RowsOf(f, trips)
        BY <2>1, <2>12, <2>17
      <4> QED BY <2>1, <2>14, <2>16, <4>1, <4>2
    <3>2. more => r = P
      BY <2>12, <2>17
    <3>3. more => x + y >= hi
      BY ONLY <2>14, <2>16, <3>1, <3>2, x \in Nat, y \in Nat, r \in Nat, lo \in Nat, hi \in Nat,
              P \in Nat \ {0}
    <3>4. CASE r = 0
      <4>1. ~more
        BY <3>2, <3>4
      <4>2. n = t
        BY <2>12, <2>17, <3>4, <4>1
      <4>3. Trips[f] % PAGE = 0
        BY <2>8, <2>12, <2>17, <4>2
      <4>4. x + y > lo \/ x + y = lo
        BY ONLY <3>1, x \in Nat, y \in Nat, lo \in Nat
      <4> QED BY <3>3, <4>3, <4>4
    <3>5. CASE r # 0
      <4>1. x + y > lo
        BY ONLY <2>14, <3>1, <3>5, x \in Nat, y \in Nat, r \in Nat, lo \in Nat
      <4> QED BY <3>3, <4>1
    <3> QED BY <3>4, <3>5
  <2>18. History!Filled'
    BY <1>1, <2>7, <2>11, <2>15, <2>16, <2>17 DEF History!Filled
  <2> QED BY <2>10, <2>13, <2>18 DEF History!Following
<1> QED BY <1>2, <1>3

(* The tab is changed: on the first page nothing is lost by it. *)
LEMMA TabFollows ==
    ASSUME History!Following, History!Turn
    PROVE  History!Following'
<1>1. /\ v1' = v1 /\ v3' = v3 /\ v5' = v5 /\ v7' = v7
      /\ v2' \in {"positions", "orders"}
      /\ ~v8' => ~v8 /\ ~(v3.at > 0) /\ ~History!loading
  BY DEF History!Turn
<1>2. History!Typed'
  BY <1>1, FollowingIs DEF History!Typed
<1>3. History!loading' = History!loading
  BY <1>1 DEF History!loading
<1>4. History!NoGaps'
  BY <1>1, <1>3 DEF History!Following, History!NoGaps
<1>5. History!Filled'
  <2>1. ASSUME ~v8', ~v7, v3.more PROVE History!total' >= (v3.at + 1) * PAGE
    <3>1. v3.at = 0 /\ v3.of \in Filters
      BY <1>1, <2>1, FollowingIs
    <3>2. PICK f \in Filters, n \in Nat : f = v3.of /\ n = Len(v3.trips)
      BY <3>1, FollowingIs
    <3>3. n >= PAGE
      BY <2>1, <3>2 DEF History!Following, History!NoGaps, History!WholeReads
    <3>4. History!total' \in Nat /\ History!total' >= n
      <4>1. v3'.trips \in Seq(Nat) /\ Len(v3'.trips) = n
        BY <1>1, <3>2, FollowingIs
      <4> QED BY <4>1, ARowEachThen
    <3>5. (v3.at + 1) * PAGE = PAGE /\ PAGE \in Nat
      <4>1. 0 \in Nat
        OBVIOUS
      <4> QED BY <3>1, <4>1, PagesAre
    <3> QED BY <3>3, <3>4, <3>5
  <2> QED BY <1>1, <1>3, <2>1 DEF History!Filled
<1> QED BY <1>2, <1>4, <1>5 DEF History!Following

(* Every step of the history keeps what is followed. *)
LEMMA HistoryFollows ==
    ASSUME History!Following, History!Next
    PROVE  History!Following'
<1>1. CASE History!TakeFirst
  BY <1>1, FirstFollows
<1>2. CASE History!FirstFails
  <2>1. v1' = v1 /\ v2' = v2 /\ v3' = v3 /\ v5' = v5 /\ v7' = v7 /\ v8' = v8
    BY <1>2 DEF History!FirstFails
  <2>2. v1' \in Filters
    BY <2>1, FollowingIs
  <2> QED BY <2>1, <2>2, QuietFollows
<1>3. CASE History!NextKept
  BY <1>3, NextKeptFollows
<1>4. CASE History!NextAsked
  BY <1>4, AskedFollows
<1>5. CASE History!TakeLater
  BY <1>5, LaterFollows
<1>6. CASE History!LaterFails
  <2>1. v1' = v1 /\ v2' = v2 /\ v3' = v3 /\ v5' = History!Nowhere /\ v7' = v7 /\ v8' = v8
    BY <1>6 DEF History!LaterFails
  <2>2. v1' \in Filters
    BY <2>1, FollowingIs
  <2> QED BY <2>1, <2>2, QuietFollows
<1>7. CASE History!Prev
  BY <1>7, PrevFollows
<1>8. CASE History!Turn
  BY <1>8, TabFollows
<1>9. ASSUME NEW f \in Filters, History!Filter(f) PROVE History!Following'
  <2>1. v1' = f /\ v2' = v2 /\ v3' = v3 /\ v5' = v5 /\ v7' = v7 /\ v8' = v8
    BY <1>9 DEF History!Filter
  <2> QED BY <2>1, QuietFollows
<1> QED BY <1>1, <1>2, <1>3, <1>4, <1>5, <1>6, <1>7, <1>8, <1>9 DEF History!Next

(* And it begins with it. *)
LEMMA HistoryBegins ==
    ASSUME History!Init
    PROVE  History!Following
<1>1. /\ v1 = FirstFilter /\ v2 = "positions" /\ v3 = History!Unread /\ v5 = History!Nowhere
  BY DEF History!Init
<1>2. v3.of = "none" /\ v3.trips = <<>> /\ v3.more = FALSE /\ v3.at = 0
  BY <1>1 DEF History!Unread
<1>3. History!Unread \in [of : Filters \cup {"none"}, trips : Seq(Nat), more : BOOLEAN, at : Nat]
  BY DEF History!Unread
<1>4. History!Nowhere \in [of : Filters, after : Nat, target : Nat]
  BY HistoryGround DEF History!Nowhere
<1>5. ~History!loading
  BY <1>1 DEF History!loading
<1>6. History!Typed
  BY <1>1, <1>2, <1>3, <1>4, HistoryGround DEF History!Typed
<1>7. History!NoGaps
  BY <1>2, <1>5, HistoryGround DEF History!NoGaps
<1>8. History!Filled
  <2>1. ~(v3.at > 0)
    BY <1>2
  <2> QED BY <1>2, <1>5, <2>1 DEF History!Filled
<1> QED BY <1>6, <1>7, <1>8 DEF History!Following

(* What is followed is what the page shows. *)
LEMMA PageOfFollowed ==
    ASSUME History!Following
    PROVE  History!PageIsItsRows
<1> SUFFICES ASSUME v3.of = v1 PROVE
        /\ History!Shown = SubSeq(History!Rows, v3.at * PAGE + 1,
                                  History!Upto((v3.at + 1) * PAGE, History!Rows))
        /\ ~v7 => v3.trips = [k \in 1..Len(v3.trips) |-> k]
        /\ ~v8 /\ ~v7 =>
              /\ Len(History!Shown) < PAGE => ~v3.more /\ History!total <= (v3.at + 1) * PAGE
              /\ History!Shown = <<>> => Trips[v1] % PAGE = 0
  BY DEF History!PageIsItsRows, History!current
<1>1. PICK at \in Nat, lo \in Nat, hi \in Nat, P \in Nat, total \in Nat :
         /\ at = v3.at /\ lo = at * PAGE /\ hi = (at + 1) * PAGE /\ hi = lo + P
         /\ P = PAGE /\ P >= 1 /\ total = History!total /\ total >= Len(v3.trips)
         /\ at = 0 => lo = 0
  <2>1. PICK at \in Nat : at = v3.at
    BY FollowingIs
  <2>2. at * PAGE \in Nat /\ (at + 1) * PAGE = at * PAGE + PAGE /\ PAGE \in Nat /\ PAGE >= 1
        /\ 0 * PAGE = 0
    BY PagesAre
  <2>3. (at + 1) * PAGE \in Nat
    BY <2>2
  <2>4. History!total \in Nat /\ History!total >= Len(v3.trips)
    BY FollowingIs, ARowEach
  <2> QED BY <2>1, <2>2, <2>3, <2>4
<1>2. /\ History!Shown = SubSeq(History!Rows, lo + 1, History!Upto(hi, History!Rows))
      /\ Len(History!Shown) = IF total <= lo THEN 0 ELSE IF hi <= total THEN P ELSE total - lo
  BY <1>1, FollowingIs, TheCut
<1>3. PICK shown \in Nat :
         /\ shown = Len(History!Shown)
         /\ shown = IF total <= lo THEN 0 ELSE IF hi <= total THEN P ELSE total - lo
  <2>1. (IF total <= lo THEN 0 ELSE IF hi <= total THEN P ELSE total - lo) \in Nat
    OBVIOUS
  <2> QED BY <1>2, <2>1
<1>4. hi = lo + P /\ P >= 1
  BY <1>1
<1>5. v1 \in Filters /\ v3.of \in Filters
  BY FollowingIs
<1>6. ASSUME ~v7 PROVE v3.trips = [k \in 1..Len(v3.trips) |-> k]
  BY <1>5, <1>6 DEF History!Following, History!NoGaps, History!Newest
<1>7. ASSUME ~v8 /\ ~v7, Len(History!Shown) < PAGE
      PROVE  ~v3.more /\ History!total <= (v3.at + 1) * PAGE
  <2>1. shown < P
    BY <1>1, <1>3, <1>7
  <2>2. ~(hi <= total)
    BY ONLY <1>3, <1>4, <2>1, shown \in Nat, lo \in Nat, hi \in Nat, P \in Nat, total \in Nat
  <2>3. ~v3.more
    <3>1. v3.more => total >= hi
      BY <1>1, <1>7 DEF History!Following, History!Filled
    <3> QED BY <2>2, <3>1
  <2>4. total <= hi
    BY <2>2
  <2> QED BY <1>1, <2>3, <2>4
<1>8. ASSUME ~v8 /\ ~v7, History!Shown = <<>>
      PROVE  Trips[v1] % PAGE = 0
  <2>1. shown = 0
    <3>1. Len(<<>>) = 0
      OBVIOUS
    <3> QED BY <1>3, <1>8, <3>1
  <2>2. total <= lo
    BY ONLY <1>3, <1>4, <2>1, shown \in Nat, lo \in Nat, hi \in Nat, P \in Nat, total \in Nat
  <2>3. CASE at > 0
    <3>1. total > lo \/ Trips[v3.of] % PAGE = 0
      BY <1>1, <1>8, <2>3 DEF History!Following, History!Filled
    <3> QED BY <2>2, <3>1
  <2>4. CASE ~(at > 0)
    <3>1. at = 0 /\ total = 0
      BY <1>1, <2>2, <2>4
    <3>2. Len(v3.trips) = 0 /\ v3.trips = <<>>
      <4>1. Len(v3.trips) \in Nat
        BY FollowingIs
      <4>2. Len(v3.trips) = 0
        BY <1>1, <3>1, <4>1
      <4> QED BY <4>2, FollowingIs
    <3>3. ~v3.more
      BY <3>2, FollowingIs
    <3>4. Trips[v3.of] = 0
      BY <1>5, <1>8, <3>2, <3>3 DEF History!Following, History!NoGaps
    <3> QED BY <3>4, NoPages
  <2> QED BY <2>3, <2>4
<1> QED BY <1>1, <1>2, <1>6, <1>7, <1>8

(***************************************************************************)
(* history.tsx, useHistory and pageOf: for all journals and page sizes,    *)
(* and however reads, filters and tabs cross, the rows shown are the       *)
(* page's, none twice and none missing, the newest round trips without a   *)
(* gap unless a list was begun again under a later page, and a page turned *)
(* to is full unless the journal ends on it.                               *)
(***************************************************************************)
THEOREM ThePageIsItsRows == ScreensSpec => []PageIsItsRows
<1> DEFINE I == screen = "history" => History!Following
<1>1. ScreensInit => I
  BY HistoryBegins DEF ScreensInit
<1>2. I /\ [ScreensNext]_<<screen, slots, vars>> => I'
  <2> SUFFICES ASSUME I, [ScreensNext]_<<screen, slots, vars>>, screen' = "history"
               PROVE  History!Following'
    BY DEF I
  <2>1. screen = "history" /\ History!Following
    BY AScreenSteps
  <2>2. CASE UNCHANGED slots
    <3>1. v1' = v1 /\ v2' = v2 /\ v3' = v3 /\ v5' = v5 /\ v7' = v7 /\ v8' = v8
      BY <2>2 DEF slots
    <3>2. v1' \in Filters
      BY <2>1, <3>1, FollowingIs
    <3> QED BY <2>1, <3>1, <3>2, QuietFollows
  <2>3. CASE History!Next
    BY <2>1, <2>3, HistoryFollows
  <2> QED BY <2>1, <2>2, <2>3, AScreenSteps
<1>3. I => PageIsItsRows
  BY PageOfFollowed DEF PageIsItsRows
<1> QED BY <1>1, <1>2, <1>3, PTL DEF ScreensSpec
=============================================================================
