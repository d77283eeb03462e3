-------------------------- MODULE PhoneAccountProofs --------------------------
(***************************************************************************)
(* That the screen which opens an account is left only when that account   *)
(* is open, and that no run sends a step the chain must refuse: for any    *)
(* wallets, draws, requests under way, launches and failures.              *)
(*                                                                         *)
(* The inductive invariant says what each part knows of the next.  The     *)
(* layer names the wallet it is signed in with.  A screen that is not the  *)
(* exchange's keeps nothing of it.  What was answered about the wallet     *)
(* that is named was true then, and of what was answered nothing is undone.*)
(* A run that is not disturbed has the wallet's transactions to itself.    *)
(***************************************************************************)
EXTENDS PhoneAccount, SequenceTheorems, TLAPS

-----------------------------------------------------------------------------
(* Types *)

Steps == {"approve", "create", "forward"}
Plans == {<<"forward">>, <<"create", "forward">>, <<"approve", "create", "forward">>}
Funds == {"gas", "collateral", "allowance"}

Accounts ==
    {Loading, SignedOut} \cup
    {Remembered(w) : w \in Wallets} \cup {Unlocked(w) : w \in Wallets}
Ceremonies ==
    {NoCeremony} \cup
    [at : {"prompt", "saved", "adopted", "leaving"}, wallet : Wallets]
Views == [seen : {"unknown", "active"} \cup Pending, for : Wallets \cup {Nobody},
          locked : BOOLEAN, offline : BOOLEAN, waited : BOOLEAN]
Asked == [asked : Wallets \cup {Nobody}, at : {"signing", "answered"},
          status : {"unknown", "locked", "active"} \cup Pending]
ExchangeKeys == [state : {"unknown", "missing", "enabled"},
                 lookup : {"none", "asked", "enabled", "missing"},
                 enroll : {"idle", "asked", "done"}, draws : Nat, failed : BOOLEAN]
Activations == [net : BOOLEAN, asking : BOOLEAN, read : BOOLEAN, has : SUBSET Funds,
                progress : BOOLEAN, failed : BOOLEAN]
Buttons == [started : BOOLEAN, latched : BOOLEAN]
Runs == {NoRun} \cup [at : {"send", "wait"}, wallet : Wallets, steps : Plans]

WorldTypes ==
    /\ chain \in [Wallets -> SUBSET (Funds \cup {"account", "forward"})]
    /\ mempool \in [Wallets -> Seq(Steps)]
LayerTypes ==
    /\ {stored, seed, named} \subseteq Wallets \cup {Nobody}
    /\ account \in Accounts
    /\ ceremony \in Ceremonies
ScreenTypes ==
    /\ place \in {"entry", "passkey", "enable", "account"}
    /\ view \in Views /\ polls \subseteq Asked
    /\ key \in ExchangeKeys /\ activation \in Activations /\ button \in Buttons
    /\ run \in Runs
Typed == WorldTypes /\ LayerTypes /\ ScreenTypes

-----------------------------------------------------------------------------
(* What each part knows of the next *)

(* The wallet signed in with is the one written down, and the one named,   *)
(* but while a ceremony is half done: that one has its screen to itself.   *)
Layered ==
    /\ account.at = "unlocked" => account.wallet = stored
    /\ ceremony.at \notin {"adopted", "leaving"} => named = WalletOf(account)
    /\ ceremony.at = "adopted" => stored = ceremony.wallet /\ named = ceremony.wallet
    /\ ceremony.at \in {"prompt", "saved", "adopted"} =>
          place = "passkey" /\ account.at \in {"none", "remembered"}
    /\ ceremony.at = "leaving" => place = "account" /\ named = Nobody

(* What a wallet has been through. *)
Lived ==
    \A w \in Wallets :
        /\ "collateral" \in chain[w] => "gas" \in chain[w] /\ "account" \notin chain[w]
        /\ "account" \in chain[w] => "gas" \in chain[w]
        /\ "forward" \in chain[w] => "account" \in chain[w]

(* Elsewhere, and without a wallet, the exchange's screen knows nothing.   *)
Rests(there, acc, v, p, k, a, b) ==
    /\ there # "enable" => k = NoKey /\ a = NoActivation /\ b = NoButton
    /\ there \in {"passkey", "account"} => v = NoView /\ p = {}
    /\ acc.at # "unlocked" => k = NoKey /\ a.has = {} /\ ~b.latched

(* What was answered to the wallet that is named has stayed true.          *)
Says(status, asked) ==
    /\ asked # Nobody => asked = named
    /\ status \in Pending => named # Nobody
    /\ status = "forwarding_disabled" => "account" \in chain[named]
    /\ status = "active" /\ asked # Nobody => IsOpen(named)
Truths(v, p) == Says(v.seen, v.for) /\ \A q \in p : Says(q.status, q.asked)

(* No transaction is left over by a relaunch, no run begun beside another. *)
Undisturbed == faults \cap {"orphan", "again"} = {}

(* A step at hand can be taken, and so can the ones after it. *)
CanGoOn(w, step) ==
    /\ Valid(w, step)
    /\ step = "approve" => "collateral" \in chain[w]
    /\ "forward" \notin chain[w]
(* Before the run, what the screen knows is how the wallet still stands;   *)
(* then there is at most one transaction, and the run, or none any more,   *)
(* waits for it.                                                           *)
Grounds(v, p, a, b, r) ==
    /\ ~b.latched =>
          /\ r = NoRun /\ \A w \in Wallets : mempool[w] = <<>>
          /\ a.has # {} => a.has \subseteq chain[named]
          /\ v.seen \in Pending => "forward" \notin chain[named]
          /\ \A q \in p : q.status \in Pending => "forward" \notin chain[named]
    /\ \A w \in Wallets : mempool[w] # <<>> =>
          /\ w = named
          /\ \E step \in Steps : mempool[w] = <<step>> /\ CanGoOn(w, step)
    /\ r.at # "none" => r.wallet = named /\ CanGoOn(r.wallet, Head(r.steps))
    /\ r.at = "send" => mempool[r.wallet] = <<>>
    /\ r.at = "wait" => mempool[r.wallet] = <<Head(r.steps)>>

IInv ==
    /\ Typed /\ Layered /\ Lived
    /\ Rests(place, account, view, polls, key, activation, button)
    /\ Truths(view, polls)
    /\ Undisturbed => Grounds(view, polls, activation, button, run)

-----------------------------------------------------------------------------
(* The render *)

StaysOn(acc, v, p, k, a, b, r) ==
    /\ place' = place /\ view' = v /\ polls' = p
    /\ \/ key' = k
       \/ /\ key' = [k EXCEPT !.lookup = "asked"]
          /\ place = "enable" /\ WalletOf(acc) # WalletOf(account)
    /\ activation' \in Activations /\ activation'.has = a.has
    /\ a = NoActivation /\ place # "enable" => activation' = NoActivation
    /\ \/ button' = b /\ run' = r
       \/ /\ place = "enable" /\ MayRun(acc, v, k, a, b, r)
          /\ button' = [b EXCEPT !.latched = TRUE]
          /\ run' = [at |-> "send", wallet |-> WalletOf(acc), steps |-> Plan(v, a)]

(* It goes to another screen, or stays and may begin the run. *)
LEMMA RenderIs ==
    ASSUME NEW acc, NEW v, NEW p, NEW k \in ExchangeKeys, NEW a \in Activations,
           NEW b \in Buttons, NEW r, Show(acc, v, p, k, a, b, r)
    PROVE  \/ Where(acc, v, k) # place /\ Mount(Where(acc, v, k), acc) /\ run' = r
           \/ StaysOn(acc, v, p, k, a, b, r)
<1>1. CASE Where(acc, v, k) # place
  BY <1>1 DEF Show
<1>2. CASE Where(acc, v, k) = place
  <2> USE DEF StaysOn
  <2> DEFINE starts == place = "enable" /\ MayRun(acc, v, k, a, b, r)
             wakes == place = "enable" /\ Lacks(acc, v) /\ ~Lacks(account, view)
  <2>1. /\ place' = place /\ view' = v /\ polls' = p
        /\ key' = IF place = "enable" /\ WalletOf(acc) # WalletOf(account)
                  THEN [k EXCEPT !.lookup = "asked"] ELSE k
        /\ activation' = [a EXCEPT !.asking = wakes \/ (@ /\ Lacks(acc, v)),
                                   !.progress = @ \/ starts,
                                   !.failed = @ /\ ~starts]
        /\ button' = [b EXCEPT !.latched = @ \/ starts]
        /\ run' = IF starts THEN [at |-> "send", wallet |-> WalletOf(acc), steps |-> Plan(v, a)]
                  ELSE r
    BY <1>2 DEF Show
  <2>2. Lacks(acc, v) \in BOOLEAN /\ Lacks(account, view) \in BOOLEAN
        /\ MayRun(acc, v, k, a, b, r) \in BOOLEAN
    BY DEF Lacks, MayRun
  <2> HIDE DEF starts, wakes
  <2>3. starts \in BOOLEAN /\ wakes \in BOOLEAN
    BY <2>2 DEF starts, wakes
  <2>4. activation' \in Activations /\ activation'.has = a.has
    BY <2>1, <2>2, <2>3 DEF Activations
  <2>5. ASSUME a = NoActivation, place # "enable"
        PROVE  activation' = NoActivation
    <3>1. ~starts /\ ~wakes
      BY <2>5 DEF starts, wakes
    <3> QED BY <2>1, <2>2, <2>5, <3>1 DEF NoActivation
  <2>6. CASE starts
    <3>1. button' = [b EXCEPT !.latched = TRUE]
      BY <2>1, <2>6
    <3> QED BY <2>1, <2>4, <2>5, <2>6, <3>1 DEF starts
  <2>7. CASE ~starts
    <3>1. button' = b
      BY <2>1, <2>3, <2>7 DEF Buttons
    <3> QED BY <2>1, <2>4, <2>5, <2>7, <3>1
  <2> QED BY <2>3, <2>6, <2>7
<1> QED BY <1>1, <1>2

(* A screen just opened knows nothing. *)
LEMMA Blanks ==
    /\ NoView \in Views /\ NoKey \in ExchangeKeys /\ [NoKey EXCEPT !.lookup = "asked"] \in ExchangeKeys
    /\ NoActivation \in Activations /\ NoButton \in Buttons /\ NoRun \in Runs
BY DEF NoView, NoKey, NoActivation, NoButton, NoRun, Views, ExchangeKeys, Activations, Buttons,
       Runs, Funds, Pending

LEMMA PlansAre ==
    ASSUME NEW v, NEW a
    PROVE  /\ Plan(v, a) \in Plans
           /\ Head(Plan(v, a)) = IF v.seen = "forwarding_disabled" THEN "forward"
                                 ELSE IF "allowance" \in a.has THEN "create" ELSE "approve"
<1>1. v.seen = "forwarding_disabled" => Plan(v, a) = <<"forward">>
  BY DEF Plan
<1>2. ASSUME v.seen # "forwarding_disabled"
      PROVE  Plan(v, a) = IF "allowance" \in a.has THEN <<"create", "forward">>
                          ELSE <<"approve", "create", "forward">>
  <2>1. <<>> \o <<"create", "forward">> = <<"create", "forward">>
    OBVIOUS
  <2>2. <<"approve">> \o <<"create", "forward">> = <<"approve", "create", "forward">>
    <3> DEFINE s == <<"approve">> \o <<"create", "forward">>
               t == <<"approve", "create", "forward">>
    <3>1. /\ <<"approve">> \in Seq(Steps) /\ <<"create", "forward">> \in Seq(Steps)
          /\ t \in Seq(Steps)
      BY DEF Steps
    <3>2. s \in Seq(Steps) /\ Len(s) = 3 /\ Len(t) = 3
      BY <3>1
    <3>3. s[1] = t[1] /\ s[2] = t[2] /\ s[3] = t[3]
      BY <3>1
    <3> HIDE DEF s, t
    <3>4. \A i \in 1 .. 3 : i = 1 \/ i = 2 \/ i = 3
      OBVIOUS
    <3>5. \A i \in 1 .. Len(s) : s[i] = t[i]
      BY <3>2, <3>3, <3>4
    <3>6. s = t
      BY <3>1, <3>2, <3>5, SeqEqual
    <3> QED BY <3>6 DEF s, t
  <2> QED BY <1>2, <2>1, <2>2 DEF Plan
<1> QED BY <1>1, <1>2 DEF Plans

(* Of whom there is a wallet, it is a wallet. *)
LEMMA WalletIs ==
    ASSUME AccountAssumption, NEW acc \in Accounts
    PROVE  /\ acc.at = "unlocked" <=> WalletOf(acc) # Nobody
           /\ acc.at = "unlocked" => WalletOf(acc) = acc.wallet /\ acc.wallet \in Wallets
           /\ WalletOf(acc) \in Wallets \cup {Nobody}
           /\ acc.at \in {"loading", "none", "remembered", "unlocked"}
           /\ acc.wallet \in Wallets \cup {Nobody}
           /\ acc.at = "loading" <=> acc = Loading
BY DEF AccountAssumption, Accounts, Loading, SignedOut, Remembered, Unlocked, WalletOf

(* What is shown keeps what it was shown with. *)
LEMMA RenderKeeps ==
    ASSUME AccountAssumption, Typed, WorldTypes', LayerTypes', Lived',
           NEW v \in Views, NEW p \in SUBSET Asked, NEW k \in ExchangeKeys,
           NEW a \in Activations, NEW b \in Buttons, NEW r \in Runs,
           Show(account', v, p, k, a, b, r),
           account' = account \/ account.at # "unlocked",
           place \in {"entry", "enable"} => named' = WalletOf(account'),
           Rests(place, account', v, p, k, a, b), Truths(v, p)',
           Undisturbed' => Grounds(v, p, a, b, r)'
    PROVE  /\ ScreenTypes'
           /\ Rests(place, account, view, polls, key, activation, button)'
           /\ Truths(view, polls)'
           /\ (Undisturbed => Grounds(view, polls, activation, button, run))'
<1> DEFINE there == Where(account', v, k)
<1>1. /\ account'.at = "unlocked" <=> WalletOf(account') # Nobody
      /\ account'.at = "unlocked" => account'.wallet \in Wallets /\ WalletOf(account') = account'.wallet
      /\ account.at # "unlocked" => WalletOf(account) = Nobody
  BY WalletIs DEF LayerTypes, Typed, WalletOf
<1>2. place \in {"entry", "passkey", "enable", "account"}
  BY DEF Typed, ScreenTypes
<1>3. there \in {"entry", "passkey", "enable", "account"}
  BY <1>2 DEF Where, NextStep
<1>a. there # place => there # "account"
  BY <1>2 DEF Where, NextStep
<1> HIDE DEF there
<1>4. CASE there # place /\ Mount(there, account') /\ run' = r
  <2>1. /\ place' = there /\ view' = NoView /\ polls' = {} /\ activation' = NoActivation
        /\ button' = NoButton /\ run' = r
        /\ key' = IF there = "enable" /\ WalletOf(account') # Nobody
                  THEN [NoKey EXCEPT !.lookup = "asked"] ELSE NoKey
    BY <1>4 DEF Mount
  <2>2. ScreenTypes'
    BY <1>3, <2>1, Blanks DEF ScreenTypes
  <2>3. Rests(place, account, view, polls, key, activation, button)'
    BY <1>1, <2>1 DEF Rests, NoActivation, NoButton
  <2>4. Truths(view, polls)'
    BY <2>1 DEF Truths, Says, NoView, Pending
  <2>5. ASSUME Undisturbed'
        PROVE  Grounds(view, polls, activation, button, run)'
    <3>1. Grounds(v, p, a, b, r)'
      BY <2>5
    <3>2. CASE b.latched
      <4>1. place = "enable"
        BY <3>2 DEF Rests, NoButton
      <4>2. Done(account', v, k)
        BY <1>4, <4>1 DEF Where, there
      <4>3. v.seen = "active" /\ v.for # Nobody
        BY <4>2, <1>1 DEF Done, Heard, Views
      <4>4. "forward" \in chain'[named']
        <5>1. IsOpen(named)'
          BY <4>3 DEF Truths, Says
        <5>2. named' # Nobody
          BY <4>3 DEF Truths, Says
        <5> QED BY <5>1, <5>2 DEF IsOpen, StatusOf
      <4>5. r.at = "none" /\ \A w \in Wallets : mempool'[w] = <<>>
        BY <3>1, <4>4 DEF Grounds, CanGoOn
      <4>6. r = NoRun
        BY <4>5 DEF Runs
      <4> QED BY <2>1, <4>5, <4>6 DEF Grounds, NoRun, NoView, NoActivation, Pending
    <3>3. CASE ~b.latched
      <4>1. r = NoRun /\ \A w \in Wallets : mempool'[w] = <<>>
        BY <3>1, <3>3 DEF Grounds
      <4> QED BY <2>1, <4>1 DEF Grounds, NoRun, NoView, NoActivation, Pending
    <3> QED BY <3>2, <3>3 DEF Buttons
  <2> QED BY <2>2, <2>3, <2>4, <2>5
<1>5. ASSUME StaysOn(account', v, p, k, a, b, r)
      PROVE  /\ ScreenTypes'
             /\ Rests(place, account, view, polls, key, activation, button)'
             /\ Truths(view, polls)'
             /\ (Undisturbed => Grounds(view, polls, activation, button, run))'
  <2> USE <1>5 DEF StaysOn
  <2>1. MayRun(account', v, k, a, b, r) => account'.at = "unlocked" /\ place = "enable"
    BY DEF MayRun, Rests, NoKey
  <2>2. (button' = b /\ run' = r) \/ account'.at = "unlocked"
    BY <2>1
  <2>3. key' = k \/ account'.at = "unlocked"
    BY <1>1
  <2>4. ScreenTypes'
    <3>1. key' \in ExchangeKeys
      BY DEF ExchangeKeys
    <3>2. button' \in Buttons
      BY DEF Buttons
    <3>3. run' \in Runs
      <4>1. CASE run' = r
        BY <4>1
      <4>2. CASE /\ MayRun(account', v, k, a, b, r)
                 /\ run' = [at |-> "send", wallet |-> WalletOf(account'), steps |-> Plan(v, a)]
        BY <1>1, <2>1, <4>2, PlansAre DEF Runs
      <4> QED BY <4>1, <4>2
    <3> QED BY <1>2, <3>1, <3>2, <3>3 DEF ScreenTypes
  <2>5. Rests(place, account, view, polls, key, activation, button)'
    <3>1. place' # "enable" => key' = NoKey /\ activation' = NoActivation /\ button' = NoButton
      BY DEF Rests
    <3>2. place' \in {"passkey", "account"} => view' = NoView /\ polls' = {}
      BY DEF Rests
    <3>3. account'.at # "unlocked" => key' = NoKey /\ activation'.has = {} /\ ~button'.latched
      BY <2>2, <2>3 DEF Rests
    <3> QED BY <3>1, <3>2, <3>3 DEF Rests
  <2>6. Truths(view, polls)'
    BY DEF Truths, Says
  <2>7. ASSUME Undisturbed'
        PROVE  Grounds(view, polls, activation, button, run)'
    <3>1. Grounds(v, p, a, b, r)'
      BY <2>7
    <3>2. CASE button' = b /\ run' = r
      BY <3>1, <3>2 DEF Grounds
    <3>3. CASE /\ place = "enable" /\ MayRun(account', v, k, a, b, r)
               /\ button' = [b EXCEPT !.latched = TRUE]
               /\ run' = [at |-> "send", wallet |-> WalletOf(account'), steps |-> Plan(v, a)]
      <4> DEFINE w == WalletOf(account')
                 step == Head(Plan(v, a))
      <4>1. /\ ~b.latched /\ Funded(account', v, a)
            /\ w \in Wallets /\ w # Nobody /\ named' = w
        BY <1>1, <2>1, <3>3 DEF MayRun
      <4>2. /\ \A u \in Wallets : mempool'[u] = <<>>
            /\ a.has # {} => a.has \subseteq chain'[w]
            /\ v.seen \in Pending => "forward" \notin chain'[w]
        BY <3>1, <4>1 DEF Grounds
      <4>3. v.seen = "forwarding_disabled" => "account" \in chain'[w]
        BY <4>1 DEF Truths, Says
      <4>4. v.seen # "forwarding_disabled" => "collateral" \in a.has
        BY <4>1 DEF Funded
      <4>5. "forward" \notin chain'[w]
        <5>1. CASE v.seen = "forwarding_disabled"
          BY <4>2, <5>1 DEF Pending
        <5>2. CASE v.seen # "forwarding_disabled"
          <6>1. "collateral" \in chain'[w]
            BY <4>2, <4>4, <5>2
          <6> QED BY <4>1, <6>1 DEF Lived
        <5> QED BY <5>1, <5>2
      <4>6. step = IF v.seen = "forwarding_disabled" THEN "forward"
                   ELSE IF "allowance" \in a.has THEN "create" ELSE "approve"
        BY PlansAre
      <4>7. v.seen # "forwarding_disabled" => "collateral" \in chain'[w]
        BY <4>2, <4>4
      <4>8. "allowance" \in a.has => "allowance" \in chain'[w]
        BY <4>2
      <4>9. button'.latched
        BY <3>3 DEF Buttons
      <4>10. run'.at = "send" /\ run'.wallet = w /\ Head(run'.steps) = step
        BY <3>3
      <4> HIDE DEF w, step
      <4>11. CanGoOn(run.wallet, Head(run.steps))'
        <5>1. run'.wallet = w /\ Head(run'.steps) = step
          BY <4>10
        <5>2. /\ step = "forward" => "account" \in chain'[w]
              /\ step = "create" => {"allowance", "collateral"} \subseteq chain'[w]
              /\ step = "approve" => "collateral" \in chain'[w]
              /\ step \in {"forward", "create", "approve"}
          BY <4>3, <4>6, <4>7, <4>8
        <5> QED BY <4>5, <5>1, <5>2 DEF CanGoOn, Valid
      <4> QED BY <4>1, <4>2, <4>9, <4>10, <4>11 DEF Grounds
    <3> QED BY <3>2, <3>3
  <2> QED BY <2>4, <2>5, <2>6, <2>7
<1>6. CASE Where(account', v, k) # place /\ Mount(Where(account', v, k), account') /\ run' = r
  BY <1>4, <1>6 DEF there
<1>7. \/ Where(account', v, k) # place /\ Mount(Where(account', v, k), account') /\ run' = r
      \/ StaysOn(account', v, p, k, a, b, r)
  BY RenderIs
<1> QED BY <1>5, <1>6, <1>7

-----------------------------------------------------------------------------
(* The steps that change what the screen knows, and nothing else *)

(* The exchange's screen is left for the lobby when its account is open.   *)
LeftWhenOpen == place = "enable" /\ place' = "entry" => IsOpen(account.wallet)

LEMMA LeavingIsDone ==
    ASSUME AccountAssumption, Typed, account' = account, place = "enable", place' # "enable",
           NEW v \in Views, NEW p, NEW k \in ExchangeKeys, NEW a \in Activations,
           NEW b \in Buttons, NEW r, Show(account, v, p, k, a, b, r), Truths(v, p),
           Rests(place, account, v, p, k, a, b)
    PROVE  IsOpen(account.wallet)
<1>1. Where(account, v, k) # place
  BY RenderIs DEF StaysOn
<1>2. Done(account, v, k)
  BY <1>1 DEF Where
<1>3. v.seen = "active" /\ v.for # Nobody /\ v.for = WalletOf(account)
  BY <1>2 DEF Done, Heard, Views
<1>4. v.for = account.wallet
  BY <1>3 DEF WalletOf
<1> QED BY <1>3, <1>4 DEF Truths, Says

LEMMA KnowingKeeps ==
    ASSUME AccountAssumption, IInv,
           NEW v \in Views, NEW p \in SUBSET Asked, NEW k \in ExchangeKeys,
           NEW a \in Activations, NEW b \in Buttons, NEW r \in Runs,
           Show(account, v, p, k, a, b, r),
           UNCHANGED <<enrolled, chain, mempool, keptVars, layerVars>>,
           Undisturbed' => Undisturbed,
           Rests(place, account, v, p, k, a, b), Truths(v, p),
           Undisturbed' => Grounds(v, p, a, b, r)
    PROVE  IInv' /\ LeftWhenOpen
<1> USE DEF keptVars, layerVars
<1>1. Typed /\ Layered /\ Lived
  BY DEF IInv
<1>2. WorldTypes' /\ LayerTypes' /\ Lived'
  BY <1>1 DEF Typed, WorldTypes, LayerTypes, Lived
<1>3. Truths(v, p)'
  BY DEF Truths, Says, IsOpen, StatusOf
<1>4. Undisturbed' => Grounds(v, p, a, b, r)'
  BY DEF Grounds, CanGoOn, Valid
<1>5. place \in {"entry", "enable"} => named' = WalletOf(account')
  BY <1>1 DEF Layered
<1>6. Rests(place, account', v, p, k, a, b) /\ Show(account', v, p, k, a, b, r)
  OBVIOUS
<1>7. /\ ScreenTypes'
      /\ Rests(place, account, view, polls, key, activation, button)'
      /\ Truths(view, polls)'
      /\ (Undisturbed => Grounds(view, polls, activation, button, run))'
  BY <1>1, <1>2, <1>3, <1>4, <1>5, <1>6, RenderKeeps
<1>8. Layered'
  <2>1. place' = place \/ place' = Where(account, v, k)
    BY RenderIs DEF StaysOn, Mount
  <2>2. place = "passkey" /\ account.at # "unlocked" => place' = place
    BY <2>1 DEF Where
  <2>3. place = "account" => place' = place
    BY <2>1 DEF Where
  <2> QED BY <1>1, <2>2, <2>3 DEF Layered, WalletOf
<1>9. LeftWhenOpen
  BY <1>1, LeavingIsDone DEF LeftWhenOpen
<1> QED BY <1>2, <1>7, <1>8, <1>9 DEF IInv, Typed

(* Most of them learn nothing of the wallet. *)
LEMMA LearningNothingKeeps ==
    ASSUME AccountAssumption, IInv,
           NEW v \in Views, NEW p \in SUBSET polls, NEW k \in ExchangeKeys,
           NEW a \in Activations, Show(account, v, p, k, a, button, run),
           UNCHANGED <<enrolled, chain, mempool, keptVars, layerVars>>,
           Undisturbed' => Undisturbed,
           v.seen = view.seen, v.for = view.for, a.has = activation.has,
           Rests(place, account, v, p, k, a, button)
    PROVE  IInv' /\ LeftWhenOpen
<1>1. Truths(v, p)
  BY DEF IInv, Truths
<1>2. Undisturbed' => Grounds(v, p, a, button, run)
  BY DEF IInv, Grounds
<1>3. p \in SUBSET Asked /\ button \in Buttons /\ run \in Runs
  BY DEF IInv, Typed, ScreenTypes
<1> QED BY <1>1, <1>2, <1>3, KnowingKeeps

LEMMA Known ==
    ASSUME AccountAssumption, IInv
    PROVE  /\ view \in Views /\ polls \in SUBSET Asked /\ key \in ExchangeKeys
           /\ activation \in Activations /\ button \in Buttons /\ run \in Runs
           /\ account \in Accounts
           /\ Rests(place, account, view, polls, key, activation, button)
           /\ Truths(view, polls)
           /\ key # NoKey => place = "enable" /\ account.at = "unlocked"
           /\ activation # NoActivation => place = "enable"
           /\ polls # {} => place \in {"entry", "enable"}
BY DEF IInv, Typed, ScreenTypes, LayerTypes, Rests

LEMMA WaitKeeps == ASSUME AccountAssumption, IInv, Wait PROVE IInv' /\ LeftWhenOpen
<1> DEFINE v == [view EXCEPT !.waited = TRUE]
<1>1. v \in Views /\ v.seen = view.seen /\ v.for = view.for
  BY Known DEF Views
<1>2. Rests(place, account, v, polls, key, activation, button)
  BY Known DEF Rests, Wait
<1>3. Show(account, v, polls, key, activation, button, run)
  BY DEF Wait
<1> HIDE DEF v
<1> QED BY <1>1, <1>2, <1>3, Known, LearningNothingKeeps DEF Wait, Undisturbed, boundVars, worldVars

LEMMA PollFailsKeeps ==
    ASSUME AccountAssumption, IInv, NEW q \in polls, PollFails(q) PROVE IInv' /\ LeftWhenOpen
<1> DEFINE v == [view EXCEPT !.offline = TRUE]
<1>1. v \in Views /\ v.seen = view.seen /\ v.for = view.for /\ polls \ {q} \in SUBSET polls
  BY Known DEF Views
<1>2. Rests(place, account, v, polls \ {q}, key, activation, button)
  BY Known DEF Rests
<1>3. Show(account, v, polls \ {q}, key, activation, button, run)
  BY DEF PollFails
<1>4. UNCHANGED <<enrolled, chain, mempool, keptVars, layerVars>> /\ (Undisturbed' => Undisturbed)
  BY DEF PollFails, Undisturbed, worldVars
<1> HIDE DEF v
<1> QED BY <1>1, <1>2, <1>3, <1>4, Known, LearningNothingKeeps

(* What comes back about the key changes nothing else. *)
LEMMA KeyKeeps ==
    ASSUME AccountAssumption, IInv, key # NoKey, NEW k \in ExchangeKeys,
           Show(account, view, polls, k, activation, button, run),
           UNCHANGED <<enrolled, chain, mempool, keptVars, layerVars>>,
           Undisturbed' => Undisturbed
    PROVE  IInv' /\ LeftWhenOpen
<1>1. Rests(place, account, view, polls, k, activation, button)
  BY Known DEF Rests
<1> QED BY <1>1, Known, LearningNothingKeeps

LEMMA KeyStepsKeep ==
    ASSUME AccountAssumption, IInv,
           TakeLookUp \/ LookUpFails \/ TakeEnrolled \/ Refuse \/ EnrollFails
    PROVE  IInv' /\ LeftWhenOpen
<1>1. UNCHANGED <<enrolled, chain, mempool, keptVars, layerVars>> /\ (Undisturbed' => Undisturbed)
  BY DEF TakeLookUp, LookUpFails, TakeEnrolled, Refuse, EnrollFails, Undisturbed, worldVars, boundVars
<1>2. key \in ExchangeKeys
  BY Known
<1>3. key # NoKey
  BY DEF TakeLookUp, LookUpFails, TakeEnrolled, Refuse, EnrollFails, NoKey
<1>4. \E k \in ExchangeKeys : Show(account, view, polls, k, activation, button, run)
  <2>1. CASE TakeLookUp
    <3>1. [key EXCEPT !.state = key.lookup, !.lookup = "none"] \in ExchangeKeys
      BY <1>2, <2>1 DEF TakeLookUp, ExchangeKeys
    <3> QED BY <2>1, <3>1 DEF TakeLookUp
  <2>2. CASE LookUpFails
    <3>1. [key EXCEPT !.state = "missing", !.lookup = "none"] \in ExchangeKeys
      BY <1>2 DEF ExchangeKeys
    <3> QED BY <2>2, <3>1 DEF LookUpFails
  <2>3. CASE TakeEnrolled
    <3>1. [key EXCEPT !.state = "enabled", !.enroll = "idle"] \in ExchangeKeys
      BY <1>2 DEF ExchangeKeys
    <3> QED BY <2>3, <3>1 DEF TakeEnrolled
  <2>4. CASE Refuse
    <3> DEFINE k == IF key.draws + 1 < Draws THEN [key EXCEPT !.draws = @ + 1]
                    ELSE [key EXCEPT !.enroll = "idle", !.failed = TRUE]
    <3>1. k \in ExchangeKeys
      <4>1. key.draws + 1 \in Nat
        BY <1>2 DEF ExchangeKeys
      <4>2. [key EXCEPT !.draws = key.draws + 1] \in ExchangeKeys
        BY <1>2, <4>1 DEF ExchangeKeys
      <4>3. [key EXCEPT !.enroll = "idle", !.failed = TRUE] \in ExchangeKeys
        BY <1>2 DEF ExchangeKeys
      <4> QED BY <4>2, <4>3
    <3>2. Show(account, view, polls, k, activation, button, run)
      BY <2>4 DEF Refuse
    <3> QED BY <3>1, <3>2
  <2>5. CASE EnrollFails
    <3>1. [key EXCEPT !.enroll = "idle", !.failed = TRUE] \in ExchangeKeys
      BY <1>2 DEF ExchangeKeys
    <3> QED BY <2>5, <3>1 DEF EnrollFails
  <2> QED BY <2>1, <2>2, <2>3, <2>4, <2>5
<1> QED BY <1>1, <1>3, <1>4, KeyKeeps

(* Nor does what comes back about the network. *)
LEMMA NetworkStepsKeep ==
    ASSUME AccountAssumption, IInv, TakeNetwork \/ NetworkFails \/ ReadingFails
    PROVE  IInv' /\ LeftWhenOpen
<1>1. UNCHANGED <<enrolled, chain, mempool, keptVars, layerVars>> /\ (Undisturbed' => Undisturbed)
  BY DEF TakeNetwork, NetworkFails, ReadingFails, Undisturbed, worldVars, boundVars
<1>2. activation \in Activations
  BY Known
<1>3. place = "enable"
  BY Known DEF TakeNetwork, NetworkFails, ReadingFails, Reads, NoActivation
<1>4. \E a \in Activations :
         a.has = activation.has /\ Show(account, view, polls, key, a, button, run)
  <2>1. CASE TakeNetwork
    <3> DEFINE a == [activation EXCEPT !.net = TRUE, !.asking = FALSE]
    <3>1. a \in Activations /\ a.has = activation.has
      BY <1>2 DEF Activations
    <3> QED BY <2>1, <3>1 DEF TakeNetwork
  <2>2. CASE NetworkFails
    <3> DEFINE a == [activation EXCEPT !.asking = FALSE, !.failed = TRUE]
    <3>1. a \in Activations /\ a.has = activation.has
      BY <1>2 DEF Activations
    <3> QED BY <2>2, <3>1 DEF NetworkFails
  <2>3. CASE ReadingFails
    <3> DEFINE a == [activation EXCEPT !.failed = TRUE]
    <3>1. a \in Activations /\ a.has = activation.has
      BY <1>2 DEF Activations
    <3> QED BY <2>3, <3>1 DEF ReadingFails
  <2> QED BY <2>1, <2>2, <2>3
<1>5. PICK a \in Activations :
         a.has = activation.has /\ Show(account, view, polls, key, a, button, run)
  BY <1>4
<1>6. Rests(place, account, view, polls, key, a, button)
  BY <1>3, <1>5, Known DEF Rests
<1> QED BY <1>1, <1>5, <1>6, Known, LearningNothingKeeps

(* What is read of the wallet's funds is so. *)
LEMMA ReadFundingKeeps == ASSUME AccountAssumption, IInv, ReadFunding PROVE IInv' /\ LeftWhenOpen
<1> DEFINE a == [activation EXCEPT !.read = TRUE, !.has = chain[account.wallet] \cap Funds]
<1>1. UNCHANGED <<enrolled, chain, mempool, keptVars, layerVars>> /\ (Undisturbed' => Undisturbed)
  BY DEF ReadFunding, Undisturbed, worldVars, boundVars
<1>2. Show(account, view, polls, key, a, button, run) /\ Lacks(account, view) /\ place = "enable"
  BY DEF ReadFunding, Reads, Funds
<1>3. a \in Activations /\ a.has = chain[account.wallet] \cap Funds
  BY Known DEF Activations
<1>4. account.at = "unlocked" /\ named = account.wallet
  <2>1. WalletOf(account) # Nobody
    BY <1>2 DEF Lacks, Heard
  <2> QED BY <1>2, <2>1 DEF WalletOf, IInv, Layered
<1> HIDE DEF a
<1>5. Rests(place, account, view, polls, key, a, button)
  BY <1>2, <1>4, Known DEF Rests
<1>6. Undisturbed' => Grounds(view, polls, a, button, run)
  BY <1>1, <1>3, <1>4 DEF IInv, Grounds
<1> QED BY <1>1, <1>2, <1>3, <1>5, <1>6, Known, KnowingKeeps

(* What an answer says is so, and goes on being so. *)
LEMMA TakeKeeps ==
    ASSUME AccountAssumption, IInv, NEW q \in polls, Take(q) PROVE IInv' /\ LeftWhenOpen
<1> DEFINE v == IF q.status = "locked" THEN [view EXCEPT !.seen = "unknown", !.locked = TRUE]
                ELSE Seen(q)
<1>1. UNCHANGED <<enrolled, chain, mempool, keptVars, layerVars>> /\ (Undisturbed' => Undisturbed)
  BY DEF Take, Undisturbed, worldVars, boundVars
<1>2. Show(account, v, polls \ {q}, key, activation, button, run)
  BY DEF Take
<1>3. q \in Asked /\ view \in Views /\ polls \ {q} \in SUBSET Asked
  BY Known
<1>4. /\ v \in Views
      /\ q.status = "locked" => v.seen = "unknown" /\ v.for = view.for
      /\ q.status # "locked" => v.seen = q.status /\ v.for = q.asked
  BY <1>3 DEF Views, Asked, Seen
<1> HIDE DEF v
<1>5. Truths(v, polls \ {q})
  <2>1. Says(v.seen, v.for)
    BY <1>4, Known DEF Truths, Says, Pending
  <2> QED BY <2>1, Known DEF Truths
<1>6. Rests(place, account, v, polls \ {q}, key, activation, button)
  BY Known DEF Rests
<1>7. Undisturbed' => Grounds(v, polls \ {q}, activation, button, run)
  BY <1>1, <1>4 DEF IInv, Grounds, Pending
<1> QED BY <1>1, <1>2, <1>3, <1>4, <1>5, <1>6, <1>7, Known, KnowingKeeps

(* A press beside a run, or after one, disturbs. *)
LEMMA PressKeeps == ASSUME AccountAssumption, IInv, Press PROVE IInv' /\ LeftWhenOpen
<1> DEFINE enrolls == key.state # "enabled" /\ WalletOf(account) # Nobody
           k == IF ~enrolls THEN key
                ELSE IF key.enroll # "idle" THEN [key EXCEPT !.failed = FALSE]
                ELSE [key EXCEPT !.enroll = "asked", !.draws = 0, !.failed = FALSE]
<1>1. /\ UNCHANGED <<enrolled, chain, mempool, keptVars, layerVars>>
      /\ place = "enable"
      /\ faults' = IF button.latched THEN faults \cup {"again"} ELSE faults
  BY DEF Press, worldVars
<1>2. Show(account, view, polls, k, activation, Started, run)
  BY DEF Press
<1>3. k \in ExchangeKeys /\ (k = key \/ WalletOf(account) # Nobody)
  BY Known DEF ExchangeKeys
<1>4. Started \in Buttons /\ ~Started.latched
  BY DEF Started, Buttons
<1> HIDE DEF k, enrolls
<1>5. Rests(place, account, view, polls, k, activation, Started)
  BY <1>1, <1>3, <1>4, Known, WalletIs DEF Rests
<1>6. Undisturbed' => Undisturbed /\ ~button.latched
  BY <1>1 DEF Undisturbed
<1>7. Undisturbed' => Grounds(view, polls, activation, Started, run)
  BY <1>6 DEF IInv, Grounds
<1> QED BY <1>1, <1>2, <1>3, <1>4, <1>5, <1>6, <1>7, Known, KnowingKeeps

-----------------------------------------------------------------------------
(* The run *)

LEMMA PlansGoOn ==
    ASSUME NEW s \in Plans
    PROVE  /\ s # <<>> /\ s \in Seq(Steps) /\ Head(s) \in Steps
           /\ Len(s) # 1 => Tail(s) \in Plans
           /\ Len(s) # 1 /\ Head(s) = "approve" => Head(Tail(s)) = "create"
           /\ Len(s) # 1 /\ Head(s) # "approve" => Head(s) = "create" /\ Head(Tail(s)) = "forward"
           /\ Len(s) = 1 <=> Head(s) = "forward"
<1>1. CASE s = <<"forward">>
  BY <1>1 DEF Plans, Steps
<1>2. CASE s = <<"create", "forward">>
  <2>1. Tail(s) = <<"forward">>
    BY <1>2
  <2> QED BY <1>2, <2>1 DEF Plans, Steps
<1>3. CASE s = <<"approve", "create", "forward">>
  <2>1. Tail(s) = <<"create", "forward">>
    BY <1>3
  <2> QED BY <1>3, <2>1 DEF Plans, Steps
<1> QED BY <1>1, <1>2, <1>3 DEF Plans

LEMMA RunIs ==
    ASSUME AccountAssumption, IInv
    PROVE  /\ run.at = "none" <=> run = NoRun
           /\ run.at # "none" => /\ run.at \in {"send", "wait"} /\ run.wallet \in Wallets
                                 /\ run.steps \in Plans
BY DEF IInv, Typed, ScreenTypes, Runs, NoRun

(* A run that ends without a transaction of its own leaves the wallet as it *)
(* was.                                                                     *)
EndedActivation(failed) ==
    IF run.wallet = WalletOf(account) /\ place = "enable"
    THEN [activation EXCEPT !.failed = failed, !.progress = failed] ELSE activation

LEMMA EndedIs ==
    ASSUME AccountAssumption, IInv, NEW failed \in BOOLEAN
    PROVE  /\ EndedActivation(failed) \in Activations
           /\ EndedActivation(failed).has = activation.has
           /\ Rests(place, account, view, polls, key, EndedActivation(failed), button)
<1>1. activation \in Activations
  BY Known
<1>2. /\ [activation EXCEPT !.failed = failed, !.progress = failed] \in Activations
      /\ [activation EXCEPT !.failed = failed, !.progress = failed].has = activation.has
  BY <1>1 DEF Activations
<1>3. /\ EndedActivation(failed) \in Activations
      /\ EndedActivation(failed).has = activation.has
      /\ place # "enable" => EndedActivation(failed) = activation
  BY <1>1, <1>2 DEF EndedActivation
<1> QED BY <1>3, Known DEF Rests

LEMMA GivingUpKeeps ==
    ASSUME AccountAssumption, IInv, NEW failed \in BOOLEAN, RunEnds(failed),
           UNCHANGED <<enrolled, chain, mempool, keptVars, layerVars>>,
           Undisturbed' => Undisturbed
    PROVE  IInv' /\ LeftWhenOpen
<1>1. Show(account, view, polls, key, EndedActivation(failed), button, NoRun)
  BY DEF RunEnds, EndedActivation
<1>2. Undisturbed' => Grounds(view, polls, EndedActivation(failed), button, NoRun)
  BY EndedIs DEF IInv, Grounds, NoRun
<1> QED BY <1>1, <1>2, EndedIs, Blanks, Known, KnowingKeeps

LEMMA RunFailsKeeps == ASSUME AccountAssumption, IInv, RunFails PROVE IInv' /\ LeftWhenOpen
<1>1. UNCHANGED <<enrolled, chain, mempool, keptVars, layerVars>> /\ (Undisturbed' => Undisturbed)
  BY DEF RunFails, Undisturbed, worldVars
<1> QED BY <1>1, GivingUpKeeps DEF RunFails

LEMMA SendKeeps == ASSUME AccountAssumption, IInv, Send PROVE IInv' /\ LeftWhenOpen
<1>1. /\ UNCHANGED <<enrolled, chain, keptVars, layerVars>>
      /\ Undisturbed' = Undisturbed
      /\ run.at = "send"
  BY DEF Send, Undisturbed, boundVars
<1>2. CASE ~Valid(run.wallet, Head(run.steps))
  BY <1>1, <1>2, GivingUpKeeps DEF Send
<1>3. CASE Valid(run.wallet, Head(run.steps))
  <2>1. run.wallet \in Wallets /\ Head(run.steps) \in Steps
    BY <1>1, RunIs, PlansGoOn
  <2> PICK u \in Wallets, step \in Steps : u = run.wallet /\ step = Head(run.steps)
    BY <2>1
  <2> DEFINE sent == Append(mempool[u], step)
  <2>2. /\ mempool' = [mempool EXCEPT ![u] = sent]
        /\ run' = [run EXCEPT !.at = "wait"]
        /\ UNCHANGED <<place, view, polls, key, activation, button>>
    BY <1>3 DEF Send
  <2>3. mempool \in [Wallets -> Seq(Steps)] /\ run \in Runs
    BY DEF IInv, Typed, WorldTypes, ScreenTypes
  <2>4. sent \in Seq(Steps) /\ (mempool[u] = <<>> => sent = <<step>>)
    <3>1. sent \in Seq(Steps)
      BY <2>3
    <3>2. Append(<<>>, step) = <<step>>
      OBVIOUS
    <3> QED BY <3>1, <3>2
  <2>5. run' \in Runs /\ run'.at = "wait" /\ run'.wallet = u /\ run'.steps = run.steps
    BY <1>1, <2>2, <2>3 DEF Runs, NoRun
  <2>6. Head(run'.steps) = step
    BY <2>5
  <2> HIDE DEF sent
  <2>7. /\ mempool' \in [Wallets -> Seq(Steps)]
        /\ mempool'[u] = sent
        /\ \A w \in Wallets : w # u => mempool'[w] = mempool[w]
    BY <2>2, <2>3, <2>4
  <2>8. Typed' /\ Layered' /\ Lived'
    BY <1>1, <2>2, <2>5, <2>7
       DEF IInv, Typed, WorldTypes, LayerTypes, ScreenTypes, Layered, Lived, keptVars, layerVars
  <2>9. /\ Rests(place, account, view, polls, key, activation, button)'
        /\ Truths(view, polls)'
    BY <1>1, <2>2 DEF IInv, Rests, Truths, Says, IsOpen, StatusOf, layerVars
  <2>10. ASSUME Undisturbed'
         PROVE  Grounds(view, polls, activation, button, run)'
    <3>1. Grounds(view, polls, activation, button, run)
      BY <1>1, <2>10 DEF IInv
    <3>2. button.latched /\ mempool[u] = <<>> /\ u = named /\ CanGoOn(u, step)
      BY <1>1, <3>1 DEF Grounds, NoRun
    <3>3. \A w \in Wallets : w # u => mempool[w] = <<>>
      BY <3>1, <3>2 DEF Grounds
    <3>4. mempool'[u] = <<step>> /\ \A w \in Wallets : w # u => mempool'[w] = <<>>
      BY <2>4, <2>7, <3>2, <3>3
    <3>5. named' = named /\ CanGoOn(u, step)'
      BY <1>1, <3>2 DEF CanGoOn, Valid, layerVars
    <3>6. button'.latched
      BY <2>2, <3>2
    <3> QED BY <2>5, <2>6, <3>2, <3>4, <3>5, <3>6 DEF Grounds
  <2> QED BY <2>2, <2>8, <2>9, <2>10 DEF IInv, LeftWhenOpen
<1> QED BY <1>2, <1>3

-----------------------------------------------------------------------------
(* The world *)

(* What a transaction does to its wallet. *)
LEMMA AfterIs ==
    ASSUME AccountAssumption, WorldTypes, Lived, NEW w \in Wallets, NEW step \in Steps
    PROVE  /\ After(w, step) \in SUBSET (Funds \cup {"account", "forward"})
           /\ "account" \in chain[w] => "account" \in After(w, step)
           /\ "forward" \in chain[w] => "forward" \in After(w, step)
           /\ "gas" \in chain[w] => "gas" \in After(w, step)
           /\ "forward" \in After(w, step) => "account" \in After(w, step)
           /\ "account" \in After(w, step) =>
                 "gas" \in After(w, step) /\ "collateral" \notin After(w, step)
           /\ "collateral" \in After(w, step) => "gas" \in After(w, step)
           /\ Valid(w, step) /\ step = "approve" =>
                 /\ After(w, step) = chain[w] \cup {"allowance"}
           /\ Valid(w, step) /\ step = "create" =>
                 /\ "account" \in After(w, step)
                 /\ "forward" \in After(w, step) => "forward" \in chain[w]
<1>1. chain[w] \in SUBSET (Funds \cup {"account", "forward"})
  BY DEF WorldTypes
<1>2. /\ "collateral" \in chain[w] => "gas" \in chain[w] /\ "account" \notin chain[w]
      /\ "account" \in chain[w] => "gas" \in chain[w]
      /\ "forward" \in chain[w] => "account" \in chain[w]
  BY DEF Lived
<1>3. CASE ~Valid(w, step)
  <2>1. After(w, step) = chain[w]
    BY <1>3 DEF After
  <2> QED BY <1>1, <1>2, <1>3, <2>1
<1>4. CASE Valid(w, step) /\ step = "approve"
  <2>1. After(w, step) = chain[w] \cup {"allowance"}
    BY <1>4 DEF After
  <2> QED BY <1>1, <1>2, <1>4, <2>1 DEF Funds
<1>5. CASE Valid(w, step) /\ step = "create"
  <2>1. After(w, step) = (chain[w] \ {"allowance", "collateral"}) \cup {"account"}
    BY <1>5 DEF After
  <2>2. "collateral" \in chain[w]
    BY <1>5 DEF Valid
  <2> QED BY <1>1, <1>2, <1>5, <2>1, <2>2
<1>6. CASE Valid(w, step) /\ step = "forward"
  <2>1. After(w, step) = chain[w] \cup {"forward"}
    BY <1>6 DEF After
  <2>2. "account" \in chain[w]
    BY <1>6 DEF Valid
  <2> QED BY <1>1, <1>2, <1>6, <2>1, <2>2 DEF Funds
<1> QED BY <1>3, <1>4, <1>5, <1>6 DEF Steps

(* What was true of a wallet stays true while its account and its forward   *)
(* stay, and its key.                                                       *)
LEMMA TruthsStay ==
    ASSUME AccountAssumption, IInv, NEW v, NEW p, Truths(v, p),
           named' = named, enrolled \subseteq enrolled',
           \A w \in Wallets : /\ "account" \in chain[w] => "account" \in chain'[w]
                              /\ "forward" \in chain[w] => "forward" \in chain'[w]
    PROVE  Truths(v, p)'
<1>1. named \in Wallets \cup {Nobody}
  BY DEF IInv, Typed, LayerTypes
<1>2. IsOpen(named) => IsOpen(named)'
  <2>1. CASE named = Nobody
    BY <2>1 DEF IsOpen, StatusOf
  <2>2. CASE named # Nobody
    <3>1. IsOpen(named) => named \in enrolled /\ {"account", "forward"} \subseteq chain[named]
      BY <2>2 DEF IsOpen, StatusOf
    <3>2. named \in enrolled' /\ {"account", "forward"} \subseteq chain'[named] => IsOpen(named)'
      BY <2>2 DEF IsOpen, StatusOf
    <3> QED BY <1>1, <2>2, <3>1, <3>2
  <2> QED BY <2>1, <2>2
<1>3. ASSUME NEW s, NEW asked, Says(s, asked)
      PROVE  Says(s, asked)'
  <2>1. /\ asked # Nobody => asked = named
        /\ s \in Pending => named # Nobody
        /\ s = "forwarding_disabled" => "account" \in chain[named]
        /\ s = "active" /\ asked # Nobody => IsOpen(named)
    BY <1>3 DEF Says
  <2>2. s = "forwarding_disabled" => named \in Wallets
    BY <1>1, <2>1 DEF Pending
  <2>3. s = "forwarding_disabled" => "account" \in chain'[named]
    BY <2>1, <2>2
  <2>4. s = "active" /\ asked # Nobody => IsOpen(named)'
    BY <1>2, <2>1
  <2> QED BY <2>1, <2>3, <2>4 DEF Says
<1> QED BY <1>3 DEF Truths

(* What is known is known of a wallet. *)
LEMMA NamedIs ==
    ASSUME AccountAssumption, IInv
    PROVE  /\ activation.has # {} => named \in Wallets
           /\ view.seen \in Pending => named \in Wallets
           /\ \A q \in polls : q.status \in Pending => named \in Wallets
<1>1. named \in Wallets \cup {Nobody}
  BY DEF IInv, Typed, LayerTypes
<1>2. activation.has # {} => place = "enable" /\ account.at = "unlocked"
  BY DEF IInv, Rests, NoActivation
<1>3. place = "enable" => named = WalletOf(account)
  BY DEF IInv, Layered
<1>4. account.at = "unlocked" => WalletOf(account) \in Wallets
  BY Known, WalletIs
<1> QED BY <1>1, <1>2, <1>3, <1>4 DEF IInv, Truths, Says

(* Testnet funds come to a wallet that has had none. *)
LEMMA CreditKeeps ==
    ASSUME AccountAssumption, IInv, NEW w \in Wallets, Credit(w) PROVE IInv' /\ LeftWhenOpen
<1>1. /\ UNCHANGED <<enrolled, mempool, keptVars, layerVars, screenVars, boundVars>>
      /\ chain' = [chain EXCEPT ![w] = @ \cup {"gas", "collateral"}]
      /\ "gas" \notin chain[w]
  BY DEF Credit
<1>2. Typed /\ chain \in [Wallets -> SUBSET (Funds \cup {"account", "forward"})]
  BY DEF IInv, Typed, WorldTypes
<1>3. /\ chain' \in [Wallets -> SUBSET (Funds \cup {"account", "forward"})]
      /\ chain'[w] = chain[w] \cup {"gas", "collateral"}
      /\ \A u \in Wallets : u # w => chain'[u] = chain[u]
  BY <1>1, <1>2 DEF Funds
<1>4. \A u \in Wallets :
         /\ chain[u] \subseteq chain'[u]
         /\ "account" \in chain'[u] => "account" \in chain[u]
         /\ "forward" \in chain'[u] => "forward" \in chain[u]
  BY <1>3
<1>5. Typed' /\ Layered'
  BY <1>1, <1>2, <1>3
     DEF IInv, Typed, WorldTypes, LayerTypes, ScreenTypes, Layered, keptVars, layerVars, screenVars
<1>6. Lived'
  BY <1>1, <1>3 DEF IInv, Lived
<1>7. Rests(place, account, view, polls, key, activation, button)'
  BY <1>1 DEF IInv, Rests, layerVars, screenVars
<1>8. Truths(view, polls)'
  <2>1. PICK v, p : v = view /\ p = polls
    OBVIOUS
  <2>2. Truths(v, p)'
    BY <1>1, <1>4, <2>1, TruthsStay DEF IInv, layerVars
  <2> QED BY <1>1, <2>1, <2>2 DEF Truths, screenVars
<1>9. ASSUME Undisturbed' PROVE Grounds(view, polls, activation, button, run)'
  <2>1. Grounds(view, polls, activation, button, run)
    BY <1>1, <1>9 DEF IInv, Undisturbed, boundVars
  <2>2. UNCHANGED <<view, polls, activation, button, run, named, mempool>>
    BY <1>1 DEF layerVars, screenVars
  <2>3. ASSUME NEW u \in Wallets, NEW step \in Steps, CanGoOn(u, step)
        PROVE  CanGoOn(u, step)'
    BY <1>4, <2>3 DEF CanGoOn, Valid, Steps
  <2>4. ~button'.latched =>
          /\ run' = NoRun /\ \A u \in Wallets : mempool'[u] = <<>>
          /\ activation'.has # {} => activation'.has \subseteq chain'[named']
          /\ view'.seen \in Pending => "forward" \notin chain'[named']
          /\ \A q \in polls' : q.status \in Pending => "forward" \notin chain'[named']
    <3>1. named \in Wallets => chain[named] \subseteq chain'[named]
                               /\ ("forward" \in chain'[named] => "forward" \in chain[named])
      BY <1>4
    <3>2. activation.has # {} => named \in Wallets
      BY NamedIs
    <3>3. view.seen \in Pending => named \in Wallets
      BY NamedIs
    <3>4. \A q \in polls : q.status \in Pending => named \in Wallets
      BY NamedIs
    <3> QED BY <2>1, <2>2, <3>1, <3>2, <3>3, <3>4 DEF Grounds
  <2>5. \A u \in Wallets : mempool'[u] # <<>> =>
          /\ u = named'
          /\ \E step \in Steps : mempool'[u] = <<step>> /\ CanGoOn(u, step)'
    BY <2>1, <2>2, <2>3 DEF Grounds
  <2>6. run.at # "none" => CanGoOn(run.wallet, Head(run.steps))'
    <3>1. SUFFICES ASSUME run.at # "none" PROVE CanGoOn(run.wallet, Head(run.steps))'
      OBVIOUS
    <3>2. PICK u \in Wallets, step \in Steps : u = run.wallet /\ step = Head(run.steps)
      BY <3>1, RunIs, PlansGoOn
    <3>3. CanGoOn(u, step)'
      BY <2>1, <2>3, <3>1, <3>2 DEF Grounds
    <3> QED BY <2>2, <3>2, <3>3
  <2> QED BY <2>1, <2>2, <2>4, <2>5, <2>6 DEF Grounds
<1> QED BY <1>1, <1>5, <1>6, <1>7, <1>8, <1>9 DEF IInv, LeftWhenOpen, screenVars

(* What is mined leaves the wallet to the run that waited for it, if there  *)
(* is one.                                                                  *)
MinedFor(w) == run.wallet = w /\ run.at = "wait" /\ Len(mempool[w]) = 1

LEMMA MineIs ==
    ASSUME AccountAssumption, IInv, NEW w \in Wallets, Mine(w)
    PROVE  /\ WorldTypes' /\ Lived'
           /\ UNCHANGED <<enrolled, keptVars, layerVars, boundVars>>
           /\ \A v, p : Truths(v, p) => Truths(v, p)'
           /\ \A u \in Wallets : u # w => chain'[u] = chain[u] /\ mempool'[u] = mempool[u]
           /\ chain'[w] = After(w, Head(mempool[w]))
           /\ mempool[w] # <<>> /\ mempool'[w] = Tail(mempool[w])
<1>1. /\ UNCHANGED <<enrolled, keptVars, layerVars, boundVars>>
      /\ mempool[w] # <<>>
      /\ mempool' = [mempool EXCEPT ![w] = Tail(@)]
      /\ chain' = [chain EXCEPT ![w] = After(w, Head(mempool[w]))]
  BY DEF Mine
<1>2. WorldTypes /\ Lived
  BY DEF IInv, Typed
<1>3. Head(mempool[w]) \in Steps /\ Tail(mempool[w]) \in Seq(Steps)
  BY <1>1, <1>2 DEF WorldTypes
<1> PICK step \in Steps : step = Head(mempool[w])
  BY <1>3
<1>4. /\ After(w, step) \in SUBSET (Funds \cup {"account", "forward"})
      /\ "account" \in chain[w] => "account" \in After(w, step)
      /\ "forward" \in chain[w] => "forward" \in After(w, step)
      /\ "forward" \in After(w, step) => "account" \in After(w, step)
      /\ "account" \in After(w, step) =>
            "gas" \in After(w, step) /\ "collateral" \notin After(w, step)
      /\ "collateral" \in After(w, step) => "gas" \in After(w, step)
  BY <1>2, AfterIs
<1> DEFINE after == After(w, step)
<1>5. /\ chain' = [chain EXCEPT ![w] = after]
      /\ after \in SUBSET (Funds \cup {"account", "forward"})
      /\ "account" \in chain[w] => "account" \in after
      /\ "forward" \in chain[w] => "forward" \in after
      /\ "forward" \in after => "account" \in after
      /\ "account" \in after => "gas" \in after /\ "collateral" \notin after
      /\ "collateral" \in after => "gas" \in after
  BY <1>1, <1>4
<1> HIDE DEF after
<1>6. /\ chain' \in [Wallets -> SUBSET (Funds \cup {"account", "forward"})]
      /\ mempool' \in [Wallets -> Seq(Steps)]
      /\ \A u \in Wallets : u # w => chain'[u] = chain[u] /\ mempool'[u] = mempool[u]
      /\ chain'[w] = after /\ mempool'[w] = Tail(mempool[w])
  BY <1>1, <1>2, <1>3, <1>5 DEF WorldTypes
<1>7. Lived'
  BY <1>2, <1>5, <1>6 DEF Lived
<1>8. \A u \in Wallets : /\ "account" \in chain[u] => "account" \in chain'[u]
                         /\ "forward" \in chain[u] => "forward" \in chain'[u]
  BY <1>5, <1>6
<1>9. \A v, p : Truths(v, p) => Truths(v, p)'
  BY <1>1, <1>8, TruthsStay DEF layerVars
<1> QED BY <1>1, <1>6, <1>7, <1>9 DEF WorldTypes, after

(* Undisturbed, it was the only one, and the screen's own. *)
LEMMA MineAlone ==
    ASSUME AccountAssumption, IInv, NEW w \in Wallets, Mine(w), Undisturbed
    PROVE  /\ w = named /\ button.latched
           /\ \A u \in Wallets : mempool'[u] = <<>>
           /\ Len(mempool[w]) = 1
           /\ Head(mempool[w]) \in Steps /\ CanGoOn(w, Head(mempool[w]))
           /\ run.at # "none" => MinedFor(w) /\ Head(mempool[w]) = Head(run.steps)
<1>1. Grounds(view, polls, activation, button, run)
  BY DEF IInv
<1>2. mempool[w] # <<>> /\ mempool'[w] = Tail(mempool[w])
  BY MineIs
<1>3. w = named
  BY <1>1, <1>2 DEF Grounds
<1>4. PICK step \in Steps : mempool[w] = <<step>> /\ CanGoOn(w, step)
  BY <1>1, <1>2 DEF Grounds
<1>5. Len(mempool[w]) = 1 /\ Head(mempool[w]) = step /\ Tail(mempool[w]) = <<>>
  BY <1>4
<1>6. \A u \in Wallets : u # w => mempool'[u] = <<>>
  BY <1>1, <1>3, MineIs DEF Grounds
<1>7. ASSUME run.at # "none"
      PROVE  MinedFor(w) /\ Head(mempool[w]) = Head(run.steps)
  <2>1. run.wallet = w /\ run.at \in {"send", "wait"}
    BY <1>1, <1>3, <1>7, RunIs DEF Grounds
  <2>2. run.at = "wait" /\ mempool[w] = <<Head(run.steps)>>
    BY <1>1, <1>2, <2>1 DEF Grounds
  <2> QED BY <1>5, <2>1, <2>2 DEF MinedFor
<1> QED BY <1>1, <1>2, <1>3, <1>4, <1>5, <1>6, <1>7 DEF Grounds

LEMMA MineKeeps ==
    ASSUME AccountAssumption, IInv, NEW w \in Wallets, Mine(w) PROVE IInv' /\ LeftWhenOpen
<1>1. /\ WorldTypes' /\ Lived'
      /\ UNCHANGED <<enrolled, keptVars, layerVars, boundVars>>
      /\ \A v, p : Truths(v, p) => Truths(v, p)'
  BY MineIs
<1>2. LayerTypes' /\ Undisturbed' = Undisturbed
  BY <1>1 DEF IInv, Typed, LayerTypes, Undisturbed, keptVars, layerVars, boundVars
<1>3. Typed /\ Layered
  BY DEF IInv
<1>4. CASE ~MinedFor(w)
  <2>1. UNCHANGED screenVars
    BY <1>4 DEF Mine, MinedFor
  <2>2. Typed' /\ Layered'
    BY <1>1, <1>2, <1>3, <2>1 DEF Typed, ScreenTypes, Layered, screenVars, keptVars, layerVars
  <2>3. Rests(place, account, view, polls, key, activation, button)'
    BY <1>1, <2>1 DEF IInv, Rests, layerVars, screenVars
  <2>4. Truths(view, polls)'
    <3>1. PICK v, p : v = view /\ p = polls
      OBVIOUS
    <3>2. Truths(v, p)'
      BY <1>1, <3>1 DEF IInv
    <3> QED BY <2>1, <3>1, <3>2 DEF Truths, screenVars
  <2>5. ASSUME Undisturbed' PROVE Grounds(view, polls, activation, button, run)'
    <3>1. button.latched /\ (\A u \in Wallets : mempool'[u] = <<>>) /\ run.at = "none"
      BY <1>2, <1>4, <2>5, MineAlone
    <3> QED BY <2>1, <3>1 DEF Grounds, screenVars
  <2> QED BY <1>1, <2>1, <2>2, <2>3, <2>4, <2>5 DEF IInv, LeftWhenOpen, screenVars
<1>5. ASSUME MinedFor(w), NEW failed \in BOOLEAN, RunEnds(failed)
      PROVE  IInv' /\ LeftWhenOpen
  <2>1. PICK v \in Views, p \in SUBSET Asked, k \in ExchangeKeys, a \in Activations,
             b \in Buttons :
          /\ v = view /\ p = polls /\ k = key /\ a = EndedActivation(failed) /\ b = button
    BY Known, EndedIs
  <2>2. Show(account, v, p, k, a, b, NoRun) /\ account' = account
    BY <1>1, <1>5, <2>1 DEF RunEnds, EndedActivation, layerVars
  <2>3. Rests(place, account, v, p, k, a, b) /\ Truths(v, p)
    BY <2>1, EndedIs DEF IInv
  <2>4. Truths(v, p)'
    BY <1>1, <2>3
  <2>5. ASSUME Undisturbed' PROVE Grounds(v, p, a, b, NoRun)'
    <3>1. b.latched /\ \A u \in Wallets : mempool'[u] = <<>>
      BY <1>2, <2>1, <2>5, MineAlone
    <3> QED BY <3>1 DEF Grounds, NoRun
  <2>6. place \in {"entry", "enable"} => named' = WalletOf(account')
    BY <1>1, <1>3 DEF Layered, layerVars
  <2>7. /\ ScreenTypes'
        /\ Rests(place, account, view, polls, key, activation, button)'
        /\ Truths(view, polls)'
        /\ (Undisturbed => Grounds(view, polls, activation, button, run))'
    BY <1>1, <1>2, <1>3, <2>2, <2>3, <2>4, <2>5, <2>6, Blanks, RenderKeeps
  <2>8. Layered'
    <3>1. place' = place \/ place' = Where(account, v, k)
      BY <2>2, RenderIs DEF StaysOn, Mount
    <3>2. place = "passkey" /\ account.at # "unlocked" => place' = place
      BY <3>1 DEF Where
    <3>3. place = "account" => place' = place
      BY <3>1 DEF Where
    <3> QED BY <1>1, <1>3, <3>2, <3>3 DEF Layered, WalletOf, layerVars, keptVars
  <2>9. LeftWhenOpen
    BY <1>3, <2>2, <2>3, LeavingIsDone DEF LeftWhenOpen
  <2> QED BY <1>1, <1>2, <2>7, <2>8, <2>9 DEF IInv, Typed
<1>6. CASE /\ MinedFor(w) /\ Valid(w, Head(mempool[w])) /\ Len(run.steps) # 1
           /\ run' = [run EXCEPT !.at = "send", !.steps = Tail(@)]
           /\ UNCHANGED <<place, view, polls, key, activation, button>>
  <2>1. run \in Runs /\ run.at = "wait" /\ run.wallet = w /\ run.steps \in Plans
    BY <1>3, <1>6, RunIs DEF MinedFor, Typed, ScreenTypes
  <2>2. /\ run' \in Runs /\ run'.at = "send" /\ run'.wallet = w
        /\ run'.steps = Tail(run.steps) /\ Tail(run.steps) \in Plans
    BY <1>6, <2>1, PlansGoOn DEF Runs, NoRun
  <2>3. Typed' /\ Layered'
    BY <1>1, <1>2, <1>3, <1>6, <2>2 DEF Typed, ScreenTypes, Layered, keptVars, layerVars
  <2>4. Rests(place, account, view, polls, key, activation, button)'
    BY <1>1, <1>6 DEF IInv, Rests, layerVars
  <2>5. Truths(view, polls)'
    <3>1. PICK v, p : v = view /\ p = polls
      OBVIOUS
    <3>2. Truths(v, p)'
      BY <1>1, <3>1 DEF IInv
    <3> QED BY <1>6, <3>1, <3>2 DEF Truths
  <2>6. ASSUME Undisturbed' PROVE Grounds(view, polls, activation, button, run)'
    <3>1. /\ w = named /\ button.latched
          /\ \A u \in Wallets : mempool'[u] = <<>>
          /\ Head(mempool[w]) \in Steps /\ CanGoOn(w, Head(mempool[w]))
          /\ Head(mempool[w]) = Head(run.steps)
      BY <1>2, <2>1, <2>6, MineAlone
    <3> PICK step \in Steps, next \in Steps :
           step = Head(mempool[w]) /\ next = Head(Tail(run.steps))
      BY <2>2, <3>1, PlansGoOn
    <3>2. \/ step = "approve" /\ next = "create"
          \/ step = "create" /\ next = "forward"
      BY <1>6, <2>1, <3>1, PlansGoOn
    <3>3. chain'[w] = After(w, step) /\ Valid(w, step) /\ "forward" \notin chain[w]
          /\ (step = "approve" => "collateral" \in chain[w])
      BY <3>1, MineIs DEF CanGoOn
    <3>4. WorldTypes /\ Lived
      BY DEF IInv, Typed
    <3>5. ASSUME step = "approve"
          PROVE  {"allowance", "collateral"} \subseteq chain'[w] /\ "forward" \notin chain'[w]
      <4>1. chain'[w] = chain[w] \cup {"allowance"}
        BY <3>3, <3>4, <3>5, AfterIs
      <4> QED BY <3>3, <3>5, <4>1
    <3>6. ASSUME step = "create"
          PROVE  "account" \in chain'[w] /\ "forward" \notin chain'[w]
      BY <3>3, <3>4, <3>6, AfterIs
    <3>7. CanGoOn(w, next)'
      <4>1. /\ next = "forward" => "account" \in chain'[w]
            /\ next = "create" => {"allowance", "collateral"} \subseteq chain'[w]
            /\ next \in {"forward", "create"}
            /\ "forward" \notin chain'[w]
        BY <3>2, <3>5, <3>6
      <4> QED BY <4>1 DEF CanGoOn, Valid
    <3>8. Head(run'.steps) = next /\ named' = named /\ button' = button
      BY <1>1, <1>6, <2>2 DEF layerVars
    <3> QED BY <2>2, <3>1, <3>7, <3>8 DEF Grounds
  <2> QED BY <1>1, <1>6, <2>3, <2>4, <2>5, <2>6 DEF IInv, LeftWhenOpen
<1> QED BY <1>4, <1>5, <1>6 DEF Mine, MinedFor

-----------------------------------------------------------------------------
(* The platform *)

LEMMA LookUpKeeps == ASSUME AccountAssumption, IInv, LookUp PROVE IInv' /\ LeftWhenOpen
<1>1. /\ UNCHANGED <<worldVars, keptVars, layerVars, place, view, polls, activation, button,
                     run, boundVars>>
      /\ key.lookup = "asked"
      /\ key' = [key EXCEPT !.lookup = IF account.wallet \in enrolled THEN "enabled"
                                       ELSE "missing"]
  BY DEF LookUp
<1>2. key # NoKey /\ key \in ExchangeKeys
  BY <1>1, Known DEF NoKey
<1>3. key' \in ExchangeKeys
  BY <1>1, <1>2 DEF ExchangeKeys
<1>4. Typed' /\ Layered' /\ Lived'
  BY <1>1, <1>3 DEF IInv, Typed, WorldTypes, LayerTypes, ScreenTypes, Layered, Lived,
                    worldVars, keptVars, layerVars
<1>5. Rests(place, account, view, polls, key, activation, button)'
  BY <1>1, <1>2, Known DEF Rests, layerVars
<1>6. Truths(view, polls)'
  BY <1>1 DEF IInv, Truths, Says, IsOpen, StatusOf, worldVars, layerVars
<1>7. (Undisturbed => Grounds(view, polls, activation, button, run))'
  BY <1>1 DEF IInv, Undisturbed, Grounds, CanGoOn, Valid, worldVars, layerVars, boundVars
<1> QED BY <1>1, <1>4, <1>5, <1>6, <1>7 DEF IInv, LeftWhenOpen

LEMMA EnrollKeeps == ASSUME AccountAssumption, IInv, Enroll PROVE IInv' /\ LeftWhenOpen
<1>1. /\ UNCHANGED <<made, chain, mempool, keptVars, layerVars, place, view, polls, activation,
                     button, run, boundVars>>
      /\ key.enroll = "asked"
      /\ key' = [key EXCEPT !.enroll = "done"]
      /\ enrolled \subseteq enrolled'
  BY DEF Enroll
<1>2. key # NoKey /\ key \in ExchangeKeys
  BY <1>1, Known DEF NoKey
<1>3. key' \in ExchangeKeys
  BY <1>1, <1>2 DEF ExchangeKeys
<1>4. Typed' /\ Layered' /\ Lived'
  BY <1>1, <1>3 DEF IInv, Typed, WorldTypes, LayerTypes, ScreenTypes, Layered, Lived,
                    keptVars, layerVars
<1>5. Rests(place, account, view, polls, key, activation, button)'
  BY <1>1, <1>2, Known DEF Rests, layerVars
<1>6. Truths(view, polls)'
  <2>1. PICK v, p : v = view /\ p = polls
    OBVIOUS
  <2>2. Truths(v, p)'
    BY <1>1, <2>1, TruthsStay DEF IInv, layerVars
  <2> QED BY <1>1, <2>1, <2>2 DEF Truths
<1>7. (Undisturbed => Grounds(view, polls, activation, button, run))'
  BY <1>1 DEF IInv, Undisturbed, Grounds, CanGoOn, Valid, layerVars, boundVars
<1> QED BY <1>1, <1>4, <1>5, <1>6, <1>7 DEF IInv, LeftWhenOpen

(* Requests that come and go. *)
LEMMA AskingKeeps ==
    ASSUME AccountAssumption, IInv, place \in {"entry", "enable"}, polls' \subseteq Asked,
           UNCHANGED <<worldVars, keptVars, layerVars, place, view, key, activation, button,
                       run, boundVars>>,
           \A q \in polls' : Says(q.status, q.asked),
           \A q \in polls' : q.status \in Pending => q \in polls \/ "forward" \notin chain[named]
    PROVE  IInv' /\ LeftWhenOpen
<1>1. Typed' /\ Layered' /\ Lived'
  BY DEF IInv, Typed, WorldTypes, LayerTypes, ScreenTypes, Layered, Lived,
         worldVars, keptVars, layerVars
<1>2. Rests(place, account, view, polls, key, activation, button)'
  BY DEF IInv, Rests, layerVars
<1>3. Truths(view, polls)'
  BY DEF IInv, Truths, Says, IsOpen, StatusOf, worldVars, layerVars
<1>4. ASSUME Undisturbed' PROVE Grounds(view, polls, activation, button, run)'
  <2>1. Grounds(view, polls, activation, button, run)
    BY <1>4 DEF IInv, Undisturbed, boundVars
  <2>2. Grounds(view, polls', activation, button, run)
    BY <2>1 DEF Grounds
  <2> QED BY <2>2 DEF Grounds, CanGoOn, Valid, worldVars, layerVars
<1> QED BY <1>1, <1>2, <1>3, <1>4 DEF IInv, LeftWhenOpen

LEMMA PollKeeps == ASSUME AccountAssumption, IInv, Poll PROVE IInv' /\ LeftWhenOpen
<1> DEFINE q == [asked |-> named, at |-> "signing", status |-> "unknown"]
<1>1. place \in {"entry", "enable"} /\ polls' = polls \cup {q}
  BY DEF Poll
<1>2. UNCHANGED <<worldVars, keptVars, layerVars, place, view, key, activation, button,
                  run, boundVars>>
  BY DEF Poll
<1>3. q \in Asked
  BY DEF IInv, Typed, LayerTypes, Asked
<1>4. Says(q.status, q.asked) /\ q.status \notin Pending
  BY DEF Says, Pending
<1> HIDE DEF q
<1>5. \A r \in polls : r \in Asked /\ Says(r.status, r.asked)
  BY DEF IInv, Typed, ScreenTypes, Truths
<1>6. polls' \subseteq Asked /\ \A r \in polls' : Says(r.status, r.asked)
  BY <1>1, <1>3, <1>4, <1>5
<1>7. \A r \in polls' : r.status \in Pending => r \in polls
  BY <1>1, <1>4
<1> QED BY <1>1, <1>2, <1>6, <1>7, AskingKeeps

(* The platform tells how the wallet stands that the request is signed by. *)
LEMMA AnswerKeeps ==
    ASSUME AccountAssumption, IInv, NEW r \in polls, Answer(r) PROVE IInv' /\ LeftWhenOpen
<1> DEFINE q == [asked |-> r.asked, at |-> "answered", status |-> StatusOf(named)]
<1>1. place \in {"entry", "enable"} /\ polls' = (polls \ {r}) \cup {q}
  BY Known DEF Answer
<1>2. UNCHANGED <<worldVars, keptVars, layerVars, place, view, key, activation, button,
                  run, boundVars>>
  BY DEF Answer
<1>3. \A p \in polls : p \in Asked /\ Says(p.status, p.asked)
  BY DEF IInv, Typed, ScreenTypes, Truths
<1>4. /\ StatusOf(named) \in {"locked", "active"} \cup Pending
      /\ StatusOf(named) \in Pending => named # Nobody /\ "forward" \notin chain[named]
      /\ StatusOf(named) = "forwarding_disabled" => "account" \in chain[named]
  <2>1. named \in Wallets \cup {Nobody} /\ Lived
    BY DEF IInv, Typed, LayerTypes
  <2>2. CASE named = Nobody
    BY <2>2 DEF StatusOf, AccountAssumption, Pending
  <2>3. CASE named # Nobody
    <3>1. "forward" \in chain[named] => "account" \in chain[named]
      BY <2>1, <2>3 DEF Lived
    <3> QED BY <2>3, <3>1 DEF StatusOf, Pending
  <2> QED BY <2>2, <2>3
<1>5. q \in Asked /\ q.status = StatusOf(named) /\ q.asked = r.asked
  BY <1>3, <1>4 DEF Asked
<1>6. Says(q.status, q.asked)
  <2>1. r.asked # Nobody => r.asked = named
    BY <1>3 DEF Says
  <2>2. StatusOf(named) = "active" => IsOpen(named)
    BY DEF IsOpen
  <2> QED BY <1>4, <1>5, <2>1, <2>2 DEF Says
<1> HIDE DEF q
<1>7. polls' \subseteq Asked /\ \A p \in polls' : Says(p.status, p.asked)
  BY <1>1, <1>3, <1>5, <1>6
<1>8. \A p \in polls' : p.status \in Pending => p \in polls \/ "forward" \notin chain[named]
  BY <1>1, <1>4, <1>5
<1> QED BY <1>1, <1>2, <1>7, <1>8, AskingKeeps

-----------------------------------------------------------------------------
(* Away from the exchange's screen *)

(* What goes on elsewhere finds no run of an undisturbed app. *)
LEMMA AwayKeeps ==
    ASSUME AccountAssumption, IInv, place \in {"passkey", "account"},
           UNCHANGED <<enrolled, chain, mempool, screenVars, faults, account>>
    PROVE  /\ WorldTypes' /\ ScreenTypes' /\ Lived'
           /\ Rests(place, account, view, polls, key, activation, button)'
           /\ Truths(view, polls)'
           /\ (Undisturbed => Grounds(view, polls, activation, button, run))'
           /\ LeftWhenOpen
<1> USE DEF screenVars
<1>1. /\ view = NoView /\ polls = {} /\ activation = NoActivation /\ button = NoButton
  BY DEF IInv, Rests
<1>2. WorldTypes' /\ ScreenTypes' /\ Lived'
  BY DEF IInv, Typed, WorldTypes, ScreenTypes, Lived
<1>3. Rests(place, account, view, polls, key, activation, button)'
  BY DEF IInv, Rests
<1>4. Truths(view, polls)'
  BY <1>1 DEF Truths, Says, NoView, Pending
<1>5. ASSUME Undisturbed' PROVE Grounds(view, polls, activation, button, run)'
  <2>1. run = NoRun /\ \A w \in Wallets : mempool[w] = <<>>
    BY <1>1, <1>5 DEF IInv, Undisturbed, Grounds, NoButton
  <2> QED BY <1>1, <2>1 DEF Grounds, NoRun, NoView, NoActivation, Pending
<1> QED BY <1>2, <1>3, <1>4, <1>5 DEF LeftWhenOpen

LEMMA CeremonyKeeps ==
    ASSUME AccountAssumption, IInv, NEW w \in Wallets,
           AskPasskey(w) \/ PasskeyFails \/ SaveSeed \/ Adopt \/ SignOut
    PROVE  IInv' /\ LeftWhenOpen
<1> USE DEF worldVars, keptVars, screenVars, boundVars
<1>1. /\ account \in Accounts /\ ceremony \in Ceremonies
      /\ {stored, seed, named} \subseteq Wallets \cup {Nobody}
      /\ Layered
  BY DEF IInv, Typed, LayerTypes
<1>2. ceremony.at # "idle" => ceremony.wallet \in Wallets
  BY <1>1 DEF Ceremonies, NoCeremony
<1>3. place \in {"passkey", "account"}
  BY <1>1 DEF AskPasskey, PasskeyFails, SaveSeed, Adopt, SignOut, Layered
<1>4. UNCHANGED <<enrolled, chain, mempool, screenVars, faults, account>>
  BY DEF AskPasskey, PasskeyFails, SaveSeed, Adopt, SignOut
<1>5. /\ WorldTypes' /\ ScreenTypes' /\ Lived'
      /\ Rests(place, account, view, polls, key, activation, button)'
      /\ Truths(view, polls)'
      /\ (Undisturbed => Grounds(view, polls, activation, button, run))'
      /\ LeftWhenOpen
  BY <1>3, <1>4, AwayKeeps
<1>6. account.at = "unlocked" => WalletOf(account) \in Wallets /\ account.wallet \in Wallets
  BY <1>1, WalletIs
<1>7. LayerTypes' /\ Layered'
  <2>1. CASE AskPasskey(w)
    <3>1. ceremony' = [at |-> "prompt", wallet |-> w] /\ ceremony.at = "idle"
      BY <2>1 DEF AskPasskey
    <3>2. ceremony' \in Ceremonies
      BY <3>1 DEF Ceremonies
    <3> QED BY <1>1, <2>1, <3>1, <3>2 DEF AskPasskey, LayerTypes, Layered, WalletOf
  <2>2. CASE PasskeyFails
    <3>1. ceremony' \in Ceremonies /\ ceremony'.at = "idle" /\ ceremony.at = "prompt"
      BY <2>2 DEF PasskeyFails, Ceremonies, NoCeremony
    <3> QED BY <1>1, <2>2, <3>1 DEF PasskeyFails, LayerTypes, Layered, WalletOf
  <2>3. CASE SaveSeed
    <3>1. ceremony' = [ceremony EXCEPT !.at = "saved"] /\ ceremony.at = "prompt"
      BY <2>3 DEF SaveSeed
    <3>2. ceremony' \in Ceremonies /\ ceremony'.at = "saved"
      BY <1>1, <3>1 DEF Ceremonies, NoCeremony
    <3> QED BY <1>1, <1>2, <2>3, <3>1, <3>2 DEF SaveSeed, LayerTypes, Layered, WalletOf
  <2>4. CASE Adopt
    <3>1. /\ ceremony' = [ceremony EXCEPT !.at = "adopted"] /\ ceremony.at = "saved"
          /\ named' = ceremony.wallet /\ stored' = ceremony.wallet
          /\ UNCHANGED <<seed, account, place>>
      BY <2>4 DEF Adopt
    <3>2. /\ ceremony' \in Ceremonies /\ ceremony'.at = "adopted"
          /\ ceremony'.wallet = ceremony.wallet
      BY <1>1, <3>1 DEF Ceremonies, NoCeremony
    <3>3. place = "passkey" /\ account.at \in {"none", "remembered"}
      BY <1>1, <3>1 DEF Layered
    <3>4. LayerTypes'
      BY <1>1, <1>2, <3>1, <3>2 DEF LayerTypes
    <3> QED BY <3>1, <3>2, <3>3, <3>4 DEF Layered
  <2>5. CASE SignOut
    <3>1. /\ ceremony' = [at |-> "leaving", wallet |-> account.wallet]
          /\ account.at = "unlocked" /\ place = "account" /\ named' = Nobody /\ seed' = Nobody
          /\ UNCHANGED <<stored, account, place>>
      BY <2>5 DEF SignOut
    <3>2. ceremony' \in Ceremonies /\ ceremony'.at = "leaving"
      BY <1>6, <3>1 DEF Ceremonies
    <3>3. LayerTypes'
      BY <1>1, <3>1, <3>2 DEF LayerTypes
    <3> QED BY <1>1, <3>1, <3>2, <3>3 DEF Layered
  <2> QED BY <2>1, <2>2, <2>3, <2>4, <2>5
<1> QED BY <1>5, <1>7 DEF IInv, Typed

(* A screen that is mounted has forgotten. *)
LEMMA MountKeeps ==
    ASSUME AccountAssumption, IInv, NEW there \in {"entry", "passkey", "enable", "account"},
           Mount(there, account'), LayerTypes', run' \in Runs,
           chain' = chain, mempool' = mempool,
           Undisturbed' => run' = NoRun /\ \A w \in Wallets : mempool[w] = <<>>
    PROVE  /\ WorldTypes' /\ ScreenTypes' /\ Lived'
           /\ Rests(place, account, view, polls, key, activation, button)'
           /\ Truths(view, polls)'
           /\ (Undisturbed => Grounds(view, polls, activation, button, run))'
<1>1. /\ place' = there /\ view' = NoView /\ polls' = {} /\ activation' = NoActivation
      /\ button' = NoButton
      /\ key' = IF there = "enable" /\ WalletOf(account') # Nobody
                THEN [NoKey EXCEPT !.lookup = "asked"] ELSE NoKey
  BY DEF Mount
<1>2. account'.at = "unlocked" <=> WalletOf(account') # Nobody
  BY WalletIs DEF LayerTypes
<1>3. WorldTypes' /\ Lived'
  BY DEF IInv, Typed, WorldTypes, Lived
<1>4. ScreenTypes'
  BY <1>1, Blanks DEF ScreenTypes
<1>5. Rests(place, account, view, polls, key, activation, button)'
  BY <1>1, <1>2 DEF Rests, NoActivation, NoButton
<1>6. Truths(view, polls)'
  BY <1>1 DEF Truths, Says, NoView, Pending
<1>7. (Undisturbed => Grounds(view, polls, activation, button, run))'
  BY <1>1 DEF Grounds, NoRun, NoView, NoActivation, NoButton, Pending
<1> QED BY <1>3, <1>4, <1>5, <1>6, <1>7

(* Nothing undisturbed runs while the exchange's screen is not there. *)
LEMMA Idles ==
    ASSUME AccountAssumption, IInv, place # "enable"
    PROVE  Undisturbed => run = NoRun /\ \A w \in Wallets : mempool[w] = <<>>
BY DEF IInv, Rests, Grounds, NoButton

LEMMA GoingKeeps ==
    ASSUME AccountAssumption, IInv, NEW there \in {"account", "passkey"}, GoTo(there) \/ GoBack
    PROVE  IInv' /\ LeftWhenOpen
<1>1. /\ UNCHANGED <<worldVars, keptVars, layerVars, run, boundVars>>
      /\ place # "enable" /\ ceremony.at = "idle"
      /\ \E t \in {"entry", "account", "passkey"} : Mount(t, account')
  <2>1. CASE GoTo(there)
    <3>1. place = "entry"
      BY <2>1 DEF GoTo, InLobby
    <3>2. ceremony.at = "idle"
      <4>1. ceremony \in Ceremonies /\ Layered
        BY DEF IInv, Typed, LayerTypes
      <4> QED BY <3>1, <4>1 DEF Ceremonies, NoCeremony, Layered
    <3> QED BY <2>1, <3>1, <3>2 DEF GoTo, layerVars
  <2>2. CASE GoBack
    BY <2>2 DEF GoBack, layerVars
  <2> QED BY <2>1, <2>2
<1>2. LayerTypes' /\ Layered'
  BY <1>1 DEF IInv, Typed, LayerTypes, Layered, keptVars, layerVars
<1>3. PICK t \in {"entry", "account", "passkey"} : Mount(t, account')
  BY <1>1
<1>4. run' \in Runs
  BY <1>1, Known
<1>5. Undisturbed' => run' = NoRun /\ \A w \in Wallets : mempool[w] = <<>>
  BY <1>1, Idles DEF Undisturbed, boundVars
<1> QED BY <1>1, <1>2, <1>3, <1>4, <1>5, MountKeeps DEF IInv, Typed, LeftWhenOpen, worldVars

LEMMA ForgetKeeps == ASSUME AccountAssumption, IInv, Forget PROVE IInv' /\ LeftWhenOpen
<1>1. /\ UNCHANGED <<worldVars, seed, named, boundVars, run>>
      /\ ceremony.at = "leaving" /\ stored' = Nobody /\ account' = SignedOut
      /\ ceremony' = NoCeremony /\ Mount("entry", account')
  BY DEF Forget
<1>2. place = "account"
  BY <1>1 DEF IInv, Layered
<1>3. LayerTypes'
  BY <1>1 DEF IInv, Typed, LayerTypes, Accounts, Ceremonies
<1>4. run' \in Runs
  BY <1>1, Known
<1>5. Undisturbed' => run' = NoRun /\ \A w \in Wallets : mempool[w] = <<>>
  BY <1>1, <1>2, Idles DEF Undisturbed, boundVars
<1>6. /\ WorldTypes' /\ ScreenTypes' /\ Lived'
      /\ Rests(place, account, view, polls, key, activation, button)'
      /\ Truths(view, polls)'
      /\ (Undisturbed => Grounds(view, polls, activation, button, run))'
  BY <1>1, <1>3, <1>4, <1>5, MountKeeps DEF worldVars
<1>7. Layered'
  BY <1>1 DEF IInv, Layered, SignedOut, NoCeremony, WalletOf
<1> QED BY <1>2, <1>3, <1>6, <1>7 DEF IInv, Typed, LeftWhenOpen

(* A relaunch forgets everything but what is stored; a transaction left    *)
(* with the node disturbs.                                                 *)
LEMMA RelaunchKeeps == ASSUME AccountAssumption, IInv, Relaunch PROVE IInv'
<1>1. /\ UNCHANGED <<made, chain, mempool, stored>>
      /\ account' = Loading /\ ceremony' = NoCeremony /\ named' = Nobody /\ run' = NoRun
      /\ seed' \in {seed, Nobody}
      /\ \E there \in {place, "entry"} : Mount(there, account')
      /\ faults' = IF \E w \in Wallets : mempool[w] # <<>> THEN faults \cup {"orphan"} ELSE faults
  BY DEF Relaunch
<1>2. LayerTypes'
  BY <1>1 DEF IInv, Typed, LayerTypes, Accounts, Ceremonies
<1>3. Layered'
  BY <1>1 DEF Layered, Loading, NoCeremony, WalletOf
<1>4. PICK there \in {"entry", "passkey", "enable", "account"} : Mount(there, account')
  BY <1>1 DEF IInv, Typed, ScreenTypes
<1>5. Undisturbed' => run' = NoRun /\ \A w \in Wallets : mempool[w] = <<>>
  BY <1>1 DEF Undisturbed
<1> QED BY <1>1, <1>2, <1>3, <1>4, <1>5, Blanks, MountKeeps DEF IInv, Typed

(* What was asked before the wallet was named says nothing of it. *)
LEMMA RestoreKeeps == ASSUME AccountAssumption, IInv, Restore PROVE IInv' /\ LeftWhenOpen
<1> DEFINE acc == IF stored = Nobody THEN SignedOut
                  ELSE IF seed = stored THEN Unlocked(stored) ELSE Remembered(stored)
<1>1. /\ UNCHANGED <<worldVars, stored, ceremony, boundVars>>
      /\ account.at = "loading" /\ ceremony.at = "idle"
      /\ account' = acc /\ named' = WalletOf(acc)
      /\ seed' = IF stored # Nobody /\ seed # stored THEN Nobody ELSE seed
      /\ Show(acc, view, polls, key, activation, button, run)
  BY DEF Restore
<1>2. {stored, seed, named} \subseteq Wallets \cup {Nobody} /\ account \in Accounts /\ Layered
  BY DEF IInv, Typed, LayerTypes
<1>3. acc \in Accounts /\ (acc.at = "unlocked" => acc.wallet = stored)
  BY <1>2 DEF Accounts, SignedOut, Unlocked, Remembered
<1> HIDE DEF acc
<1>4. WalletOf(acc) \in Wallets \cup {Nobody}
  BY <1>3, WalletIs
<1>5. WorldTypes' /\ Lived'
  BY <1>1 DEF IInv, Typed, WorldTypes, Lived, worldVars
<1>6. LayerTypes'
  BY <1>1, <1>2, <1>3, <1>4 DEF IInv, Typed, LayerTypes
<1>7. named = Nobody
  BY <1>1, <1>2 DEF Layered, WalletOf
<1>8. key = NoKey /\ activation.has = {} /\ ~button.latched
  BY <1>1 DEF IInv, Rests
<1>9. PICK v \in Views, p \in SUBSET Asked, k \in ExchangeKeys, a \in Activations,
           b \in Buttons, r \in Runs :
        /\ v = view /\ p = polls /\ k = key /\ a = activation /\ b = button /\ r = run
  BY Known
<1>10. Show(account', v, p, k, a, b, r) /\ Rests(place, account', v, p, k, a, b)
  BY <1>1, <1>8, <1>9, Known DEF Rests
<1>11. v.seen \notin Pending /\ v.for = Nobody
       /\ \A q \in p : q.status \notin Pending /\ q.asked = Nobody
  BY <1>7, <1>9 DEF IInv, Truths, Says
<1>12. Truths(v, p)'
  BY <1>11 DEF Truths, Says, Pending
<1>13. ASSUME Undisturbed' PROVE Grounds(v, p, a, b, r)'
  <2>1. r = NoRun /\ \A w \in Wallets : mempool[w] = <<>>
    BY <1>1, <1>8, <1>9, <1>13 DEF IInv, Undisturbed, Grounds, boundVars
  <2> QED BY <1>1, <1>8, <1>9, <1>11, <2>1 DEF Grounds, NoRun, worldVars
<1>14. /\ ScreenTypes'
       /\ Rests(place, account, view, polls, key, activation, button)'
       /\ Truths(view, polls)'
       /\ (Undisturbed => Grounds(view, polls, activation, button, run))'
  <2>1. account.at # "unlocked" /\ named' = WalletOf(account') /\ Typed
    BY <1>1 DEF IInv
  <2> QED BY <1>5, <1>6, <1>10, <1>12, <1>13, <2>1, RenderKeeps
<1>15. Layered'
  BY <1>1, <1>3 DEF Layered
<1>16. LeftWhenOpen
  <2>1. place = "enable" => Where(account', v, k) = place
    BY <1>8, <1>9 DEF Where, Done, NoKey
  <2>2. place = "enable" => place' = place
    BY <1>10, <2>1, RenderIs DEF StaysOn
  <2> QED BY <2>2 DEF LeftWhenOpen
<1> QED BY <1>5, <1>6, <1>14, <1>15, <1>16 DEF IInv, Typed

LEMMA UnlockKeeps == ASSUME AccountAssumption, IInv, Unlock PROVE IInv' /\ LeftWhenOpen
<1>1. /\ UNCHANGED <<worldVars, keptVars, named, boundVars>>
      /\ ceremony.at = "adopted" /\ account' = Unlocked(ceremony.wallet)
      /\ ceremony' = NoCeremony
      /\ Show(account', view, polls, key, activation, button, run)
  BY DEF Unlock
<1>2. /\ {stored, seed, named} \subseteq Wallets \cup {Nobody} /\ account \in Accounts
      /\ ceremony \in Ceremonies /\ Layered
  BY DEF IInv, Typed, LayerTypes
<1>3. /\ ceremony.wallet \in Wallets /\ stored = ceremony.wallet /\ named = ceremony.wallet
      /\ place = "passkey" /\ account.at \in {"none", "remembered"}
  BY <1>1, <1>2 DEF Ceremonies, NoCeremony, Layered
<1>4. WorldTypes' /\ Lived'
  BY <1>1 DEF IInv, Typed, WorldTypes, Lived, worldVars
<1>5. LayerTypes'
  BY <1>1, <1>2, <1>3 DEF LayerTypes, Accounts, Ceremonies, keptVars
<1>6. /\ view = NoView /\ polls = {} /\ key = NoKey /\ activation = NoActivation
      /\ button = NoButton
  BY <1>3 DEF IInv, Rests
<1>7. PICK v \in Views, p \in SUBSET Asked, k \in ExchangeKeys, a \in Activations,
           b \in Buttons, r \in Runs :
        /\ v = view /\ p = polls /\ k = key /\ a = activation /\ b = button /\ r = run
  BY Known
<1>8. Show(account', v, p, k, a, b, r) /\ Rests(place, account', v, p, k, a, b)
  BY <1>1, <1>6, <1>7 DEF Rests, NoActivation, NoButton
<1>9. Truths(v, p)'
  BY <1>6, <1>7 DEF Truths, Says, NoView, Pending
<1>10. ASSUME Undisturbed' PROVE Grounds(v, p, a, b, r)'
  <2>1. r = NoRun /\ \A w \in Wallets : mempool[w] = <<>>
    BY <1>1, <1>3, <1>7, <1>10, Idles DEF Undisturbed, boundVars
  <2> QED BY <1>1, <1>6, <1>7, <2>1
          DEF Grounds, NoRun, NoView, NoActivation, NoButton, Pending, worldVars
<1>11. /\ ScreenTypes'
       /\ Rests(place, account, view, polls, key, activation, button)'
       /\ Truths(view, polls)'
       /\ (Undisturbed => Grounds(view, polls, activation, button, run))'
  <2>1. account.at # "unlocked" /\ place \notin {"entry", "enable"} /\ Typed
    BY <1>3 DEF IInv
  <2> QED BY <1>4, <1>5, <1>8, <1>9, <1>10, <2>1, RenderKeeps
<1>12. Layered'
  BY <1>1, <1>3 DEF Layered, Unlocked, NoCeremony, WalletOf, keptVars
<1> QED BY <1>3, <1>4, <1>5, <1>11, <1>12 DEF IInv, Typed, LeftWhenOpen

-----------------------------------------------------------------------------
(* The theorems *)

LEMMA InitHolds == ASSUME AccountAssumption, Init PROVE IInv
<1> USE DEF Init
<1>1. Typed
  <2>1. WorldTypes
    BY DEF WorldTypes
  <2>2. LayerTypes
    BY DEF LayerTypes, Accounts, Ceremonies
  <2>3. ScreenTypes
    BY Blanks DEF ScreenTypes
  <2> QED BY <2>1, <2>2, <2>3 DEF Typed
<1>2. Layered /\ Lived
  BY DEF Layered, Lived, Loading, NoCeremony, WalletOf
<1>3. Rests(place, account, view, polls, key, activation, button)
  BY DEF Rests, NoActivation, NoButton
<1>4. Truths(view, polls)
  BY DEF Truths, Says, NoView, Pending
<1>5. Grounds(view, polls, activation, button, run)
  BY DEF Grounds, NoRun, NoView, NoActivation, NoButton, Pending
<1> QED BY <1>1, <1>2, <1>3, <1>4, <1>5 DEF IInv

LEMMA NextKeeps ==
    ASSUME AccountAssumption, IInv, Next
    PROVE  IInv' /\ (launches' = launches => LeftWhenOpen)
<1>1. CASE Relaunch
  <2>1. launches' # launches
    BY <1>1 DEF Relaunch
  <2> QED BY <1>1, <2>1, RelaunchKeeps
<1>2. CASE Layer
  <2>1. CASE Restore
    BY <2>1, RestoreKeeps
  <2>2. CASE SaveSeed \/ Adopt
    <3>1. PICK w \in Wallets : TRUE
      BY <2>2 DEF IInv, Typed, LayerTypes, Ceremonies, NoCeremony, SaveSeed, Adopt
    <3> QED BY <2>2, <3>1, CeremonyKeeps
  <2>3. CASE Unlock
    BY <2>3, UnlockKeeps
  <2>4. CASE Forget
    BY <2>4, ForgetKeeps
  <2> QED BY <1>2, <2>1, <2>2, <2>3, <2>4 DEF Layer
<1>3. CASE Screen
  BY <1>3, WaitKeeps, KeyStepsKeep, NetworkStepsKeep, ReadFundingKeeps, SendKeeps DEF Screen
<1>4. CASE Platform
  BY <1>4, LookUpKeeps, AnswerKeeps DEF Platform
<1>5. CASE World
  BY <1>5, CreditKeeps, MineKeeps DEF World
<1>6. CASE User /\ ~Relaunch
  <2>1. CASE SignOut
    <3>1. PICK w \in Wallets : TRUE
      BY <2>1, Known, WalletIs DEF SignOut
    <3> QED BY <2>1, <3>1, CeremonyKeeps
  <2>2. CASE GoBack
    BY <2>2, GoingKeeps
  <2>3. CASE Press
    BY <2>3, PressKeeps
  <2>4. CASE \E w \in Wallets : AskPasskey(w)
    BY <2>4, CeremonyKeeps
  <2>5. CASE \E there \in {"account", "passkey"} : GoTo(there)
    BY <2>5, GoingKeeps
  <2> QED BY <1>6, <2>1, <2>2, <2>3, <2>4, <2>5 DEF User
<1>7. CASE Faults
  <2>1. CASE PasskeyFails
    <3>1. PICK w \in Wallets : TRUE
      BY <2>1 DEF IInv, Typed, LayerTypes, Ceremonies, NoCeremony, PasskeyFails
    <3> QED BY <2>1, <3>1, CeremonyKeeps
  <2>2. CASE LookUpFails \/ EnrollFails
    BY <2>2, KeyStepsKeep
  <2>3. CASE NetworkFails \/ ReadingFails
    BY <2>3, NetworkStepsKeep
  <2>4. CASE RunFails
    BY <2>4, RunFailsKeeps
  <2>5. CASE \E r \in polls : PollFails(r)
    BY <2>5, PollFailsKeeps
  <2> QED BY <1>7, <2>1, <2>2, <2>3, <2>4, <2>5 DEF Faults
<1>8. CASE Poll
  BY <1>8, PollKeeps
<1>9. CASE Enroll
  BY <1>9, EnrollKeeps
<1>10. CASE Refuse
  BY <1>10, KeyStepsKeep
<1>11. CASE \E r \in polls : Take(r)
  BY <1>11, TakeKeeps
<1> QED BY <1>1, <1>2, <1>3, <1>4, <1>5, <1>6, <1>7, <1>8, <1>9, <1>10, <1>11 DEF Next

LEMMA StutterKeeps == ASSUME AccountAssumption, IInv, UNCHANGED vars PROVE IInv'
<1> USE DEF vars, worldVars, keptVars, layerVars, screenVars, boundVars
<1>1. Typed' /\ Layered' /\ Lived'
  BY DEF IInv, Typed, WorldTypes, LayerTypes, ScreenTypes, Layered, Lived
<1>2. Rests(place, account, view, polls, key, activation, button)'
  BY DEF IInv, Rests
<1>3. Truths(view, polls)'
  BY DEF IInv, Truths, Says, IsOpen, StatusOf
<1>4. ASSUME Undisturbed' PROVE Grounds(view, polls, activation, button, run)'
  <2>1. Grounds(view, polls, activation, button, run)
    BY <1>4 DEF IInv, Undisturbed
  <2>2. \A w, step : CanGoOn(w, step)' = CanGoOn(w, step)
    BY DEF CanGoOn, Valid
  <2> QED BY <2>1, <2>2 DEF Grounds
<1> QED BY <1>1, <1>2, <1>3, <1>4 DEF IInv

(* The inductive invariant: each part of the app, from the passkey to the  *)
(* transactions, knows of the next what is so.                             *)
THEOREM AlwaysIInv == ASSUME AccountAssumption PROVE Spec => []IInv
<1>1. Init => IInv
  BY InitHolds
<1>2. IInv /\ [Next]_vars => IInv'
  BY NextKeeps, StutterKeeps
<1> QED BY <1>1, <1>2, PTL DEF Spec

(* The account layer and the screens keep to their types, and to the ties  *)
(* between them: the wallet signed in with is the one written down, and    *)
(* elsewhere nothing is kept of the exchange's screen.                     *)
THEOREM TypesAreKept == ASSUME AccountAssumption PROVE Spec => []TypeOK
<1>1. IInv => TypeOK
  <2> SUFFICES ASSUME IInv PROVE TypeOK
    OBVIOUS
  <2>1. /\ account \in Accounts /\ {stored, seed, named} \subseteq Wallets \cup {Nobody}
        /\ run \in Runs /\ view \in Views /\ key \in ExchangeKeys
    BY DEF IInv, Typed, LayerTypes, ScreenTypes
  <2>2. account.wallet \in Wallets \cup {Nobody}
    BY <2>1, WalletIs
  <2>3. run.at = "none" <=> run.steps = <<>>
    BY RunIs, PlansGoOn DEF NoRun
  <2>4. view.seen \in {"unknown", "active"} \cup Pending /\ key.state \in {"unknown", "missing", "enabled"}
    BY <2>1 DEF Views, ExchangeKeys
  <2>5. place # "enable" => key = NoKey /\ activation = NoActivation
    BY DEF IInv, Rests
  <2>6. chain \in [Wallets -> SUBSET {"gas", "collateral", "allowance", "account", "forward"}]
    <3>1. Funds \cup {"account", "forward"} = {"gas", "collateral", "allowance", "account", "forward"}
      BY DEF Funds
    <3> QED BY <3>1 DEF IInv, Typed, WorldTypes
  <2> QED BY <2>1, <2>2, <2>3, <2>4, <2>5, <2>6
          DEF TypeOK, Accounts, IInv, Typed, ScreenTypes, Layered
<1> QED BY <1>1, AlwaysIInv, PTL

(* activate.ts: no transaction is sent that must fail, but by a run begun  *)
(* beside a transaction the app had forgotten, or beside another run.      *)
THEOREM NoStepIsRefused == ASSUME AccountAssumption PROVE Spec => []StepsFindTheirGround
<1>1. IInv => StepsFindTheirGround
  BY DEF IInv, Undisturbed, Grounds, CanGoOn, StepsFindTheirGround
<1> QED BY <1>1, AlwaysIInv, PTL

(* enable.tsx: the screen goes to the lobby only when the exchange has     *)
(* opened the account of the very wallet that is signed in.                *)
THEOREM TheGateIsNotFooled == ASSUME AccountAssumption PROVE Spec => LeftOnlyWhenOpen
<1>1. IInv /\ [Next]_vars => (place = "enable" /\ place' = "entry" /\ launches' = launches
                               => StatusOf(account.wallet) = "active") \/ UNCHANGED vars
  BY NextKeeps DEF LeftWhenOpen, IsOpen
<1>2. IInv /\ [Next]_vars => [place = "enable" /\ place' = "entry" /\ launches' = launches
                               => StatusOf(account.wallet) = "active"]_vars
  BY <1>1
<1> QED BY <1>2, AlwaysIInv, PTL DEF Spec, LeftOnlyWhenOpen

=============================================================================
