----------------------------- MODULE PhoneAccount -----------------------------
(***************************************************************************)
(* The app from its launch to an open exchange account: the account layer  *)
(* (account/useAccount.tsx over the session and the storage), the entry's  *)
(* gate (app/index.tsx), the passkey screen, and the screen that opens the *)
(* account (app/enable.tsx over exchange/useExchangeKey, useActivation and *)
(* activate).                                                              *)
(*                                                                         *)
(* As in PhoneTrading a step runs from one await to the next and includes  *)
(* the render that follows and its effects (Show), a change of screen      *)
(* among them.  A screen that is left forgets what it knew; the run of     *)
(* transactions goes on, and only a relaunch ends it.                      *)
(*                                                                         *)
(* External: the passkey, the platform, which answers a request without a  *)
(* wallet for its own account, and the chain, which mines a wallet's       *)
(* transactions in the order they were sent.                               *)
(***************************************************************************)
EXTENDS Integers, Sequences, FiniteSets

CONSTANTS
    Wallets,        \* the wallets the passkeys of this person derive
    Nobody,
    Own,            \* what a request that names nobody is answered
    Draws,          \* MAX_ENROLL_ATTEMPTS (5 in the code)
    MaxPolls,       \* bound: requests for the state under way at a time
    MaxLaunches,    \* bound: launches of the app
    MaxFaults       \* bound: calls that fail

ASSUME AccountAssumption ==
    /\ IsFiniteSet(Wallets) /\ Nobody \notin Wallets
    /\ Own \in {"active", "locked"}
    /\ {Draws, MaxPolls, MaxLaunches} \subseteq Nat \ {0} /\ MaxFaults \in Nat

Pending == {"no_exchange_account", "forwarding_disabled"}

NoView == [seen |-> "unknown", for |-> Nobody, locked |-> FALSE, offline |-> FALSE,
           waited |-> FALSE]
NoKey == [state |-> "unknown", lookup |-> "none", enroll |-> "idle", draws |-> 0,
          failed |-> FALSE]
NoActivation == [net |-> FALSE, asking |-> FALSE, read |-> FALSE, has |-> {},
                 progress |-> FALSE, failed |-> FALSE]
NoButton == [started |-> FALSE, latched |-> FALSE]
NoRun == [at |-> "none", wallet |-> Nobody, steps |-> <<>>]
NoCeremony == [at |-> "idle", wallet |-> Nobody]

VARIABLES
    \* the world
    made,           \* the wallets whose passkey exists
    enrolled,       \* the wallets whose exchange key the platform holds
    chain,          \* wallet -> of "gas", "collateral", "allowance", "account", "forward"
    mempool,        \* wallet -> the transactions sent and not mined, in order
    \* kept by the phone
    stored,         \* storage: the account it remembers
    seed,           \* session: the wallet whose seed it holds
    \* the account layer
    account,        \* AccountState
    ceremony,       \* unlock or signOut under way
    named,          \* setAccountAddress and setRequestSigner
    \* the screen
    place,          \* "entry" (the gate and the lobby), "passkey", "enable", "account"
    view,           \* what its useTrading and its timer know
    polls,          \* the state asked for and not shown yet
    key,            \* useExchangeKey
    activation,     \* useActivation
    button,         \* enable.tsx: started, and the one-shot latch
    run,            \* activate(): the steps still to run
    launches,       \* bound
    faults          \* bound, and history: the calls that failed, and what see Press, Relaunch

worldVars == <<made, enrolled, chain, mempool>>
keptVars == <<stored, seed>>
layerVars == <<account, ceremony, named>>
screenVars == <<place, view, polls, key, activation, button, run>>
boundVars == <<launches, faults>>
vars == <<worldVars, keptVars, layerVars, screenVars, boundVars>>

Loading == [at |-> "loading", wallet |-> Nobody]
SignedOut == [at |-> "none", wallet |-> Nobody]
Remembered(w) == [at |-> "remembered", wallet |-> w]
Unlocked(w) == [at |-> "unlocked", wallet |-> w]

Init ==
    /\ made = {} /\ enrolled = {}
    /\ chain = [w \in Wallets |-> {}]
    /\ mempool = [w \in Wallets |-> <<>>]
    /\ stored = Nobody /\ seed = Nobody
    /\ account = Loading /\ ceremony = NoCeremony /\ named = Nobody
    /\ place = "entry" /\ view = NoView /\ polls = {}
    /\ key = NoKey /\ activation = NoActivation /\ button = NoButton /\ run = NoRun
    /\ launches = 1 /\ faults = {}

(* A call fails; of each kind one. *)
MayFail(kind) == kind \notin faults /\ Cardinality(faults \ {"orphan", "again"}) < MaxFaults

-----------------------------------------------------------------------------
(* What the screens read off the state *)

WalletOf(acc) == IF acc.at = "unlocked" THEN acc.wallet ELSE Nobody

(* A slip: any answer is taken for one about this wallet. *)
HeardAnything(acc, v) == WalletOf(acc) # Nobody /\ v.seen # "unknown"

(* "Only an answer asked in this wallet's name says anything about it." *)
Heard(acc, v) ==
    WalletOf(acc) # Nobody /\ v.seen # "unknown" /\ v.for = WalletOf(acc)

Lacks(acc, v) == Heard(acc, v) /\ v.seen \in Pending

(* Entry: where the gate sends this visit, "entry" for the lobby or the splash. *)
Settled(acc, v) ==
    acc.at # "loading" /\ (acc.at = "none" \/ Heard(acc, v) \/ v.offline \/ v.waited)
NextStep(acc, v) ==
    IF ~Settled(acc, v) THEN "entry"
    ELSE IF acc.at = "none" THEN "passkey"
    ELSE IF Lacks(acc, v) \/ (WalletOf(acc) # Nobody /\ v.locked) THEN "enable"
    ELSE "entry"

Done(acc, v, k) == k.state = "enabled" /\ Heard(acc, v) /\ v.seen \notin Pending

(* A slip: collateral is asked of a wallet whose account already took it. *)
FundedAnew(acc, v, a) == a.net /\ a.read /\ {"gas", "collateral"} \subseteq a.has

Funded(acc, v, a) ==
    /\ a.net /\ a.read /\ "gas" \in a.has
    /\ (Lacks(acc, v) /\ v.seen = "forwarding_disabled") \/ "collateral" \in a.has

Running(k, a, r) == k.enroll # "idle" \/ r.at # "none" \/ a.progress

Failed == key.failed \/ activation.failed
Working == button.started /\ ~Failed

(* plan: the transactions still needed, as the screen last read the wallet. *)
Plan(v, a) ==
    IF v.seen = "forwarding_disabled" THEN <<"forward">>
    ELSE (IF "allowance" \in a.has THEN <<>> ELSE <<"approve">>) \o <<"create", "forward">>

-----------------------------------------------------------------------------
(* The render and its effects *)

Mount(there, acc) ==
    /\ place' = there
    /\ view' = NoView /\ polls' = {}
    /\ key' = IF there = "enable" /\ WalletOf(acc) # Nobody
              THEN [NoKey EXCEPT !.lookup = "asked"] ELSE NoKey
    /\ activation' = NoActivation /\ button' = NoButton

Where(acc, v, k) ==
    CASE place = "entry" -> NextStep(acc, v)
      [] place = "passkey" -> IF acc.at = "unlocked" THEN "entry" ELSE place
      [] place = "enable" -> IF Done(acc, v, k) THEN "entry" ELSE place
      [] place = "account" -> place

(* A slip: the run that is over may start again. *)
MayRunUnlatched(acc, v, k, a, b, r) ==
    /\ b.started /\ k.state = "enabled" /\ Funded(acc, v, a)
    /\ ~Running(k, a, r) /\ ~Done(acc, v, k)

(* The effect that carries on by itself: once for a press. *)
MayRun(acc, v, k, a, b, r) ==
    /\ b.started /\ ~b.latched /\ k.state = "enabled" /\ Funded(acc, v, a)
    /\ ~Running(k, a, r) /\ ~Done(acc, v, k)

(***************************************************************************)
(* The effects on [done], [step] and [signedIn] change the screen; those   *)
(* on [keys] and [active] ask for the key and for the network; the one on  *)
(* what a run needs starts it.                                             *)
(***************************************************************************)
Show(acc, v, p, k, a, b, r) ==
    IF Where(acc, v, k) # place THEN Mount(Where(acc, v, k), acc) /\ run' = r
    ELSE LET here == place = "enable"
             arrives == here /\ WalletOf(acc) # WalletOf(account)
             wakes == here /\ Lacks(acc, v) /\ ~Lacks(account, view)
             starts == here /\ MayRun(acc, v, k, a, b, r)
         IN /\ place' = place /\ view' = v /\ polls' = p
            /\ key' = IF arrives THEN [k EXCEPT !.lookup = "asked"] ELSE k
            /\ activation' = [a EXCEPT !.asking = wakes \/ (@ /\ Lacks(acc, v)),
                                       !.progress = @ \/ starts,
                                       !.failed = @ /\ ~starts]
            /\ button' = [b EXCEPT !.latched = @ \/ starts]
            /\ run' = IF starts THEN [at |-> "send", wallet |-> WalletOf(acc),
                                      steps |-> Plan(v, a)]
                      ELSE r

-----------------------------------------------------------------------------
(* The account layer *)

(* The app is closed and opened, or the page reloaded where it stands; the *)
(* session may be over by then, and an enrollment on its way may arrive.   *)
(* A transaction still with the node is an orphan: no run waits for it.    *)
Relaunch ==
    /\ launches < MaxLaunches
    /\ launches' = launches + 1
    /\ account' = Loading /\ ceremony' = NoCeremony /\ named' = Nobody
    /\ run' = NoRun
    /\ \E there \in {place, "entry"} : Mount(there, Loading)
    /\ seed' \in {seed, Nobody}
    /\ enrolled' \in {enrolled} \cup
          IF key.enroll = "asked" THEN {enrolled \cup {account.wallet}} ELSE {}
    /\ faults' = IF \E w \in Wallets : mempool[w] # <<>> THEN faults \cup {"orphan"} ELSE faults
    /\ UNCHANGED <<made, chain, mempool, stored>>

(* "A live session restores the wallet without a passkey prompt"; the seed *)
(* of another wallet is thrown away.                                       *)
Restore ==
    /\ account.at = "loading" /\ ceremony.at = "idle"
    /\ LET acc == IF stored = Nobody THEN SignedOut
                  ELSE IF seed = stored THEN Unlocked(stored) ELSE Remembered(stored)
       IN /\ account' = acc
          /\ named' = WalletOf(acc)
          /\ seed' = IF stored # Nobody /\ seed # stored THEN Nobody ELSE seed
          /\ Show(acc, view, polls, key, activation, button, run)
    /\ UNCHANGED <<worldVars, stored, ceremony, boundVars>>

(* create makes a wallet; signIn finds the remembered one, or any.         *)
AskPasskey(w) ==
    /\ place = "passkey" /\ account.at \in {"none", "remembered"} /\ ceremony.at = "idle"
    /\ \/ w \notin made
       \/ w \in made /\ (account.at = "remembered" => w = account.wallet)
    /\ ceremony' = [at |-> "prompt", wallet |-> w]
    /\ UNCHANGED <<worldVars, keptVars, account, named, screenVars, boundVars>>

(* Cancelled, no PRF, or a seed that could not be saved: the screen is back. *)
PasskeyFails ==
    /\ ceremony.at = "prompt"
    /\ ceremony' = NoCeremony
    /\ made' \in {made, made \cup {ceremony.wallet}}
    /\ UNCHANGED <<enrolled, chain, mempool, keptVars, account, named, screenVars, boundVars>>

(* unlock, one await after another: the seed is saved; the wallet is       *)
(* adopted and written down; the screens hear of it.                       *)
SaveSeed ==
    /\ ceremony.at = "prompt"
    /\ made' = made \cup {ceremony.wallet}
    /\ seed' = ceremony.wallet
    /\ ceremony' = [ceremony EXCEPT !.at = "saved"]
    /\ UNCHANGED <<enrolled, chain, mempool, stored, account, named, screenVars, boundVars>>

Adopt ==
    /\ ceremony.at = "saved"
    /\ named' = ceremony.wallet
    /\ stored' = ceremony.wallet
    /\ ceremony' = [ceremony EXCEPT !.at = "adopted"]
    /\ UNCHANGED <<worldVars, seed, account, screenVars, boundVars>>

Unlock ==
    /\ ceremony.at = "adopted"
    /\ account' = Unlocked(ceremony.wallet)
    /\ ceremony' = NoCeremony
    /\ Show(Unlocked(ceremony.wallet), view, polls, key, activation, button, run)
    /\ UNCHANGED <<worldVars, keptVars, named, boundVars>>

(* signOut: drop and clearSeed, then the account itself. *)
SignOut ==
    /\ place = "account" /\ account.at = "unlocked" /\ ceremony.at = "idle"
    /\ named' = Nobody
    /\ seed' = Nobody
    /\ ceremony' = [at |-> "leaving", wallet |-> account.wallet]
    /\ UNCHANGED <<worldVars, stored, account, screenVars, boundVars>>

Forget ==
    /\ ceremony.at = "leaving"
    /\ stored' = Nobody
    /\ account' = SignedOut
    /\ ceremony' = NoCeremony
    /\ Mount("entry", SignedOut) /\ run' = run
    /\ UNCHANGED <<worldVars, seed, named, boundVars>>

-----------------------------------------------------------------------------
(* The lobby's ways out, and the gate's timer *)

InLobby == place = "entry" /\ Settled(account, view)

GoTo(there) ==
    /\ InLobby
    /\ there = "account" => account.at = "unlocked"
    /\ there = "passkey" => account.at = "remembered"
    /\ Mount(there, account)
    /\ UNCHANGED <<worldVars, keptVars, layerVars, run, boundVars>>

GoBack ==
    /\ place = "account" /\ ceremony.at = "idle"
    /\ Mount("entry", account)
    /\ UNCHANGED <<worldVars, keptVars, layerVars, run, boundVars>>

(* "A splash that waits for an answer can wait for ever." *)
Wait ==
    /\ place = "entry" /\ ~view.waited
    /\ Show(account, [view EXCEPT !.waited = TRUE], polls, key, activation, button, run)
    /\ UNCHANGED <<worldVars, keptVars, layerVars, boundVars>>

-----------------------------------------------------------------------------
(* The polled state: useTrading.refresh over api.request *)

StatusOf(w) ==
    IF w = Nobody THEN Own
    ELSE IF w \notin enrolled THEN "locked"
    ELSE IF "account" \notin chain[w] THEN "no_exchange_account"
    ELSE IF "forward" \notin chain[w] THEN "forwarding_disabled"
    ELSE "active"

(* refresh notes who asks; then the request is signed. *)
Poll ==
    /\ place \in {"entry", "enable"} /\ Cardinality(polls) < MaxPolls
    /\ polls' = polls \cup {[asked |-> named, at |-> "signing", status |-> "unknown"]}
    /\ UNCHANGED <<worldVars, keptVars, layerVars, place, view, key, activation, button,
                   run, boundVars>>

(* The address goes on the request after the signature, and is answered.   *)
Answer(r) ==
    /\ r \in polls /\ r.at = "signing"
    /\ polls' = (polls \ {r}) \cup
          {[asked |-> r.asked, at |-> "answered", status |-> StatusOf(named)]}
    /\ UNCHANGED <<worldVars, keptVars, layerVars, place, view, key, activation, button,
                   run, boundVars>>

Seen(r) ==
    [view EXCEPT !.seen = r.status, !.for = r.asked, !.locked = FALSE, !.offline = FALSE]

(* no_key and own_account_disabled are errors: there is no state, only that. *)
Take(r) ==
    /\ r \in polls /\ r.at = "answered"
    /\ Show(account,
            IF r.status = "locked" THEN [view EXCEPT !.seen = "unknown", !.locked = TRUE]
                                   ELSE Seen(r),
            polls \ {r}, key, activation, button, run)
    /\ UNCHANGED <<worldVars, keptVars, layerVars, boundVars>>

PollFails(r) ==
    /\ r \in polls /\ MayFail("poll")
    /\ faults' = faults \cup {"poll"}
    /\ Show(account, [view EXCEPT !.offline = TRUE], polls \ {r}, key, activation, button, run)
    /\ UNCHANGED <<worldVars, keptVars, layerVars, launches>>

-----------------------------------------------------------------------------
(* The exchange key *)

LookUp ==
    /\ key.lookup = "asked"
    /\ key' = [key EXCEPT !.lookup = IF account.wallet \in enrolled THEN "enabled" ELSE "missing"]
    /\ UNCHANGED <<worldVars, keptVars, layerVars, place, view, polls, activation, button,
                   run, boundVars>>

(* The answer is taken whatever has happened since. *)
TakeLookUp ==
    /\ key.lookup \in {"enabled", "missing"}
    /\ Show(account, view, polls, [key EXCEPT !.state = key.lookup, !.lookup = "none"],
            activation, button, run)
    /\ UNCHANGED <<worldVars, keptVars, layerVars, boundVars>>

(* A lookup that fails is one that found nothing. *)
LookUpFails ==
    /\ key.lookup # "none" /\ MayFail("lookup")
    /\ faults' = faults \cup {"lookup"}
    /\ Show(account, view, polls, [key EXCEPT !.state = "missing", !.lookup = "none"],
            activation, button, run)
    /\ UNCHANGED <<worldVars, keptVars, layerVars, launches>>

(* enrollExchangeKey: payload, two signatures, enroll. *)
Enroll ==
    /\ key.enroll = "asked"
    /\ enrolled' = enrolled \cup {account.wallet}
    /\ key' = [key EXCEPT !.enroll = "done"]
    /\ UNCHANGED <<made, chain, mempool, keptVars, layerVars, place, view, polls,
                   activation, button, run, boundVars>>

TakeEnrolled ==
    /\ key.enroll = "done"
    /\ Show(account, view, polls, [key EXCEPT !.state = "enabled", !.enroll = "idle"],
            activation, button, run)
    /\ UNCHANGED <<worldVars, keptVars, layerVars, boundVars>>

(* venue_rejected: a fresh payload is another draw, a few times. *)
Refuse ==
    /\ key.enroll = "asked"
    /\ Show(account, view, polls,
            IF key.draws + 1 < Draws THEN [key EXCEPT !.draws = @ + 1]
            ELSE [key EXCEPT !.enroll = "idle", !.failed = TRUE],
            activation, button, run)
    /\ UNCHANGED <<worldVars, keptVars, layerVars, boundVars>>

EnrollFails ==
    /\ key.enroll # "idle" /\ MayFail("enroll")
    /\ faults' = faults \cup {"enroll"}
    /\ Show(account, view, polls, [key EXCEPT !.enroll = "idle", !.failed = TRUE],
            activation, button, run)
    /\ UNCHANGED <<worldVars, keptVars, layerVars, launches>>

-----------------------------------------------------------------------------
(* The network and the wallet's funds *)

(* "The venue's testnet funding, which arrives on first sign-in." *)
Credit(w) ==
    /\ w \in enrolled /\ "gas" \notin chain[w]
    /\ chain' = [chain EXCEPT ![w] = @ \cup {"gas", "collateral"}]
    /\ UNCHANGED <<made, enrolled, mempool, keptVars, layerVars, screenVars, boundVars>>

TakeNetwork ==
    /\ activation.asking
    /\ Show(account, view, polls, key, [activation EXCEPT !.net = TRUE, !.asking = FALSE],
            button, run)
    /\ UNCHANGED <<worldVars, keptVars, layerVars, boundVars>>

NetworkFails ==
    /\ activation.asking /\ MayFail("network")
    /\ faults' = faults \cup {"network"}
    /\ Show(account, view, polls, key, [activation EXCEPT !.asking = FALSE, !.failed = TRUE],
            button, run)
    /\ UNCHANGED <<worldVars, keptVars, layerVars, launches>>

(* The funding poll rests while a run is under way. *)
Reads == place = "enable" /\ Lacks(account, view) /\ activation.net /\ run.at = "none"

ReadFunding ==
    /\ Reads
    /\ Show(account, view, polls, key,
            [activation EXCEPT !.read = TRUE,
                !.has = chain[account.wallet] \cap {"gas", "collateral", "allowance"}],
            button, run)
    /\ UNCHANGED <<worldVars, keptVars, layerVars, boundVars>>

ReadingFails ==
    /\ Reads /\ MayFail("reading")
    /\ faults' = faults \cup {"reading"}
    /\ Show(account, view, polls, key, [activation EXCEPT !.failed = TRUE], button, run)
    /\ UNCHANGED <<worldVars, keptVars, layerVars, launches>>

-----------------------------------------------------------------------------
(* The one press *)

Started == [started |-> TRUE, latched |-> FALSE]

(***************************************************************************)
(* start: without a key the key is enrolled, with one the run starts again *)
(* - unless it is `running', and progress is left over from a run that     *)
(* failed.  Pressed beside an enrollment (the complaint of another call    *)
(* gives the button back), the second enrollment counts as the first.      *)
(***************************************************************************)
Press ==
    /\ place = "enable" /\ ~Working
    /\ LET enrolls == key.state # "enabled" /\ WalletOf(account) # Nobody
           k == IF ~enrolls THEN key
                ELSE IF key.enroll # "idle" THEN [key EXCEPT !.failed = FALSE]
                ELSE [key EXCEPT !.enroll = "asked", !.draws = 0, !.failed = FALSE]
       IN Show(account, view, polls, k, activation, Started, run)
    /\ faults' = IF button.latched THEN faults \cup {"again"} ELSE faults
    /\ UNCHANGED <<worldVars, keptVars, layerVars, launches>>

-----------------------------------------------------------------------------
(* activate: one confirmed transaction after another *)

Valid(w, step) ==
    CASE step = "approve" -> TRUE
      [] step = "create" -> {"allowance", "collateral"} \subseteq chain[w]
      [] step = "forward" -> "account" \in chain[w]

(* What a transaction leaves of the wallet; a reverted one leaves it. *)
After(w, step) ==
    IF ~Valid(w, step) THEN chain[w]
    ELSE CASE step = "approve" -> chain[w] \cup {"allowance"}
           [] step = "create" ->
                 (chain[w] \ {"allowance", "collateral"}) \cup {"account"}
           [] step = "forward" -> chain[w] \cup {"forward"}

(* run's catch: what went wrong is shown, and the progress stays. *)
RunEnds(failed) ==
    Show(account, view, polls, key,
         IF run.wallet = WalletOf(account) /\ place = "enable"
         THEN [activation EXCEPT !.failed = failed, !.progress = failed] ELSE activation,
         button, NoRun)

(* A transaction that would revert is not sent: its gas cannot be estimated. *)
Send ==
    /\ run.at = "send"
    /\ IF Valid(run.wallet, Head(run.steps))
       THEN /\ mempool' = [mempool EXCEPT ![run.wallet] = Append(@, Head(run.steps))]
            /\ run' = [run EXCEPT !.at = "wait"]
            /\ UNCHANGED <<place, view, polls, key, activation, button>>
       ELSE RunEnds(TRUE) /\ UNCHANGED mempool
    /\ UNCHANGED <<made, enrolled, chain, keptVars, layerVars, boundVars>>

(* The last transaction sent is the one the run waits for. *)
Mine(w) ==
    /\ mempool[w] # <<>>
    /\ mempool' = [mempool EXCEPT ![w] = Tail(@)]
    /\ chain' = [chain EXCEPT ![w] = After(w, Head(mempool[w]))]
    /\ IF run.wallet = w /\ run.at = "wait" /\ Len(mempool[w]) = 1
       THEN IF ~Valid(w, Head(mempool[w])) THEN RunEnds(TRUE)
            ELSE IF Len(run.steps) = 1 THEN RunEnds(FALSE)
            ELSE /\ run' = [run EXCEPT !.at = "send", !.steps = Tail(@)]
                 /\ UNCHANGED <<place, view, polls, key, activation, button>>
       ELSE UNCHANGED screenVars
    /\ UNCHANGED <<made, enrolled, keptVars, layerVars, boundVars>>

(* The node does not answer: before the transaction is sent, or after. *)
RunFails ==
    /\ run.at # "none" /\ MayFail("run")
    /\ faults' = faults \cup {"run"}
    /\ RunEnds(TRUE)
    /\ UNCHANGED <<worldVars, keptVars, layerVars, launches>>

-----------------------------------------------------------------------------
Layer == Restore \/ SaveSeed \/ Adopt \/ Unlock \/ Forget

Screen ==
    \/ Wait \/ TakeLookUp \/ TakeEnrolled \/ TakeNetwork \/ ReadFunding \/ Send

Platform == LookUp \/ \E r \in polls : Answer(r)

World == \E w \in Wallets : Credit(w) \/ Mine(w)

User ==
    \/ Relaunch \/ SignOut \/ GoBack \/ Press
    \/ \E w \in Wallets : AskPasskey(w)
    \/ \E there \in {"account", "passkey"} : GoTo(there)

Faults ==
    \/ PasskeyFails \/ LookUpFails \/ EnrollFails \/ NetworkFails \/ ReadingFails \/ RunFails
    \/ \E r \in polls : PollFails(r)

Next ==
    \/ Layer \/ Screen \/ Platform \/ World \/ User \/ Faults
    \/ Poll \/ Enroll \/ Refuse \/ \E r \in polls : Take(r)

Spec == Init /\ [][Next]_vars

(***************************************************************************)
(* What is under way goes on, the intervals fire, the venue credits, and a *)
(* live button is pressed.  An enrollment is not refused for ever (two in  *)
(* five are, independently); nobody has to sign out or to relaunch.        *)
(***************************************************************************)
Fairness ==
    /\ WF_vars(Layer) /\ WF_vars(LookUp) /\ WF_vars(Poll) /\ WF_vars(\E r \in polls : Answer(r))
    /\ WF_vars(Wait) /\ WF_vars(TakeLookUp) /\ WF_vars(TakeEnrolled)
    /\ WF_vars(TakeNetwork) /\ WF_vars(ReadFunding) /\ WF_vars(Send)
    /\ SF_vars(\E r \in polls : Take(r)) /\ SF_vars(Enroll)
    /\ WF_vars(World) /\ WF_vars(Press)

FairSpec == Spec /\ Fairness

-----------------------------------------------------------------------------
(* Properties *)

TypeOK ==
    /\ chain \in [Wallets -> SUBSET {"gas", "collateral", "allowance", "account", "forward"}]
    /\ {stored, seed, named, account.wallet} \subseteq Wallets \cup {Nobody}
    /\ account \in {Loading, SignedOut} \cup
          {Remembered(w) : w \in Wallets} \cup {Unlocked(w) : w \in Wallets}
    /\ account.at = "unlocked" => account.wallet = stored
    /\ place \in {"entry", "passkey", "enable", "account"}
    /\ view.seen \in {"unknown", "active"} \cup Pending
    /\ key.state \in {"unknown", "missing", "enabled"}
    /\ run.at = "none" <=> run.steps = <<>>
    /\ place # "enable" => key = NoKey /\ activation = NoActivation

(***************************************************************************)
(* "Read as the user's, that sent the screen to the lobby, and the gate    *)
(* sent it straight back here, for ever": the screen that opens an account *)
(* is left only when the account of this very wallet is open.              *)
(***************************************************************************)
LeftOnlyWhenOpen ==
    [][place = "enable" /\ place' = "entry" /\ launches' = launches
          => StatusOf(account.wallet) = "active"]_vars

(***************************************************************************)
(* "createAccount must be mined before allowOrderForwarding can find the   *)
(* account": no step is sent that the chain must refuse, by a run over or  *)
(* begun again, unless a relaunch left a transaction with the node, or the *)
(* button, given back by the complaint of another call, was pressed again. *)
(***************************************************************************)
StepsFindTheirGround ==
    run.at = "send" /\ faults \cap {"orphan", "again"} = {}
        => Valid(run.wallet, Head(run.steps))

(* The screen's dead ends: nothing on it leads on, and only a relaunch does. *)
Stuck ==
    /\ place = "enable"
    /\ \/ Lacks(account, view) /\ "network" \in faults /\ ~activation.net /\ ~activation.asking
       \/ activation.failed /\ activation.progress
       \/ key.state = "missing" /\ key.enroll = "idle" /\ Working

(***************************************************************************)
(* One press, then the screen carries on by itself: a wallet that is signed*)
(* in gets its account opened, through refusals, failed reads and          *)
(* relaunches, or its screen is stuck.                                     *)
(***************************************************************************)
IsOpen(w) == StatusOf(w) = "active"
AccountOpens ==
    \A w \in Wallets :
        account = Unlocked(w) ~>
            IsOpen(w) \/ account # Unlocked(w) \/ place = "account" \/ Stuck

(***************************************************************************)
(* "A second press is a retry, so the one-shot latch has to let go -       *)
(* otherwise a failed activation leaves a live button that does nothing."  *)
(***************************************************************************)
RetryRestarts ==
    [][Press /\ activation.failed /\ key.state = "enabled" /\ Funded(account, view, activation)
          => run'.at = "send"]_vars
=============================================================================
