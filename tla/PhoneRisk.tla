------------------------------ MODULE PhoneRisk ------------------------------
(***************************************************************************)
(* The risk screen's two dangerous acts: the limits the wallet moves past  *)
(* the safe tier (DangerZone) and the one red button (CloseEverything),    *)
(* over the report that is polled under them (useRisk), all of             *)
(* apps/mobile/src/app/risk.tsx.                                           *)
(*                                                                         *)
(* A tier is one value of the three sliders together.  Each act takes two  *)
(* taps: the first one turns the button red, and a timer turns it back.    *)
(* A call to the platform is two steps, what the platform does and what    *)
(* the phone makes of the answer, and a call that fails may have been      *)
(* carried out.                                                            *)
(***************************************************************************)
EXTENDS Naturals

CONSTANTS
    Tiers,          \* what the three sliders can say together
    Safe,           \* the safe tier
    Past,           \* the tiers past it in any of the three: danger
    MaxTaps,        \* bound: taps that send a tier or the red button's close
    MaxMoves,       \* bound: moves of a slider
    MaxPolls,       \* bound: answers of the poll
    NONE

RiskAssumption ==
    /\ Safe \in Tiers \ Past /\ Past \subseteq Tiers /\ NONE \notin Tiers
    /\ MaxTaps \in Nat /\ MaxMoves \in Nat /\ MaxPolls \in Nat

VARIABLES
    held, trades,   \* the platform: the tier it holds, and whether any trade is open
    answers,        \* answers of the poll on their way to the phone
    report,         \* the last one taken: [chosen, open], NONE before the first
    draft,          \* what the sliders were moved to, NONE when they follow the report
    confirm,        \* the apply button is red
    timers,         \* 4 s timers that will turn it back
    busy,           \* the apply button spins
    acts,           \* tiers being applied: setLimits, then the refresh
    countdown,      \* the red button's seconds left
    closing,        \* its call: "no", "sent" or "done" at the platform
    screen,         \* "risk", "away", or "closed", the list of what was closed
    taps, moves, polls,     \* bounds
    warned,         \* history: the tier the red apply button was shown over
    sent            \* history: the tier sent last, with the one warned of then

platform == <<held, trades>>
zone == <<draft, confirm, timers, busy, acts, warned, sent>>
button == <<countdown, closing>>
vars == <<platform, answers, report, zone, button, screen, taps, moves, polls>>

Init ==
    /\ held = Safe /\ trades = TRUE
    /\ answers = {} /\ report = NONE
    /\ draft = NONE /\ confirm = FALSE /\ timers = 0 /\ busy = FALSE /\ acts = {}
    /\ countdown = 0 /\ closing = "no"
    /\ screen = "risk"
    /\ taps = 0 /\ moves = 0 /\ polls = 0
    /\ warned = NONE /\ sent = <<NONE, NONE>>

-----------------------------------------------------------------------------
(* The report: answers are taken in any order, and a failed one is silent. *)

Reading == [chosen |-> held, open |-> trades]

Polled ==
    /\ polls < MaxPolls
    /\ polls' = polls + 1
    /\ answers' = answers \cup {Reading}
    /\ UNCHANGED <<platform, report, zone, button, screen, taps, moves>>

TakeReport(answer) ==
    /\ answers' = answers \ {answer}
    /\ report' = answer
    /\ UNCHANGED <<platform, zone, button, screen, taps, moves, polls>>

Shown == screen = "risk" /\ report # NONE

-----------------------------------------------------------------------------
(* DangerZone *)

tier == IF draft # NONE THEN draft ELSE report.chosen
dirty == tier # report.chosen
danger(t) == t \in Past

(* A slip: a slider moved leaves the button red. *)
setLeavesRed(t) ==
    /\ draft' = t
    /\ confirm' = confirm

set(t) ==
    /\ draft' = t
    /\ confirm' = FALSE

Move(t) ==
    /\ Shown /\ t # tier
    /\ moves < MaxMoves /\ moves' = moves + 1
    /\ set(t)
    /\ UNCHANGED <<platform, answers, report, timers, busy, acts, warned, sent, button,
                   screen, taps, polls>>

Ask(next) ==
    /\ confirm' = TRUE
    /\ timers' = timers + 1
    /\ warned' = next
    /\ UNCHANGED <<busy, acts, sent, taps>>

Apply(next) ==
    /\ confirm' = FALSE
    /\ busy' = TRUE
    /\ taps < MaxTaps /\ taps' = taps + 1
    /\ acts' = acts \cup {[tap |-> taps, tier |-> next, at |-> "sent", saw |-> NONE]}
    /\ sent' = <<next, warned>>
    /\ UNCHANGED <<timers, warned>>

apply(next) ==
    /\ Shown
    /\ IF ~confirm /\ danger(next) THEN Ask(next) ELSE Apply(next)
    /\ UNCHANGED <<platform, answers, report, draft, button, screen, moves, polls>>

(* The button is off while it spins or has nothing to send. *)
TapApply == Shown /\ dirty /\ ~busy /\ apply(tier)

(* The line under it is drawn near danger, and is not off while it spins.  *)
TapBackToSafe == Shown /\ (danger(report.chosen) \/ danger(tier)) /\ apply(Safe)

(* Any earlier timer turns the button back, whichever tap it was set by.   *)
Lapse ==
    /\ timers > 0
    /\ timers' = timers - 1
    /\ confirm' = FALSE
    /\ UNCHANGED <<platform, answers, report, draft, busy, acts, warned, sent, button,
                   screen, taps, moves, polls>>

Moved(act, to) == acts' = (acts \ {act}) \cup {to}

(* setLimits reaches the platform.                                         *)
Takes(act) ==
    /\ act.at = "sent"
    /\ held' = act.tier
    /\ Moved(act, [act EXCEPT !.at = "held"])
    /\ UNCHANGED <<trades, answers, report, draft, confirm, timers, busy, warned, sent, button,
                   screen, taps, moves, polls>>

(* It failed on the way there or on the way back: the reason is shown and  *)
(* the sliders stay where they are.                                        *)
ApplyFails(act) ==
    /\ act.at \in {"sent", "held"}
    /\ acts' = acts \ {act}
    /\ busy' = FALSE
    /\ UNCHANGED <<platform, answers, report, draft, confirm, timers, warned, sent, button,
                   screen, taps, moves, polls>>

(* The draft goes whatever it says by now, and the report is read again.   *)
Applied(act) ==
    /\ act.at = "held"
    /\ draft' = NONE
    /\ Moved(act, [act EXCEPT !.at = "read", !.saw = Reading])
    /\ UNCHANGED <<platform, answers, report, confirm, timers, busy, warned, sent, button,
                   screen, taps, moves, polls>>

(* "Applied.", also when the report could not be read.                     *)
Refreshed(act) ==
    /\ act.at = "read"
    /\ acts' = acts \ {act}
    /\ busy' = FALSE
    /\ report' \in {act.saw, report}
    /\ UNCHANGED <<platform, answers, draft, confirm, timers, warned, sent, button, screen,
                   taps, moves, polls>>

-----------------------------------------------------------------------------
(* CloseEverything *)

CanPress == Shown /\ report.open /\ closing = "no"

PressOnce ==
    /\ CanPress /\ countdown = 0
    /\ countdown' = 3
    /\ UNCHANGED <<platform, answers, report, zone, closing, screen, taps, moves,
                   polls>>

PressAgain ==
    /\ CanPress /\ countdown > 0
    /\ taps < MaxTaps /\ taps' = taps + 1
    /\ countdown' = 0
    /\ closing' = "sent"
    /\ UNCHANGED <<platform, answers, report, zone, screen, moves, polls>>

Second ==
    /\ countdown > 0
    /\ countdown' = countdown - 1
    /\ UNCHANGED <<platform, answers, report, zone, closing, screen, taps, moves,
                   polls>>

ClosesAll ==
    /\ closing = "sent"
    /\ trades' \in {FALSE, trades}
    /\ closing' = "done"
    /\ UNCHANGED <<held, answers, report, zone, countdown, screen, taps, moves,
                   polls>>

(* Wherever the user is by now, the list takes the place of that screen.   *)
ShowClosed ==
    /\ closing = "done"
    /\ closing' = "no"
    /\ screen' = "closed"
    /\ UNCHANGED <<platform, answers, report, zone, countdown, taps, moves, polls>>

CloseAllFails ==
    /\ closing \in {"sent", "done"}
    /\ closing' = "no"
    /\ UNCHANGED <<platform, answers, report, zone, countdown, screen, taps, moves,
                   polls>>

(* A trade is opened elsewhere. *)
Trade ==
    /\ ~trades
    /\ polls < MaxPolls /\ polls' = polls + 1
    /\ trades' = TRUE
    /\ UNCHANGED <<held, answers, report, zone, button, screen, taps, moves>>

Leave ==
    /\ screen = "risk"
    /\ screen' = "away"
    /\ UNCHANGED <<platform, answers, report, zone, button, taps, moves, polls>>

Next ==
    \/ Polled \/ \E answer \in answers : TakeReport(answer)
    \/ \E t \in Tiers : Move(t)
    \/ TapApply \/ TapBackToSafe \/ Lapse
    \/ \E act \in acts : Takes(act) \/ ApplyFails(act) \/ Applied(act) \/ Refreshed(act)
    \/ PressOnce \/ PressAgain \/ Second \/ ClosesAll \/ ShowClosed \/ CloseAllFails
    \/ Trade \/ Leave

Spec == Init /\ [][Next]_vars

-----------------------------------------------------------------------------
(* Properties *)

(***************************************************************************)
(* A tier past the safe one is sent only when the red button was shown     *)
(* over that very tier, however the moves of the sliders, the polls, the   *)
(* timers that outlive their tap and the applies under way have crossed.   *)
(***************************************************************************)
PastSafeTakesTwoTaps ==
    sent[1] \in Past => sent[2] = sent[1]

(* What it rests on: once the sliders were moved, a red button is over     *)
(* what they say.                                                          *)
RedOverTheDraft == confirm /\ draft # NONE => warned = draft
=============================================================================
