------------------------------ MODULE ChartFeed ------------------------------
(***************************************************************************)
(* The chart page's datafeed and the price the app shows above the chart   *)
(* (apps/mobile/public/tv.js): getBars, subscribeBars, saw and tell.       *)
(*                                                                         *)
(* The charting library is external: it asks for the history of a          *)
(* resolution, then subscribes to it, reads further back when it likes,    *)
(* and refuses a live bar older than the last one it has.  Time is in      *)
(* ticks, and the market's price at a tick is the tick itself, so that a   *)
(* price says how old it is.  A bar is [time, close].  What a read answers *)
(* was true at some moment between the asking and the taking.              *)
(***************************************************************************)
EXTENDS Integers

CONSTANTS
    PERIODS,        \* for each resolution, the ticks of a bar
    FirstInterval,  \* the one the page opens with
    MaxClock, MaxReads, MaxSwitches     \* bounds: ticks, reads in all, changes of resolution

RESOLUTIONS == DOMAIN PERIODS

FeedAssumption ==
    /\ FirstInterval \in RESOLUTIONS
    /\ \A r \in RESOLUTIONS : PERIODS[r] \in Nat \ {0}
    /\ MaxClock \in Nat /\ MaxReads \in Nat /\ MaxSwitches \in Nat

VARIABLES
    clock,
    resolution,     \* the chart's
    live,           \* external: it has its history, and is subscribed
    newest,         \* the last bar time the chart has, by resolution
    last,           \* the price that is told, NoBar before there is one
    reads,          \* [kind, resolution, from, to, asked, attempt]
    asks, switches, \* bounds
    chartLast,      \* external: the last bar the library has, by resolution
    refused,        \* history: a live bar was older than that
    freshest        \* history: the newest price an answer held

vars == <<clock, resolution, live, newest, last, reads, asks, switches, chartLast, refused,
          freshest>>

NoBar == [time |-> -1, close |-> -1]

Init ==
    /\ clock = 0
    /\ resolution = FirstInterval /\ live = FALSE
    /\ newest = [r \in RESOLUTIONS |-> 0]
    /\ last = NoBar
    /\ reads = {} /\ asks = 0 /\ switches = 0
    /\ chartLast = [r \in RESOLUTIONS |-> 0]
    /\ refused = FALSE
    /\ freshest = -1

Tick ==
    /\ clock < MaxClock
    /\ clock' = clock + 1
    /\ UNCHANGED <<resolution, live, newest, last, reads, asks, switches, chartLast, refused,
                   freshest>>

-----------------------------------------------------------------------------
(* fetchBars *)

Begins(time, period) == (time \div period) * period

(* What the platform answers of a range at a moment: the bars are numbered *)
(* from the first tick on, and the one that runs closes at that moment.    *)
Bar(read, n, moment) ==
    LET period == PERIODS[read.resolution]
        time == n * period
    IN  [time |-> time, close |-> IF time + period <= moment THEN time + period - 1 ELSE moment]

Earlier(a, b) == IF a < b THEN a ELSE b
FirstNumber(read) ==
    (read.from + PERIODS[read.resolution] - 1) \div PERIODS[read.resolution]
LastNumber(read, moment) == Earlier(read.to, moment) \div PERIODS[read.resolution]

BarsAt(read, moment) ==
    {Bar(read, n, moment) : n \in FirstNumber(read)..LastNumber(read, moment)}

Latest(bars) == CHOOSE bar \in bars : \A other \in bars : other.time <= bar.time

Ask(kind, r, from, to) ==
    /\ asks < MaxReads /\ asks' = asks + 1
    /\ reads' = reads \cup {[kind |-> kind, resolution |-> r, from |-> from, to |-> to,
                             asked |-> clock, attempt |-> 1]}

AtLeast0(n) == IF n < 0 THEN 0 ELSE n

(* A slip: the last bar given is the last close. *)
SawWhatever(bars) == Latest(bars)

(* saw, bar after bar: they are sorted, so the newest of them decides.     *)
Saw(bars) == IF Latest(bars).time >= last.time THEN Latest(bars) ELSE last

Freshest(bars) ==
    IF bars # {} /\ Latest(bars).close > freshest THEN Latest(bars).close ELSE freshest

-----------------------------------------------------------------------------
(* getBars *)

(* The library opens a resolution with its latest bars.                    *)
AskHistory ==
    /\ ~live
    /\ ~\E read \in reads : read.kind = "open" /\ read.resolution = resolution
    /\ Ask("open", resolution, AtLeast0(clock - 4 * PERIODS[resolution]), clock)
    /\ UNCHANGED <<clock, resolution, live, newest, last, switches, chartLast, refused, freshest>>

AskFurtherBack ==
    /\ live
    /\ LET edge == Begins(clock, PERIODS[resolution])
       IN  edge > 0 /\ Ask("back", resolution, 0, edge - 1)
    /\ UNCHANGED <<clock, resolution, live, newest, last, switches, chartLast, refused, freshest>>

NewestOf(r, time) == [newest EXCEPT ![r] = IF time > @ THEN time ELSE @]

TakeHistory(read, moment) ==
    /\ read.kind \in {"open", "back"}
    /\ reads' = reads \ {read}
    /\ LET bars == BarsAt(read, moment)
           end == IF bars = {} THEN 0 ELSE Latest(bars).time
       IN  /\ newest' = NewestOf(read.resolution, end)
           /\ last' = IF bars = {} THEN last ELSE Saw(bars)
           /\ chartLast' = [chartLast EXCEPT ![read.resolution] = IF end > @ THEN end ELSE @]
           /\ freshest' = Freshest(bars)
    /\ live' = (live \/ (read.kind = "open" /\ read.resolution = resolution))
    /\ UNCHANGED <<clock, resolution, asks, switches, refused>>

(* Asked again twice, then the library is told. *)
HistoryFails(read) ==
    /\ read.kind \in {"open", "back"}
    /\ reads' = (reads \ {read}) \cup
                (IF read.attempt < 3
                 THEN {[read EXCEPT !.attempt = @ + 1, !.asked = clock]} ELSE {})
    /\ UNCHANGED <<clock, resolution, live, newest, last, asks, switches, chartLast, refused,
                   freshest>>

-----------------------------------------------------------------------------
(* subscribeBars *)

Poll ==
    /\ live
    /\ Ask("live", resolution,
           AtLeast0(Begins(clock, PERIODS[resolution]) - 2 * PERIODS[resolution]), clock)
    /\ UNCHANGED <<clock, resolution, live, newest, last, switches, chartLast, refused, freshest>>

(* onTick takes the bars that are not older than the newest; an answer of  *)
(* a subscription that has ended is taken too.                             *)
TakeLive(read, moment) ==
    /\ read.kind = "live"
    /\ reads' = reads \ {read}
    /\ freshest' = Freshest(BarsAt(read, moment))
    /\ LET r == read.resolution
           bars == {bar \in BarsAt(read, moment) : bar.time >= newest[r]}
       IN  IF bars = {} THEN UNCHANGED <<newest, last, chartLast, refused>>
           ELSE /\ newest' = [newest EXCEPT ![r] = Latest(bars).time]
                /\ last' = Saw(bars)
                /\ refused' = (refused \/ \E bar \in bars : bar.time < chartLast[r])
                /\ chartLast' = [chartLast EXCEPT ![r] = Latest(bars).time]
    /\ UNCHANGED <<clock, resolution, live, asks, switches>>

LiveFails(read) ==
    /\ read.kind = "live"
    /\ reads' = reads \ {read}
    /\ UNCHANGED <<clock, resolution, live, newest, last, asks, switches, chartLast, refused,
                   freshest>>

(* The app's interval: the library unsubscribes and opens the new one. *)
SetResolution(r) ==
    /\ r # resolution
    /\ switches < MaxSwitches /\ switches' = switches + 1
    /\ resolution' = r
    /\ live' = FALSE
    /\ UNCHANGED <<clock, newest, last, reads, asks, chartLast, refused, freshest>>

Next ==
    \/ Tick \/ AskHistory \/ AskFurtherBack \/ Poll
    \/ \E read \in reads :
          \/ \E moment \in read.asked..clock : TakeHistory(read, moment) \/ TakeLive(read, moment)
          \/ HistoryFails(read) \/ LiveFails(read)
    \/ \E r \in RESOLUTIONS : SetResolution(r)

Spec == Init /\ [][Next]_vars

-----------------------------------------------------------------------------
(* Properties *)

(***************************************************************************)
(* The price told lags what the page has been told of by less than a bar   *)
(* of the longest resolution, whichever way polls, histories and           *)
(* resolutions crossed: `last` is shared by all of them, so after a change *)
(* to longer bars it stands still until the next one begins, and an        *)
(* overtaken poll sets it back, but never by more.  And the library is     *)
(* never given a live bar older than the last it has, which it would       *)
(* refuse.                                                                 *)
(***************************************************************************)
PriceIsWithinABar ==
    /\ \E r \in RESOLUTIONS : freshest - last.close < PERIODS[r]
    /\ ~refused

(* What it rests on: nothing that was seen began after the price told, but *)
(* within a bar of it, and the library has what the page thinks it has.    *)
Read == [kind : {"open", "back", "live"}, resolution : RESOLUTIONS, from : Nat, to : Nat,
         asked : Nat, attempt : Nat]

Typed ==
    /\ clock \in Nat /\ resolution \in RESOLUTIONS /\ reads \subseteq Read
    /\ last \in [time : Int, close : Int] /\ freshest \in Int
    /\ newest \in [RESOLUTIONS -> Nat]

InStep ==
    /\ last.time <= last.close
    /\ \A r \in RESOLUTIONS : newest[r] = 0 \/ newest[r] <= last.time
    /\ \E r \in RESOLUTIONS : freshest < last.time + PERIODS[r]
    /\ chartLast = newest /\ ~refused
=============================================================================
