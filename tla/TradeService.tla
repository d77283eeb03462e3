----------------------------- MODULE TradeService -----------------------------
(***************************************************************************)
(* services/internal/platform/service.go with internal/strategy/timers.go: *)
(* one wallet's trading service, its open, amend and close paths, and the  *)
(* exits it owns: the horizon timer, the stop watcher and the row that     *)
(* restores both after a restart.  Timers, stops and rows are kept per     *)
(* market and markets do not interact, so this is one market.              *)
(*                                                                         *)
(* An actor is a goroutine: a tap (an HTTP request), a timer's callback or *)
(* a stop's watcher.  Nothing is locked from one call to the next, so each *)
(* lock-protected method and each call to the venue or the store is a step.*)
(* The venue and the store are external: what they may answer is `Faults'. *)
(***************************************************************************)
EXTENDS Integers, FiniteSets, Sequences

CONSTANTS
    Taps,           \* HTTP requests that may be served at the same time
    TapOps,         \* what they ask for: subset of {"open", "amend", "close"}
    Asked,          \* the exits an open may ask for: subset of Exits
    MaxTimers,      \* bound: timers ever scheduled
    MaxStops,       \* bound: stop watchers ever started
    MaxPosition,    \* bound: opens in the position at a time
    MaxGen,         \* bound: positions ever opened
    Faults,         \* what may go wrong outside, see FaultKinds
    MaxFaults,      \* bound: how often
    MaxCrashes      \* bound: restarts of the process

(***************************************************************************)
(* read: the positions could not be read.  error: an order was not placed. *)
(* refused: the venue answered StatusFailed.  lost: the order was executed *)
(* but the answer never came (the request's context ended, the connection  *)
(* broke).  store: the row was not written.  gone: the position was closed *)
(* at the venue, by a liquidation or by its owner's hand.                  *)
(***************************************************************************)
FaultKinds == {"read", "error", "refused", "lost", "store", "gone"}

Exits == SUBSET {"horizon", "stop"}
Timers == {"timer"} \X (1 .. MaxTimers)
Stops == {"stop"} \X (1 .. MaxStops)
Actors == Taps \cup Timers \cup Stops
NoActor == <<"none", 0>>
Attempts == 3       \* horizonCloseAttempts

ASSUME ServiceAssumption ==
    /\ TapOps \subseteq {"open", "amend", "close"}
    /\ Asked \subseteq Exits
    /\ Faults \subseteq FaultKinds
    /\ {MaxTimers, MaxStops, MaxPosition, MaxGen, MaxFaults, MaxCrashes} \subseteq Nat
    /\ Taps \cap (Timers \cup Stops \cup {NoActor}) = {}
    /\ NoActor \notin Timers \cup Stops
    /\ IsFiniteSet(Taps)

VARIABLES
    up,             \* the wallet's service exists
    pc,             \* actor -> where it is
    exits,          \* actor -> the exits its open or amendment is about
    seen,           \* actor -> the position its close read: [size, gen]
    tries,          \* actor -> close attempts made
    timerOf,        \* Timers.pending: the market's timer, or NoActor
    stopOf,         \* Service.stops: the market's stop, or NoActor
    done,           \* the stops whose done channel is closed
    saved,          \* the store's row: the exits it restores, {} for none
    counted,        \* policy: openPositions of the account
    opens,          \* venue: the opens the position is made of, oldest first,
                    \* each as the exits it was promised
    gen,            \* history: positions opened so far
    faults, crashes \* bounds

exitVars == <<timerOf, stopOf, done>>
venueVars == <<opens, gen>>
localVars == <<exits, seen, tries>>
vars == <<up, pc, exits, seen, tries, timerOf, stopOf, done, saved, counted,
          opens, gen, faults, crashes>>

position == Len(opens)                              \* its size
promised == UNION {opens[i] : i \in 1 .. position}   \* the exits it should have

NothingSeen == [size |-> 0, gen |-> 0]

Init ==
    /\ up = TRUE
    /\ pc = [a \in Actors |-> IF a \in Taps THEN "idle" ELSE "free"]
    /\ exits = [a \in Actors |-> {}]
    /\ seen = [a \in Actors |-> NothingSeen]
    /\ tries = [a \in Actors |-> 0]
    /\ timerOf = NoActor
    /\ stopOf = NoActor
    /\ done = {}
    /\ saved = {}
    /\ counted = 0
    /\ opens = <<>>
    /\ gen = 0
    /\ faults = 0
    /\ crashes = 0

-----------------------------------------------------------------------------
(* Helpers *)

Goto(a, label) == pc' = [pc EXCEPT ![a] = label]

(* A request is answered: what it kept on its stack is gone. *)
Answered(a) ==
    /\ Goto(a, "idle")
    /\ exits' = [exits EXCEPT ![a] = {}]

Fault(kind) ==
    /\ kind \in Faults
    /\ faults < MaxFaults
    /\ faults' = faults + 1

FreeTimers == {t \in Timers : pc[t] = "free"}
FreeStops == {s \in Stops : pc[s] = "free"}

(* time.Timer.Stop: it cannot stop a callback that has started. *)
Stopped(p, t) == IF t \in Timers /\ p[t] = "pending" THEN [p EXCEPT ![t] = "over"] ELSE p

(* Timers.Schedule, in a step that also moves actor a on. *)
Schedule(a, next) ==
    \E t \in FreeTimers :
        /\ \A u \in FreeTimers : t[2] <= u[2]
        /\ pc' = [Stopped(pc, timerOf) EXCEPT ![t] = "pending", ![a] = next]
        /\ timerOf' = t

(* A slip: the old watcher is not told to stop. *)
ArmStopBesides(a, next) ==
    \E s \in FreeStops :
        /\ \A u \in FreeStops : s[2] <= u[2]
        /\ pc' = [pc EXCEPT ![s] = "watching", ![a] = next]
        /\ stopOf' = s
        /\ UNCHANGED done

(* armStop: the old watcher's channel is closed and a new one takes over.  *)
ArmStop(a, next) ==
    \E s \in FreeStops :
        /\ \A u \in FreeStops : s[2] <= u[2]
        /\ pc' = [pc EXCEPT ![s] = "watching", ![a] = next]
        /\ done' = done \cup ({stopOf} \cap Stops)
        /\ stopOf' = s

DisarmStop ==
    /\ done' = done \cup ({stopOf} \cap Stops)
    /\ stopOf' = NoActor

(* The venue after an order that adds to the position, and after one that  *)
(* reduces it by what its sender read: never past flat.                    *)
Opened(e) ==
    /\ opens' = Append(opens, e)
    /\ gen' = IF position = 0 THEN gen + 1 ELSE gen

Reduced(size) ==
    /\ position > 0
    /\ opens' = SubSeq(opens, size + 1, position)
    /\ UNCHANGED gen

(* The bounds: no open goes out that would exceed them, and no exit is     *)
(* promised that could not be armed for want of a timer or a stop.         *)
CanOpen ==
    /\ position < MaxPosition
    /\ position = 0 => gen < MaxGen

Spare(e) ==
    /\ "horizon" \in e => Cardinality(FreeTimers) >
           Cardinality({b \in Taps : pc[b] \in {"open_record", "open_timer", "amend_timer"}})
    /\ "stop" \in e => Cardinality(FreeStops) >
           Cardinality({b \in Taps : pc[b] \in {"open_record", "open_timer", "open_stop",
                                                "amend_timer", "amend_stop"}})

-----------------------------------------------------------------------------
(* Open *)

(* Validated and authorized; the policy's own limits are PolicyEngine's.   *)
OpenStart(a, e) ==
    /\ up /\ a \in Taps /\ pc[a] = "idle" /\ "open" \in TapOps
    /\ CanOpen /\ Spare(e)
    /\ exits' = [exits EXCEPT ![a] = e]
    /\ Goto(a, "open_place")
    /\ UNCHANGED <<up, seen, tries, exitVars, saved, counted, venueVars, faults, crashes>>

(* venue.Place: executed, refused, not placed, or placed and never heard of. *)
OpenPlace(a) ==
    /\ pc[a] = "open_place"
    /\ CanOpen /\ Spare(exits[a])
    /\ \/ Opened(exits[a]) /\ Goto(a, "open_record") /\ UNCHANGED <<exits, faults>>
       \/ Opened(exits[a]) /\ Answered(a) /\ Fault("lost")
       \/ /\ Fault("refused") \/ Fault("error")
          /\ Answered(a) /\ UNCHANGED venueVars
    /\ UNCHANGED <<up, seen, tries, exitVars, saved, counted, crashes>>

(* policy.RecordOpen, and the ledger's. *)
OpenRecord(a) ==
    /\ pc[a] = "open_record"
    /\ counted' = counted + 1
    /\ Goto(a, IF exits[a] = {} THEN "idle" ELSE "open_timer")
    /\ UNCHANGED <<up, localVars, exitVars, saved, venueVars, faults, crashes>>

OpenTimer(a) ==
    /\ pc[a] = "open_timer"
    /\ IF "horizon" \in exits[a]
       THEN Schedule(a, "open_stop")
       ELSE Goto(a, "open_stop") /\ UNCHANGED timerOf
    /\ UNCHANGED <<up, localVars, stopOf, done, saved, counted, venueVars, faults, crashes>>

OpenStop(a) ==
    /\ pc[a] = "open_stop"
    /\ IF "stop" \in exits[a]
       THEN ArmStop(a, "save")
       ELSE Goto(a, "save") /\ UNCHANGED <<stopOf, done>>
    /\ UNCHANGED <<up, localVars, timerOf, saved, counted, venueVars, faults, crashes>>

(* SaveHorizon, or DeleteHorizon when an amendment left nothing to save;   *)
(* the row is replaced, and a failure is only logged.                      *)
Save(a) ==
    /\ pc[a] = "save"
    /\ \/ saved' = exits[a] /\ UNCHANGED faults
       \/ Fault("store") /\ UNCHANGED saved
    /\ Answered(a)
    /\ UNCHANGED <<up, seen, tries, exitVars, counted, venueVars, crashes>>

-----------------------------------------------------------------------------
(* Amend *)

AmendStart(a) ==
    /\ up /\ a \in Taps /\ pc[a] = "idle" /\ "amend" \in TapOps
    /\ position > 0                 \* otherwise ErrNoPosition
    /\ Goto(a, "amend_current")
    /\ UNCHANGED <<up, localVars, exitVars, saved, counted, venueVars, faults, crashes>>

(* The exits as they stand, with the requested ones written over them; a   *)
(* nil stop in the request leaves it, an extension schedules the timer.    *)
AmendCurrent(a) ==
    /\ pc[a] = "amend_current"
    /\ \E stop \in {stopOf # NoActor, TRUE, FALSE}, extend \in BOOLEAN :
         /\ Spare((IF stop THEN {"stop"} ELSE {}) \cup (IF extend THEN {"horizon"} ELSE {}))
         /\ exits' = [exits EXCEPT ![a] =
                        (IF stop THEN {"stop"} ELSE {}) \cup
                        (IF extend \/ timerOf # NoActor THEN {"horizon"} ELSE {})]
         /\ Goto(a, IF extend THEN "amend_timer" ELSE "amend_stop")
    /\ UNCHANGED <<up, seen, tries, exitVars, saved, counted, venueVars, faults, crashes>>

AmendTimer(a) ==
    /\ pc[a] = "amend_timer"
    /\ Schedule(a, "amend_stop")
    /\ opens' = [i \in 1 .. position |-> opens[i] \cup {"horizon"}]
    /\ UNCHANGED <<up, localVars, stopOf, done, saved, counted, gen, faults, crashes>>

AmendStop(a) ==
    /\ pc[a] = "amend_stop"
    /\ IF "stop" \in exits[a]
       THEN ArmStop(a, "save")
       ELSE DisarmStop /\ Goto(a, "save")
    /\ opens' = [i \in 1 .. position |-> (opens[i] \ {"stop"}) \cup (exits[a] \cap {"stop"})]
    /\ UNCHANGED <<up, localVars, timerOf, saved, counted, gen, faults, crashes>>

-----------------------------------------------------------------------------
(* Close: one path for a tap, a timer and a stop *)

CloseStart(a) ==
    /\ up /\ a \in Taps /\ pc[a] = "idle" /\ "close" \in TapOps
    /\ Goto(a, "cancel")
    /\ UNCHANGED <<up, localVars, exitVars, saved, counted, venueVars, faults, crashes>>

CloseCancel(a) ==
    /\ pc[a] = "cancel"
    /\ pc' = [Stopped(pc, timerOf) EXCEPT ![a] = "disarm"]
    /\ timerOf' = NoActor
    /\ UNCHANGED <<up, localVars, stopOf, done, saved, counted, venueVars, faults, crashes>>

CloseDisarm(a) ==
    /\ pc[a] = "disarm"
    /\ DisarmStop
    /\ Goto(a, "delete")
    /\ UNCHANGED <<up, localVars, timerOf, saved, counted, venueVars, faults, crashes>>

CloseDelete(a) ==
    /\ pc[a] = "delete"
    /\ \/ saved' = {} /\ UNCHANGED faults
       \/ Fault("store") /\ UNCHANGED saved
    /\ Goto(a, "read")
    /\ UNCHANGED <<up, localVars, exitVars, counted, venueVars, crashes>>

(* Where a close ends: a tap answers its request, a timer or a stop is     *)
(* over; after an error those two try again, three times in all.           *)
Finish(a) ==
    /\ Goto(a, IF a \in Taps THEN "idle" ELSE "over")
    /\ tries' = [tries EXCEPT ![a] = 0]
    /\ seen' = [seen EXCEPT ![a] = NothingSeen]

(* A slip: nobody tries again. *)
FailedOnce(a) == Finish(a)

Failed(a) ==
    IF a \notin Taps /\ tries[a] + 1 < Attempts
    THEN /\ Goto(a, "cancel")
         /\ tries' = [tries EXCEPT ![a] = @ + 1]
         /\ seen' = [seen EXCEPT ![a] = NothingSeen]
    ELSE Finish(a)

CloseRead(a) ==
    /\ pc[a] = "read"
    /\ \/ /\ position > 0
          /\ seen' = [seen EXCEPT ![a] = [size |-> position, gen |-> gen]]
          /\ Goto(a, "place")
          /\ UNCHANGED <<tries, faults>>
       \/ position = 0 /\ Finish(a) /\ UNCHANGED faults   \* ErrNoPosition
       \/ Fault("read") /\ Failed(a)
    /\ UNCHANGED <<up, exits, exitVars, saved, counted, venueVars, crashes>>

(* A slip: an order that was refused is recorded like any other. *)
ClosePlaceUnread(a) ==
    /\ pc[a] = "place"
    /\ \/ Reduced(seen[a].size)
       \/ position = 0 /\ UNCHANGED venueVars
    /\ Goto(a, "record_close")
    /\ UNCHANGED <<up, localVars, exitVars, saved, counted, faults, crashes>>

(* A refusal is not an error to the callers: nobody tries again.  A reduce *)
(* order with nothing to reduce is refused.                                *)
ClosePlace(a) ==
    /\ pc[a] = "place"
    /\ \/ Reduced(seen[a].size) /\ Goto(a, "record_close") /\ UNCHANGED <<seen, tries, faults>>
       \/ Reduced(seen[a].size) /\ Fault("lost") /\ Failed(a)
       \/ position = 0 /\ Finish(a) /\ UNCHANGED <<venueVars, faults>>
       \/ Fault("refused") /\ Finish(a) /\ UNCHANGED venueVars
       \/ Fault("error") /\ Failed(a) /\ UNCHANGED venueVars
    /\ UNCHANGED <<up, exits, exitVars, saved, counted, crashes>>

(* A slip: a timer cancelled once more after the close, whoever's it is by *)
(* then.                                                                   *)
CloseRecordTidies(a) ==
    /\ pc[a] = "record_close"
    /\ counted' = IF counted > 0 THEN counted - 1 ELSE 0
    /\ seen' = [seen EXCEPT ![a] = NothingSeen]
    /\ pc' = [Stopped(pc, timerOf) EXCEPT ![a] = IF a \in Taps THEN "idle" ELSE "over"]
    /\ timerOf' = NoActor
    /\ UNCHANGED <<up, exits, tries, stopOf, done, saved, venueVars, faults, crashes>>

(* policy.RecordClose, the ledger's, and lastClose. *)
CloseRecord(a) ==
    /\ pc[a] = "record_close"
    /\ counted' = IF counted > 0 THEN counted - 1 ELSE 0
    /\ Finish(a)
    /\ UNCHANGED <<up, exits, exitVars, saved, venueVars, faults, crashes>>

-----------------------------------------------------------------------------
(* Timers and stops *)

(* The runtime starts the callback; it forgets the entry if it is still    *)
(* its own, and closes.                                                    *)
TimerFires(t) ==
    /\ pc[t] = "pending"
    /\ Goto(t, "fired")
    /\ UNCHANGED <<up, localVars, exitVars, saved, counted, venueVars, faults, crashes>>

TimerForgets(t) ==
    /\ pc[t] = "fired"
    /\ timerOf' = IF timerOf = t THEN NoActor ELSE timerOf
    /\ Goto(t, "cancel")
    /\ UNCHANGED <<up, localVars, stopOf, done, saved, counted, venueVars, faults, crashes>>

WatchDone(s) ==
    /\ pc[s] = "watching" /\ s \in done
    /\ Goto(s, "over")
    /\ UNCHANGED <<up, localVars, exitVars, saved, counted, venueVars, faults, crashes>>

(* A tick, which the select may take although done is closed: the position *)
(* is gone, or a bound is hit; otherwise the watcher goes on.              *)
WatchTick(s) ==
    /\ pc[s] = "watching"
    /\ Goto(s, IF position = 0 THEN "watch_gone" ELSE "cancel")
    /\ UNCHANGED <<up, localVars, exitVars, saved, counted, venueVars, faults, crashes>>

(* "Gone by another exit: nothing left to guard." *)
WatchGone(s) ==
    /\ pc[s] = "watch_gone"
    /\ DisarmStop
    /\ Goto(s, "over")
    /\ UNCHANGED <<up, localVars, timerOf, saved, counted, venueVars, faults, crashes>>

-----------------------------------------------------------------------------
(* Outside *)

(* Liquidated, or closed from the venue's own screen. *)
ClosedElsewhere ==
    /\ Fault("gone")
    /\ Reduced(position)
    /\ UNCHANGED <<up, pc, localVars, exitVars, saved, counted, crashes>>

(* The process dies: every goroutine, timer and counter goes with it. *)
Crash ==
    /\ crashes < MaxCrashes
    /\ crashes' = crashes + 1
    /\ up' = FALSE
    /\ pc' = [a \in Actors |-> IF a \in Taps THEN "idle"
                               ELSE IF pc[a] = "free" THEN "free" ELSE "over"]
    /\ timerOf' = NoActor
    /\ stopOf' = NoActor
    /\ counted' = 0
    /\ exits' = [a \in Actors |-> {}]
    /\ seen' = [a \in Actors |-> NothingSeen]
    /\ tries' = [a \in Actors |-> 0]
    /\ done' = {}
    /\ UNCHANGED <<saved, venueVars, faults>>

(***************************************************************************)
(* The wallet's first request after a restart builds its service: New      *)
(* counts the venue's positions and Restore arms what the row holds.       *)
(***************************************************************************)
Connect ==
    /\ ~up
    /\ up' = TRUE
    /\ counted' = IF position > 0 THEN 1 ELSE 0
    /\ \E t \in FreeTimers \cup {NoActor}, s \in FreeStops \cup {NoActor} :
         /\ (t # NoActor) <=> ("horizon" \in saved)
         /\ (s # NoActor) <=> ("stop" \in saved)
         /\ t # NoActor => \A u \in FreeTimers : t[2] <= u[2]
         /\ s # NoActor => \A u \in FreeStops : s[2] <= u[2]
         /\ timerOf' = t
         /\ stopOf' = s
         /\ pc' = [a \in Actors |-> IF a = t THEN "pending"
                                    ELSE IF a = s THEN "watching" ELSE pc[a]]
    /\ UNCHANGED <<localVars, done, saved, venueVars, faults, crashes>>

(* What a running goroutine does next; a platform that runs keeps doing it. *)
Step(a) ==
    \/ OpenPlace(a) \/ OpenRecord(a) \/ OpenTimer(a) \/ OpenStop(a) \/ Save(a)
    \/ AmendCurrent(a) \/ AmendTimer(a) \/ AmendStop(a)
    \/ CloseCancel(a) \/ CloseDisarm(a) \/ CloseDelete(a) \/ CloseRead(a)
    \/ ClosePlace(a) \/ CloseRecord(a)

Next ==
    \/ \E a \in Actors : Step(a)
    \/ \E a \in Taps, e \in Asked : OpenStart(a, e)
    \/ \E a \in Taps : AmendStart(a) \/ CloseStart(a)
    \/ \E t \in Timers : TimerFires(t) \/ TimerForgets(t)
    \/ \E s \in Stops : WatchDone(s) \/ WatchTick(s) \/ WatchGone(s)
    \/ ClosedElsewhere
    \/ Crash
    \/ Connect

Spec == Init /\ [][Next]_vars

(***************************************************************************)
(* Goroutines are scheduled and timers fire.  Nothing makes a user tap,    *)
(* and so nothing makes a wallet connect after a restart.                  *)
(***************************************************************************)
FairSpec ==
    /\ Spec
    /\ \A a \in Actors : WF_vars(Step(a))
    /\ \A t \in Timers : WF_vars(TimerFires(t)) /\ WF_vars(TimerForgets(t))
    /\ \A s \in Stops : WF_vars(WatchDone(s)) /\ WF_vars(WatchGone(s))

-----------------------------------------------------------------------------
(* Properties *)

Labels == {"idle", "free", "over", "open_place", "open_record", "open_timer", "open_stop",
           "save", "amend_current", "amend_timer", "amend_stop", "cancel", "disarm",
           "delete", "read", "place", "record_close", "pending", "fired", "watching",
           "watch_gone"}

TypeOK ==
    /\ up \in BOOLEAN
    /\ pc \in [Actors -> Labels]
    /\ exits \in [Actors -> Exits]
    /\ seen \in [Actors -> [size : 0 .. MaxPosition, gen : 0 .. MaxGen]]
    /\ tries \in [Actors -> 0 .. Attempts - 1]
    /\ timerOf \in Timers \cup {NoActor}
    /\ stopOf \in Stops \cup {NoActor}
    /\ done \subseteq Stops
    /\ saved \in Exits
    /\ counted \in Nat
    /\ opens \in Seq(Exits) /\ position <= MaxPosition
    /\ gen \in 0 .. MaxGen
    /\ faults \in 0 .. MaxFaults
    /\ crashes \in 0 .. MaxCrashes

(***************************************************************************)
(* armStop: "One watcher per symbol; arming again replaces it", and the    *)
(* timers hold "at most one pending callback per key".  A watcher nobody   *)
(* told to stop is the registered one, whose channel is still open (a      *)
(* second close of it would panic), and a timer that may still fire is the *)
(* registered one.  (And every variable has its type: no count below zero, *)
(* no fourth attempt.)                                                     *)
(***************************************************************************)
OneExitOfEachKind ==
    /\ TypeOK
    /\ stopOf # NoActor => stopOf \notin done
    /\ \A s \in Stops : pc[s] = "watching" /\ s \notin done => s = stopOf
    /\ timerOf # NoActor => pc[timerOf] \in {"pending", "fired"}
    /\ \A t \in Timers : pc[t] = "pending" => t = timerOf

(* Nobody is in the middle of an open, an amendment or a close. *)
Quiet ==
    /\ up
    /\ \A a \in Actors : pc[a] \in {"idle", "free", "over", "pending", "watching"}

(***************************************************************************)
(* As long as no call fails, a position opened with a horizon has its      *)
(* timer, whatever taps, timers and stops ran into each other: a close     *)
(* that cancels a timer goes on to close what the timer guarded.           *)
(***************************************************************************)
HorizonArmed ==
    (Quiet /\ position > 0 /\ "horizon" \in promised) => timerOf # NoActor

(***************************************************************************)
(* README: the platform "owns the exit: it closes the position when the    *)
(* horizon ends, whether the phone is awake or not".                       *)
(***************************************************************************)
HorizonCloses == (position > 0 /\ "horizon" \in promised) ~> (position = 0)

(***************************************************************************)
(* The same as a state: when nobody is working on it, an open position has *)
(* every exit it was promised.                                             *)
(***************************************************************************)
PromisedExitsArmed ==
    Quiet /\ position > 0 =>
        /\ "horizon" \in promised => timerOf # NoActor
        /\ "stop" \in promised => stopOf # NoActor

(***************************************************************************)
(* The engine's count errs on one side only.  A second open in a market is *)
(* a second count of one position, and a close that somebody else made is  *)
(* never recorded; but as long as every answer of the venue arrives, a     *)
(* wallet with a position open takes up a slot of its open positions,      *)
(* whoever opened, closed and reopened it in whichever order.              *)
(***************************************************************************)
PositionIsCounted ==
    Quiet /\ position > 0 => counted > 0
=============================================================================
