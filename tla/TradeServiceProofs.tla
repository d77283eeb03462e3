-------------------------- MODULE TradeServiceProofs --------------------------
(***************************************************************************)
(* What the trading service guarantees for any number of concurrent        *)
(* requests, timers, watchers, positions, faults and restarts: at most one *)
(* live exit of each kind; and, as long as the calls it depends on do not  *)
(* fail, that a position is counted and that its horizon is armed.         *)
(***************************************************************************)
EXTENDS TradeService, FiniteSetTheorems, SequenceTheorems, TLAPS

(* Where a request, a timer's callback and a stop's watcher can be: they   *)
(* share the close path, and nothing else.                                 *)
Closing == {"cancel", "disarm", "delete", "read", "place", "record_close"}

ByKind ==
    /\ \A a \in Taps : pc[a] \in Labels \ {"free", "over", "pending", "fired", "watching",
                                           "watch_gone"}
    /\ \A t \in Timers : pc[t] \in Closing \cup {"free", "over", "pending", "fired"}
    /\ \A s \in Stops : pc[s] \in Closing \cup {"free", "over", "watching", "watch_gone"}

(* A process that is down runs nothing and owns no exit.                   *)
DownIsQuiet ==
    ~up => /\ timerOf = NoActor /\ stopOf = NoActor
           /\ \A a \in Actors : pc[a] \in {"idle", "free", "over"}

(* A watcher that was registered or told to stop has been started: a free  *)
(* one is neither, so the one armStop starts has its channel open.         *)
StartedStops ==
    /\ stopOf # NoActor => pc[stopOf] # "free"
    /\ \A s \in done : pc[s] # "free"

(* The inductive invariant. *)
IInv == OneExitOfEachKind /\ ByKind /\ DownIsQuiet /\ StartedStops

-----------------------------------------------------------------------------
(* An open is covered when its timer stands, is about to be scheduled, or  *)
(* somebody is on the way to close it: a close that has not read the       *)
(* position yet will read all of it, and one that has takes the oldest     *)
(* opens, as many as it saw.                                               *)
Covered(i) ==
    \/ timerOf # NoActor
    \/ \E a \in Taps : pc[a] \in {"open_record", "open_timer"} /\ "horizon" \in exits[a]
    \/ \E a \in Actors : pc[a] \in {"cancel", "disarm", "delete", "read"}
    \/ \E a \in Actors : pc[a] = "place" /\ i <= seen[a].size

(* The inductive invariant behind HorizonArmed. *)
HorizonsCovered ==
    /\ up
    /\ \A i \in 1 .. position : "horizon" \in opens[i] => Covered(i)

-----------------------------------------------------------------------------
(* Opens the venue has made and the policy has not heard of yet, and closes. *)
ToCount == {a \in Taps : pc[a] = "open_record"}
ToDiscount == {a \in Actors : pc[a] = "record_close"}

(* What the policy's count will be when they have. *)
Due == counted + Cardinality(ToCount) - Cardinality(ToDiscount)

(* The inductive invariant behind PositionIsCounted: every open is counted *)
(* for itself, except the first w of them, which a restart found as one    *)
(* position; and whoever is about to close takes those w together.         *)
CountedFromAfter(w) ==
    /\ Due > position - w
    /\ \A a \in Actors : pc[a] = "place" => seen[a].size >= w

EveryOpenIsDue ==
    up => /\ \A a \in Actors : pc[a] = "place" => seen[a].size > 0
          /\ \/ Due >= position
             \/ \E w \in 1 .. position : CountedFromAfter(w)

-----------------------------------------------------------------------------
(* Requests, timers and stops are different actors, and none is nobody.    *)
LEMMA Kinds ==
    ASSUME ServiceAssumption
    PROVE  /\ Taps \cap Timers = {} /\ Taps \cap Stops = {} /\ Timers \cap Stops = {}
           /\ NoActor \notin Actors
           /\ Taps \subseteq Actors /\ Timers \subseteq Actors /\ Stops \subseteq Actors
<1>1. Timers \cap Stops = {}
  BY DEF Timers, Stops
<1>. QED
  BY <1>1 DEF ServiceAssumption, Actors

(* A close takes the oldest opens, and leaves the others in their order.   *)
LEMMA ReducedOpens ==
    ASSUME TypeOK, NEW size \in Nat, Reduced(size)
    PROVE  /\ opens' \in Seq(Exits)
           /\ position' = IF size < position THEN position - size ELSE 0
           /\ \A i \in 1 .. position' : i + size \in 1 .. position /\ opens'[i] = opens[i + size]
           /\ position' <= position /\ position' \in Nat
<1>1. opens \in Seq(Exits) /\ position \in Nat /\ opens' = SubSeq(opens, size + 1, position)
  BY DEF TypeOK, Reduced, position
<1>2. \A i \in size + 1 .. position : opens[i] \in Exits
  <2>. SUFFICES ASSUME NEW i \in size + 1 .. position PROVE opens[i] \in Exits
    OBVIOUS
  <2>1. i \in 1 .. Len(opens)
    BY <1>1 DEF position
  <2>. QED
    BY <1>1, <2>1, ElementOfSeq
<1>3. /\ opens' \in Seq(Exits)
      /\ Len(opens') = IF size + 1 <= position THEN position - (size + 1) + 1 ELSE 0
      /\ \A i \in 1 .. position - (size + 1) + 1 : opens'[i] = opens[size + 1 + i - 1]
  BY <1>1, <1>2, SubSeqProperties
<1>4. position' = IF size < position THEN position - size ELSE 0
  BY <1>1, <1>3 DEF position
<1>5. ASSUME NEW i \in 1 .. position'
      PROVE  i + size \in 1 .. position /\ opens'[i] = opens[i + size]
  <2>1. i \in Int /\ i >= 1 /\ i <= position - size
    BY <1>1, <1>4, <1>5
  <2>2. i \in 1 .. position - (size + 1) + 1 /\ size + 1 + i - 1 = i + size
    BY <1>1, <2>1
  <2>. QED
    BY <1>1, <1>3, <2>1, <2>2
<1>. QED
  BY <1>1, <1>3, <1>4, <1>5

(* An open is the newest of the position.                                  *)
LEMMA OpenedOpens ==
    ASSUME TypeOK, NEW e \in Exits, Opened(e)
    PROVE  /\ opens' \in Seq(Exits)
           /\ position' = position + 1
           /\ \A i \in 1 .. position : opens'[i] = opens[i]
           /\ opens'[position + 1] = e
           /\ position \in Nat
<1>1. opens \in Seq(Exits) /\ opens' = Append(opens, e)
  BY DEF TypeOK, Opened
<1>. QED
  BY <1>1, AppendProperties DEF position

(* A timer is stopped in a step that also moves an actor on.               *)
LEMMA StoppedTypes ==
    ASSUME TypeOK, NEW u
    PROVE  Stopped(pc, u) \in [Actors -> Labels]
  BY DEF TypeOK, Stopped, Labels

(* Timers.Schedule leaves a timer of the service registered.               *)
LEMMA ScheduleTypes ==
    ASSUME TypeOK, NEW a, NEW next \in Labels, Schedule(a, next)
    PROVE  pc' \in [Actors -> Labels] /\ timerOf' \in Timers \cup {NoActor}
<1>1. Stopped(pc, timerOf) \in [Actors -> Labels]
  BY StoppedTypes
<1>2. "pending" \in Labels
  BY DEF Labels
<1>3. PICK t \in Timers : /\ pc' = [Stopped(pc, timerOf) EXCEPT ![t] = "pending", ![a] = next]
                          /\ timerOf' = t
  BY DEF Schedule, FreeTimers
<1>. QED
  BY <1>1, <1>2, <1>3

(* What went wrong outside is counted.                                     *)
LEMMA FaultTypes ==
    ASSUME ServiceAssumption, TypeOK, NEW kind, Fault(kind)
    PROVE  faults' \in 0 .. MaxFaults
<1>1. MaxFaults \in Nat /\ faults \in 0 .. MaxFaults
  BY DEF ServiceAssumption, TypeOK
<1>2. faults < MaxFaults /\ faults' = faults + 1
  BY DEF Fault
<1>. QED
  BY <1>1, <1>2

(* The ends of a close attempt keep the types of what they reset.          *)
LEMMA FailedTypes ==
    ASSUME ServiceAssumption, TypeOK, NEW a \in Actors, Failed(a) \/ Finish(a)
    PROVE  /\ pc' \in [Actors -> Labels]
           /\ tries' \in [Actors -> 0 .. Attempts - 1]
           /\ seen' \in [Actors -> [size : 0 .. MaxPosition, gen : 0 .. MaxGen]]
<1>1. NothingSeen \in [size : 0 .. MaxPosition, gen : 0 .. MaxGen]
  <2>1. MaxPosition \in Nat /\ MaxGen \in Nat
    BY DEF ServiceAssumption
  <2>. QED
    BY <2>1 DEF NothingSeen
<1>2. /\ pc \in [Actors -> Labels] /\ tries \in [Actors -> 0 .. Attempts - 1]
      /\ seen \in [Actors -> [size : 0 .. MaxPosition, gen : 0 .. MaxGen]]
  BY DEF TypeOK
<1>3. CASE Finish(a)
  <2>1. "idle" \in Labels /\ "over" \in Labels /\ 0 \in 0 .. Attempts - 1
    BY DEF Labels, Attempts
  <2>. QED
    BY <1>1, <1>2, <1>3, <2>1 DEF Finish, Goto
<1>4. CASE /\ Goto(a, "cancel") /\ tries[a] + 1 < Attempts
           /\ tries' = [tries EXCEPT ![a] = @ + 1]
           /\ seen' = [seen EXCEPT ![a] = NothingSeen]
  <2>1. "cancel" \in Labels /\ tries[a] + 1 \in 0 .. Attempts - 1
    BY <1>2, <1>4 DEF Labels, Attempts
  <2>. QED
    BY <1>1, <1>2, <1>4, <2>1 DEF Goto
<1>. QED
  BY <1>3, <1>4 DEF Failed

(* The service starts with its types right.                                *)
LEMMA InitTypeOK == ASSUME ServiceAssumption, Init PROVE TypeOK
<1>1. {MaxTimers, MaxStops, MaxPosition, MaxGen, MaxFaults, MaxCrashes} \subseteq Nat
  BY DEF ServiceAssumption
<1>2. 0 \in 0 .. MaxPosition /\ 0 \in 0 .. MaxGen /\ 0 \in 0 .. MaxFaults /\ 0 \in 0 .. MaxCrashes
  BY <1>1
<1>3. opens \in Seq(Exits) /\ position = 0
  BY DEF Init, position
<1>. QED
  BY <1>1, <1>2, <1>3 DEF Init, TypeOK, Labels, NothingSeen, Attempts, Exits

(* Every step keeps the types.                                             *)
LEMMA NextTypeOK == ASSUME ServiceAssumption, TypeOK, [Next]_vars PROVE TypeOK'
<1>0. /\ MaxPosition \in Nat /\ MaxGen \in Nat /\ MaxFaults \in Nat /\ MaxCrashes \in Nat
      /\ position \in Nat /\ opens \in Seq(Exits)
  BY DEF ServiceAssumption, TypeOK, position
<1>1. ASSUME NEW a \in Taps, NEW e \in Asked, OpenStart(a, e) PROVE TypeOK'
  <2>1. e \in Exits /\ a \in Actors
    BY Kinds DEF ServiceAssumption
  <2>. QED
    BY <1>1, <2>1 DEF TypeOK, OpenStart, Goto, Labels, exitVars, venueVars, position
<1>2. ASSUME NEW a \in Actors, OpenPlace(a) PROVE TypeOK'
  <2>1. exits[a] \in Exits /\ {} \in Exits
    BY DEF TypeOK, Exits
  <2>2. opens' \in Seq(Exits) /\ position' <= MaxPosition /\ gen' \in 0 .. MaxGen
    <3>1. CASE Opened(exits[a])
      BY <1>0, <1>2, <2>1, <3>1, OpenedOpens DEF OpenPlace, CanOpen, Opened, TypeOK
    <3>2. CASE UNCHANGED venueVars
      BY <3>2 DEF venueVars, TypeOK, position
    <3>. QED
      BY <1>2, <3>1, <3>2 DEF OpenPlace
  <2>3. pc' \in [Actors -> Labels] /\ exits' \in [Actors -> Exits] /\ faults' \in 0 .. MaxFaults
    <3>1. faults' \in 0 .. MaxFaults
      BY <1>2, FaultTypes DEF OpenPlace, TypeOK
    <3>2. \/ Answered(a)
          \/ Goto(a, "open_record") /\ UNCHANGED exits
      BY <1>2 DEF OpenPlace
    <3>3. pc' \in [Actors -> Labels] /\ exits' \in [Actors -> Exits]
      <4>1. "idle" \in Labels /\ "open_record" \in Labels
        BY DEF Labels
      <4>. QED
        BY <2>1, <3>2, <4>1, ZenonT(30) DEF TypeOK, Answered, Goto
    <3>. QED
      BY <3>1, <3>3
  <2>. QED
    BY <1>2, <2>2, <2>3 DEF TypeOK, OpenPlace, exitVars
<1>3. ASSUME NEW a \in Actors, OpenRecord(a) \/ OpenTimer(a) \/ OpenStop(a) PROVE TypeOK'
  <2>1. UNCHANGED <<up, exits, seen, tries, saved, opens, gen, faults, crashes>>
    BY <1>3 DEF OpenRecord, OpenTimer, OpenStop, localVars, venueVars
  <2>2. CASE OpenRecord(a)
    BY <2>1, <2>2, SMTT(30) DEF TypeOK, OpenRecord, Goto, Labels, exitVars, position
  <2>3. CASE OpenTimer(a)
    <3>1. UNCHANGED <<stopOf, done, counted>> /\ "open_stop" \in Labels
      BY <2>3 DEF OpenTimer, Labels
    <3>2. pc' \in [Actors -> Labels] /\ timerOf' \in Timers \cup {NoActor}
      <4>1. CASE Schedule(a, "open_stop")
        BY <3>1, <4>1, ScheduleTypes
      <4>2. CASE Goto(a, "open_stop") /\ UNCHANGED timerOf
        BY <3>1, <4>2 DEF Goto, TypeOK
      <4>. QED
        BY <2>3, <4>1, <4>2 DEF OpenTimer
    <3>. QED
      BY <2>1, <3>1, <3>2 DEF TypeOK, position
  <2>4. CASE OpenStop(a)
    BY <2>1, <2>4 DEF TypeOK, OpenStop, Goto, ArmStop, FreeStops, Labels, position
  <2>. QED
    BY <1>3, <2>2, <2>3, <2>4
<1>4. ASSUME NEW a \in Actors, Save(a) PROVE TypeOK'
  <2>1. faults' \in 0 .. MaxFaults /\ {} \in Exits
    BY <1>4, FaultTypes DEF Save, TypeOK, Exits
  <2>. QED
    BY <1>4, <2>1 DEF TypeOK, Save, Answered, Goto, Labels, exitVars, venueVars, position
<1>5. ASSUME NEW a \in Actors, AmendCurrent(a) PROVE TypeOK'
  <2>1. PICK stop \in BOOLEAN, extend \in BOOLEAN :
            /\ exits' = [exits EXCEPT ![a] =
                          (IF stop THEN {"stop"} ELSE {}) \cup
                          (IF extend \/ timerOf # NoActor THEN {"horizon"} ELSE {})]
            /\ Goto(a, IF extend THEN "amend_timer" ELSE "amend_stop")
    BY <1>5 DEF AmendCurrent
  <2>2. exits' \in [Actors -> Exits]
    BY <2>1 DEF TypeOK, Exits
  <2>. QED
    BY <1>5, <2>1, <2>2 DEF TypeOK, AmendCurrent, Goto, Labels, exitVars, venueVars, position
<1>6. ASSUME NEW a \in Actors, AmendTimer(a) \/ AmendStop(a) PROVE TypeOK'
  <2>1. opens' \in Seq(Exits) /\ position' = position
    <3>1. \A i \in 1 .. position : opens[i] \in Exits
      BY <1>0, ElementOfSeq DEF position
    <3>2. opens' \in [1 .. position -> Exits]
      BY <1>6, <3>1 DEF AmendTimer, AmendStop, Exits
    <3>. QED
      BY <1>0, <3>2 DEF position
  <2>2. CASE AmendTimer(a)
    <3>1. pc' \in [Actors -> Labels] /\ timerOf' \in Timers \cup {NoActor}
      BY <2>2, ScheduleTypes DEF AmendTimer, Labels
    <3>. QED
      BY <2>1, <2>2, <3>1 DEF TypeOK, AmendTimer, localVars
  <2>3. CASE AmendStop(a)
    BY <2>1, <2>3 DEF TypeOK, AmendStop, Goto, ArmStop, DisarmStop, FreeStops, Labels, localVars
  <2>. QED
    BY <1>6, <2>2, <2>3
<1>7. ASSUME NEW a \in Actors, CloseCancel(a) \/ CloseDisarm(a) \/ CloseDelete(a)
      PROVE  TypeOK'
  <2>1. CASE CloseCancel(a)
    BY <2>1, StoppedTypes DEF TypeOK, CloseCancel, Labels, localVars, venueVars, position
  <2>2. CASE CloseDisarm(a)
    BY <2>2 DEF TypeOK, CloseDisarm, DisarmStop, Goto, Labels, localVars, venueVars, position
  <2>3. CASE CloseDelete(a)
    <3>1. faults' \in 0 .. MaxFaults /\ {} \in Exits
      BY <2>3, FaultTypes DEF CloseDelete, TypeOK, Exits
    <3>. QED
      BY <2>3, <3>1
         DEF TypeOK, CloseDelete, Goto, Labels, localVars, exitVars, venueVars, position
  <2>. QED
    BY <1>7, <2>1, <2>2, <2>3
<1>8. ASSUME NEW a \in Actors, CloseRead(a) PROVE TypeOK'
  <2>1. /\ pc' \in [Actors -> Labels] /\ tries' \in [Actors -> 0 .. Attempts - 1]
        /\ seen' \in [Actors -> [size : 0 .. MaxPosition, gen : 0 .. MaxGen]]
    <3>1. CASE Failed(a) \/ Finish(a)
      BY <3>1, FailedTypes
    <3>2. CASE /\ seen' = [seen EXCEPT ![a] = [size |-> position, gen |-> gen]]
               /\ Goto(a, "place") /\ UNCHANGED tries
      <4>1. [size |-> position, gen |-> gen] \in [size : 0 .. MaxPosition, gen : 0 .. MaxGen]
        BY <1>0 DEF TypeOK
      <4>. QED
        BY <3>2, <4>1 DEF TypeOK, Goto, Labels
    <3>. QED
      BY <1>8, <3>1, <3>2 DEF CloseRead
  <2>2. faults' \in 0 .. MaxFaults
    BY <1>8, FaultTypes DEF CloseRead, TypeOK
  <2>. QED
    BY <1>8, <2>1, <2>2 DEF TypeOK, CloseRead, exitVars, venueVars, position
<1>9. ASSUME NEW a \in Actors, ClosePlace(a) PROVE TypeOK'
  <2>1. /\ pc' \in [Actors -> Labels] /\ tries' \in [Actors -> 0 .. Attempts - 1]
        /\ seen' \in [Actors -> [size : 0 .. MaxPosition, gen : 0 .. MaxGen]]
    <3>1. CASE Failed(a) \/ Finish(a)
      BY <3>1, FailedTypes
    <3>2. CASE Goto(a, "record_close") /\ UNCHANGED <<seen, tries>>
      BY <3>2 DEF TypeOK, Goto, Labels
    <3>. QED
      BY <1>9, <3>1, <3>2 DEF ClosePlace
  <2>2. faults' \in 0 .. MaxFaults
    BY <1>9, FaultTypes DEF ClosePlace, TypeOK
  <2>3. opens' \in Seq(Exits) /\ position' <= MaxPosition /\ gen' = gen
    <3>1. seen[a].size \in Nat
      BY <1>0 DEF TypeOK
    <3>2. CASE Reduced(seen[a].size)
      <4>1. opens' \in Seq(Exits) /\ position' <= position /\ position' \in Nat
        BY <3>1, <3>2, ReducedOpens
      <4>. QED
        BY <1>0, <3>2, <4>1 DEF Reduced, TypeOK
    <3>3. CASE UNCHANGED venueVars
      BY <3>3 DEF venueVars, TypeOK, position
    <3>. QED
      BY <1>9, <3>2, <3>3 DEF ClosePlace
  <2>. QED
    BY <1>9, <2>1, <2>2, <2>3 DEF TypeOK, ClosePlace, exitVars
<1>10. ASSUME NEW a \in Actors, CloseRecord(a) PROVE TypeOK'
  <2>1. Finish(a)
    BY <1>10 DEF CloseRecord
  <2>2. counted' \in Nat
    BY <1>10 DEF CloseRecord, TypeOK
  <2>. QED
    BY <1>10, <2>1, <2>2, FailedTypes DEF TypeOK, CloseRecord, exitVars, venueVars, position
<1>11. ASSUME NEW a \in Actors, \/ AmendStart(a) \/ CloseStart(a) \/ TimerFires(a)
                                \/ TimerForgets(a) \/ WatchDone(a) \/ WatchTick(a) \/ WatchGone(a)
       PROVE  TypeOK'
  BY <1>11 DEF TypeOK, AmendStart, CloseStart, TimerFires, TimerForgets, WatchDone, WatchTick,
               WatchGone, Goto, DisarmStop, Labels, localVars, exitVars, venueVars, position
<1>12. CASE ClosedElsewhere
  <2>1. opens' \in Seq(Exits) /\ position' <= position /\ position' \in Nat
    BY <1>0, <1>12, ReducedOpens DEF ClosedElsewhere
  <2>2. faults' \in 0 .. MaxFaults /\ gen' = gen /\ position' <= MaxPosition
    BY <1>0, <1>12, <2>1, FaultTypes DEF ClosedElsewhere, Reduced, TypeOK
  <2>. QED
    BY <1>12, <2>1, <2>2 DEF TypeOK, ClosedElsewhere, localVars, exitVars
<1>13. CASE Crash
  <2>1. NothingSeen \in [size : 0 .. MaxPosition, gen : 0 .. MaxGen] /\ {} \in Exits
    BY <1>0 DEF NothingSeen, Exits
  <2>2. crashes' \in 0 .. MaxCrashes
    BY <1>0, <1>13 DEF TypeOK, Crash
  <2>3. pc' \in [Actors -> Labels]
    BY <1>13 DEF Crash, Labels
  <2>4. /\ exits' \in [Actors -> Exits]
        /\ seen' \in [Actors -> [size : 0 .. MaxPosition, gen : 0 .. MaxGen]]
        /\ tries' \in [Actors -> 0 .. Attempts - 1]
    BY <1>13, <2>1 DEF Crash, Attempts
  <2>. QED
    BY <1>13, <2>2, <2>3, <2>4 DEF TypeOK, Crash, venueVars, position
<1>14. CASE Connect
  <2>1. PICK t \in FreeTimers \cup {NoActor}, s \in FreeStops \cup {NoActor} :
            /\ timerOf' = t /\ stopOf' = s
            /\ pc' = [a \in Actors |-> IF a = t THEN "pending"
                                       ELSE IF a = s THEN "watching" ELSE pc[a]]
    BY <1>14 DEF Connect
  <2>2. /\ pc' \in [Actors -> Labels] /\ timerOf' \in Timers \cup {NoActor}
        /\ stopOf' \in Stops \cup {NoActor}
    BY <2>1 DEF TypeOK, Labels, FreeTimers, FreeStops
  <2>. QED
    BY <1>14, <2>2 DEF TypeOK, Connect, localVars, venueVars, position
<1>15. CASE UNCHANGED vars
  BY <1>15 DEF TypeOK, vars, position
<1>. QED
  BY <1>1, <1>2, <1>3, <1>4, <1>5, <1>6, <1>7, <1>8, <1>9, <1>10, <1>11, <1>12, <1>13, <1>14,
     <1>15, Kinds DEF Next, Step

-----------------------------------------------------------------------------
(* At most one live exit of each kind. *)

(* Where a step moves an actor that is neither pending nor watching, to a  *)
(* place of its kind, and no exit changes hands, everybody keeps his place *)
(* and the exits their owners.                                             *)
LEMMA OneMovesOn ==
    ASSUME ServiceAssumption, IInv, TypeOK', NEW a \in Actors, NEW label,
           Goto(a, label), UNCHANGED <<exitVars, up>>, up,
           pc[a] \notin {"pending", "fired", "watching", "free"},
           a \in Taps => label \in Labels \ {"free", "over", "pending", "fired", "watching",
                                             "watch_gone"},
           a \notin Taps => label \in Closing \cup {"over"}
    PROVE  IInv'
<1>1. /\ pc' = [pc EXCEPT ![a] = label] /\ pc \in [Actors -> Labels]
      /\ UNCHANGED <<timerOf, stopOf, done, up>>
      /\ label \notin {"free", "pending", "fired", "watching"}
  BY Kinds DEF Goto, IInv, OneExitOfEachKind, TypeOK, exitVars, Closing
<1>2. /\ timerOf \in Timers \cup {NoActor} /\ stopOf \in Stops \cup {NoActor}
      /\ done \subseteq Stops
  BY DEF IInv, OneExitOfEachKind, TypeOK
<1>3. OneExitOfEachKind'
  BY <1>1, <1>2, Kinds DEF IInv, OneExitOfEachKind
<1>4. ByKind'
  BY <1>1, Kinds DEF IInv, ByKind, Actors
<1>5. DownIsQuiet' /\ StartedStops'
  BY <1>1, <1>2, Kinds DEF IInv, DownIsQuiet, StartedStops
<1>. QED
  BY <1>3, <1>4, <1>5 DEF IInv

(* Timers.Schedule stops the timer it replaces, and starts a fresh one.    *)
LEMMA ScheduleIInv ==
    ASSUME ServiceAssumption, IInv, TypeOK', NEW a \in Taps, NEW next \in {"open_stop", "amend_stop"},
           pc[a] \in {"open_timer", "amend_timer"}, up,
           Schedule(a, next), UNCHANGED <<stopOf, done, up>>
    PROVE  IInv'
<1>1. PICK t \in Timers : /\ pc[t] = "free" /\ timerOf' = t
                          /\ pc' = [Stopped(pc, timerOf) EXCEPT ![t] = "pending", ![a] = next]
  BY DEF Schedule, FreeTimers
<1>2. /\ pc \in [Actors -> Labels] /\ timerOf \in Timers \cup {NoActor}
      /\ stopOf \in Stops \cup {NoActor} /\ done \subseteq Stops
  BY DEF IInv, OneExitOfEachKind, TypeOK
<1>3. /\ t # a /\ a \in Actors /\ t \in Actors
      /\ \A b \in Actors \ {a, t} : pc'[b] = IF b = timerOf /\ pc[b] = "pending" THEN "over" ELSE pc[b]
      /\ pc'[t] = "pending" /\ pc'[a] = next
  BY <1>1, <1>2, Kinds DEF Stopped
<1>4. \A s \in Stops : pc'[s] = pc[s]
  BY <1>2, <1>3, Kinds
<1>5. \A b \in Taps \ {a} : pc'[b] = pc[b]
  BY <1>2, <1>3, Kinds
<1>6. OneExitOfEachKind'
  <2>1. \A u \in Timers : pc'[u] = "pending" => u = timerOf'
    BY <1>1, <1>3, Kinds DEF IInv, OneExitOfEachKind
  <2>2. timerOf' # NoActor => pc'[timerOf'] \in {"pending", "fired"}
    BY <1>1, <1>3
  <2>3. /\ stopOf' # NoActor => stopOf' \notin done'
        /\ \A s \in Stops : pc'[s] = "watching" /\ s \notin done' => s = stopOf'
    BY <1>4 DEF IInv, OneExitOfEachKind
  <2>. QED
    BY <2>1, <2>2, <2>3 DEF OneExitOfEachKind
<1>7. ByKind'
  BY <1>3, <1>4, <1>5, Kinds DEF IInv, ByKind, Closing, Labels
<1>8. DownIsQuiet' /\ StartedStops'
  BY <1>2, <1>4, Kinds DEF IInv, DownIsQuiet, StartedStops
<1>. QED
  BY <1>6, <1>7, <1>8 DEF IInv

(* armStop closes the channel of the watcher it replaces, and starts one   *)
(* whose channel nobody has closed.                                        *)
LEMMA ArmStopIInv ==
    ASSUME ServiceAssumption, IInv, TypeOK', NEW a \in Taps,
           pc[a] \in {"open_stop", "amend_stop"}, up,
           ArmStop(a, "save"), UNCHANGED <<timerOf, up>>
    PROVE  IInv'
<1>1. PICK s \in Stops : /\ pc[s] = "free" /\ stopOf' = s
                         /\ pc' = [pc EXCEPT ![s] = "watching", ![a] = "save"]
                         /\ done' = done \cup ({stopOf} \cap Stops)
  BY DEF ArmStop, FreeStops
<1>2. /\ pc \in [Actors -> Labels] /\ timerOf \in Timers \cup {NoActor}
      /\ stopOf \in Stops \cup {NoActor} /\ done \subseteq Stops
  BY DEF IInv, OneExitOfEachKind, TypeOK
<1>3. /\ s # a /\ pc'[s] = "watching" /\ pc'[a] = "save"
      /\ \A b \in Actors \ {a, s} : pc'[b] = pc[b]
  BY <1>1, <1>2, Kinds
<1>4. OneExitOfEachKind'
  <2>1. s \notin done'
    BY <1>1, <1>2, Kinds DEF IInv, StartedStops
  <2>2. \A r \in Stops : pc'[r] = "watching" /\ r \notin done' => r = stopOf'
    BY <1>1, <1>2, <1>3, Kinds DEF IInv, OneExitOfEachKind
  <2>3. \A t \in Timers : pc'[t] = pc[t]
    BY <1>3, Kinds
  <2>. QED
    BY <1>1, <1>2, <2>1, <2>2, <2>3 DEF IInv, OneExitOfEachKind
<1>5. ByKind'
  BY <1>1, <1>2, <1>3, Kinds DEF IInv, ByKind, Labels
<1>6. DownIsQuiet' /\ StartedStops'
  BY <1>1, <1>2, <1>3, Kinds DEF IInv, DownIsQuiet, StartedStops
<1>. QED
  BY <1>4, <1>5, <1>6 DEF IInv

(* disarmStop closes the channel of the registered watcher and forgets it. *)
LEMMA DisarmStopIInv ==
    ASSUME ServiceAssumption, IInv, TypeOK', NEW a \in Actors, NEW label,
           Goto(a, label), DisarmStop, UNCHANGED <<timerOf, up>>, up,
           pc[a] \notin {"pending", "fired", "watching", "free"},
           a \in Taps => label \in Labels \ {"free", "over", "pending", "fired", "watching",
                                             "watch_gone"},
           a \notin Taps => label \in Closing \cup {"over"}
    PROVE  IInv'
<1>1. /\ pc' = [pc EXCEPT ![a] = label] /\ pc \in [Actors -> Labels]
      /\ stopOf' = NoActor /\ done' = done \cup ({stopOf} \cap Stops)
      /\ UNCHANGED <<timerOf, up>>
      /\ label \notin {"free", "pending", "fired", "watching"}
  BY Kinds DEF Goto, DisarmStop, IInv, OneExitOfEachKind, TypeOK, Closing
<1>2. /\ timerOf \in Timers \cup {NoActor} /\ stopOf \in Stops \cup {NoActor}
      /\ done \subseteq Stops
  BY DEF IInv, OneExitOfEachKind, TypeOK
<1>3. OneExitOfEachKind'
  BY <1>1, <1>2, Kinds DEF IInv, OneExitOfEachKind
<1>4. ByKind'
  BY <1>1, Kinds DEF IInv, ByKind, Actors
<1>5. DownIsQuiet' /\ StartedStops'
  BY <1>1, <1>2, Kinds DEF IInv, DownIsQuiet, StartedStops
<1>. QED
  BY <1>3, <1>4, <1>5 DEF IInv

(* A close stops the pending timer and forgets whichever is registered.    *)
LEMMA CloseCancelIInv ==
    ASSUME ServiceAssumption, IInv, TypeOK', NEW a \in Actors, CloseCancel(a), up
    PROVE  IInv'
<1>1. /\ pc[a] = "cancel" /\ timerOf' = NoActor
      /\ pc' = [Stopped(pc, timerOf) EXCEPT ![a] = "disarm"]
      /\ UNCHANGED <<stopOf, done, up>>
  BY DEF CloseCancel
<1>2. /\ pc \in [Actors -> Labels] /\ timerOf \in Timers \cup {NoActor}
      /\ stopOf \in Stops \cup {NoActor} /\ done \subseteq Stops
  BY DEF IInv, OneExitOfEachKind, TypeOK
<1>3. /\ pc'[a] = "disarm"
      /\ \A b \in Actors \ {a} : pc'[b] = IF b = timerOf /\ pc[b] = "pending" THEN "over" ELSE pc[b]
  BY <1>1, <1>2, Kinds DEF Stopped
<1>4. OneExitOfEachKind'
  BY <1>1, <1>2, <1>3, Kinds DEF IInv, OneExitOfEachKind
<1>5. ByKind'
  BY <1>1, <1>2, <1>3, Kinds DEF IInv, ByKind, Closing, Labels, Actors
<1>6. DownIsQuiet' /\ StartedStops'
  BY <1>1, <1>2, <1>3, Kinds DEF IInv, DownIsQuiet, StartedStops
<1>. QED
  BY <1>4, <1>5, <1>6 DEF IInv

(* Whoever is somewhere runs in a process that is up.                      *)
LEMMA RunningIsUp ==
    ASSUME IInv, NEW a \in Actors, pc[a] \notin {"idle", "free", "over"}
    PROVE  up
  BY DEF IInv, DownIsQuiet, OneExitOfEachKind, TypeOK

(* Where a close attempt ends, for a request and for a timer or a stop.    *)
LEMMA EndsIInv ==
    ASSUME ServiceAssumption, IInv, TypeOK', NEW a \in Actors, Failed(a) \/ Finish(a),
           pc[a] \in Closing, UNCHANGED <<exitVars, up>>
    PROVE  IInv'
<1>1. up /\ pc[a] \notin {"pending", "fired", "watching", "free"}
  BY RunningIsUp DEF Closing
<1>2. CASE Goto(a, "cancel") /\ a \notin Taps
  BY <1>1, <1>2, OneMovesOn DEF Closing
<1>3. CASE Goto(a, "idle") /\ a \in Taps
  BY <1>1, <1>3, OneMovesOn DEF Labels
<1>4. CASE Goto(a, "over") /\ a \notin Taps
  BY <1>1, <1>4, OneMovesOn
<1>. QED
  BY <1>2, <1>3, <1>4 DEF Failed, Finish

(* Every step keeps the invariant.                                         *)
LEMMA NextIInv == ASSUME ServiceAssumption, IInv, [Next]_vars PROVE IInv'
<1>0. TypeOK'
  BY NextTypeOK DEF IInv, OneExitOfEachKind
<1>. DEFINE TapLabels == Labels \ {"free", "over", "pending", "fired", "watching", "watch_gone"}
<1>1. ASSUME NEW a \in Taps,
             \/ \E e \in Asked : OpenStart(a, e)
             \/ AmendStart(a) \/ CloseStart(a)
      PROVE  IInv'
  <2>1. /\ a \in Actors /\ up /\ pc[a] = "idle" /\ UNCHANGED <<exitVars, up>>
        /\ \E label \in {"open_place", "amend_current", "cancel"} : Goto(a, label)
    BY <1>1, Kinds DEF OpenStart, AmendStart, CloseStart
  <2>. QED
    BY <1>0, <2>1, OneMovesOn DEF Labels
<1>2. ASSUME NEW a \in Actors, pc[a] \notin Closing,
             OpenPlace(a) \/ OpenRecord(a) \/ Save(a) \/ AmendCurrent(a)
      PROVE  IInv'
  <2>1. /\ pc[a] \in {"open_place", "open_record", "save", "amend_current"}
        /\ UNCHANGED <<exitVars, up>>
        /\ \E label \in {"idle", "open_record", "open_timer", "amend_timer", "amend_stop"} :
              Goto(a, label)
    BY <1>2 DEF OpenPlace, OpenRecord, Save, AmendCurrent, Answered
  <2>2. a \in Taps
    BY <2>1 DEF IInv, ByKind, Actors, Closing
  <2>3. up
    BY <2>1, RunningIsUp
  <2>. QED
    BY <1>0, <2>1, <2>2, <2>3, OneMovesOn DEF Labels
<1>3. ASSUME NEW a \in Actors, OpenTimer(a) \/ AmendTimer(a)
      PROVE  IInv'
  <2>1. /\ pc[a] \in {"open_timer", "amend_timer"} /\ UNCHANGED <<stopOf, done, up>>
        /\ \/ \E next \in {"open_stop", "amend_stop"} : Schedule(a, next)
           \/ Goto(a, "open_stop") /\ UNCHANGED timerOf
    BY <1>3 DEF OpenTimer, AmendTimer
  <2>2. a \in Taps /\ up
    BY <2>1, RunningIsUp DEF IInv, ByKind, Actors, Closing
  <2>3. CASE Goto(a, "open_stop") /\ UNCHANGED timerOf
    BY <1>0, <2>1, <2>2, <2>3, OneMovesOn DEF Labels, exitVars
  <2>. QED
    BY <1>0, <2>1, <2>2, <2>3, ScheduleIInv
<1>4. ASSUME NEW a \in Actors, OpenStop(a) \/ AmendStop(a)
      PROVE  IInv'
  <2>1. /\ pc[a] \in {"open_stop", "amend_stop"} /\ UNCHANGED <<timerOf, up>>
        /\ \/ ArmStop(a, "save")
           \/ Goto(a, "save") /\ UNCHANGED <<stopOf, done>>
           \/ Goto(a, "save") /\ DisarmStop
    BY <1>4 DEF OpenStop, AmendStop
  <2>2. a \in Taps /\ up
    BY <2>1, RunningIsUp DEF IInv, ByKind, Actors, Closing
  <2>3. CASE Goto(a, "save") /\ UNCHANGED <<stopOf, done>>
    BY <1>0, <2>1, <2>2, <2>3, OneMovesOn DEF Labels, exitVars
  <2>4. CASE Goto(a, "save") /\ DisarmStop
    BY <1>0, <2>1, <2>2, <2>4, DisarmStopIInv DEF Labels
  <2>. QED
    BY <1>0, <2>1, <2>2, <2>3, <2>4, ArmStopIInv
<1>5. ASSUME NEW a \in Actors, CloseCancel(a)
      PROVE  IInv'
  <2>1. up
    BY <1>5, RunningIsUp DEF CloseCancel
  <2>. QED
    BY <1>0, <1>5, <2>1, CloseCancelIInv
<1>6. ASSUME NEW a \in Actors, CloseDisarm(a)
      PROVE  IInv'
  <2>1. /\ pc[a] = "disarm" /\ Goto(a, "delete") /\ DisarmStop /\ UNCHANGED <<timerOf, up>>
        /\ up
    BY <1>6, RunningIsUp DEF CloseDisarm
  <2>. QED
    BY <1>0, <2>1, DisarmStopIInv DEF Labels, Closing
<1>7. ASSUME NEW a \in Actors, CloseDelete(a) \/ CloseRead(a) \/ ClosePlace(a) \/ CloseRecord(a)
      PROVE  IInv'
  <2>1. /\ pc[a] \in {"delete", "read", "place", "record_close"} /\ UNCHANGED <<exitVars, up>>
        /\ \/ \E label \in {"read", "place", "record_close"} : Goto(a, label)
           \/ Failed(a) \/ Finish(a)
    BY <1>7 DEF CloseDelete, CloseRead, ClosePlace, CloseRecord
  <2>2. up
    BY <2>1, RunningIsUp
  <2>3. CASE \E label \in {"read", "place", "record_close"} : Goto(a, label)
    BY <1>0, <2>1, <2>2, <2>3, OneMovesOn DEF Labels, Closing
  <2>. QED
    BY <1>0, <2>1, <2>3, EndsIInv DEF Closing
<1>8. ASSUME NEW t \in Timers, TimerFires(t)
      PROVE  IInv'
  <2>1. /\ pc[t] = "pending" /\ pc' = [pc EXCEPT ![t] = "fired"]
        /\ UNCHANGED <<timerOf, stopOf, done, up>> /\ t \in Actors /\ pc \in [Actors -> Labels]
    BY <1>8, Kinds DEF TimerFires, Goto, exitVars, IInv, OneExitOfEachKind, TypeOK
  <2>2. up
    BY <2>1, RunningIsUp
  <2>3. OneExitOfEachKind'
    BY <1>0, <2>1, Kinds DEF IInv, OneExitOfEachKind, TypeOK
  <2>4. ByKind' /\ DownIsQuiet' /\ StartedStops'
    BY <2>1, <2>2, Kinds DEF IInv, ByKind, DownIsQuiet, StartedStops, OneExitOfEachKind, TypeOK
  <2>. QED
    BY <2>3, <2>4 DEF IInv
<1>9. ASSUME NEW t \in Timers, TimerForgets(t)
      PROVE  IInv'
  <2>1. /\ pc[t] = "fired" /\ pc' = [pc EXCEPT ![t] = "cancel"]
        /\ timerOf' = IF timerOf = t THEN NoActor ELSE timerOf
        /\ UNCHANGED <<stopOf, done, up>> /\ t \in Actors /\ pc \in [Actors -> Labels]
    BY <1>9, Kinds DEF TimerForgets, Goto, IInv, OneExitOfEachKind, TypeOK
  <2>2. up
    BY <2>1, RunningIsUp
  <2>3. OneExitOfEachKind'
    BY <1>0, <2>1, Kinds DEF IInv, OneExitOfEachKind, TypeOK
  <2>4. ByKind' /\ DownIsQuiet' /\ StartedStops'
    BY <2>1, <2>2, Kinds
       DEF IInv, ByKind, DownIsQuiet, StartedStops, OneExitOfEachKind, TypeOK, Closing
  <2>. QED
    BY <2>3, <2>4 DEF IInv
<1>10. ASSUME NEW s \in Stops, WatchDone(s) \/ WatchTick(s)
       PROVE  IInv'
  <2>1. /\ pc[s] = "watching" /\ s \in Actors /\ pc \in [Actors -> Labels]
        /\ UNCHANGED <<timerOf, stopOf, done, up>>
        /\ \E label \in {"over", "watch_gone", "cancel"} : pc' = [pc EXCEPT ![s] = label]
    BY <1>10, Kinds
       DEF WatchDone, WatchTick, Goto, exitVars, IInv, OneExitOfEachKind, TypeOK
  <2>2. up
    BY <2>1, RunningIsUp
  <2>3. OneExitOfEachKind'
    BY <1>0, <2>1, Kinds DEF IInv, OneExitOfEachKind, TypeOK
  <2>4. ByKind' /\ DownIsQuiet' /\ StartedStops'
    BY <2>1, <2>2, Kinds
       DEF IInv, ByKind, DownIsQuiet, StartedStops, OneExitOfEachKind, TypeOK, Closing
  <2>. QED
    BY <2>3, <2>4 DEF IInv
<1>11. ASSUME NEW s \in Stops, WatchGone(s)
       PROVE  IInv'
  <2>1. /\ pc[s] = "watch_gone" /\ Goto(s, "over") /\ DisarmStop /\ UNCHANGED <<timerOf, up>>
        /\ s \in Actors /\ s \notin Taps
    BY <1>11, Kinds DEF WatchGone
  <2>2. up
    BY <2>1, RunningIsUp
  <2>. QED
    BY <1>0, <2>1, <2>2, DisarmStopIInv
<1>12. CASE ClosedElsewhere \/ UNCHANGED vars
  <2>1. UNCHANGED <<pc, timerOf, stopOf, done, up>>
    BY <1>12 DEF ClosedElsewhere, exitVars, vars
  <2>2. OneExitOfEachKind'
    BY <1>0, <2>1 DEF IInv, OneExitOfEachKind
  <2>. QED
    BY <2>1, <2>2 DEF IInv, ByKind, DownIsQuiet, StartedStops
<1>13. CASE Crash
  <2>1. /\ \A a \in Taps : pc'[a] = "idle"
        /\ \A a \in Actors \ Taps : pc'[a] \in {"free", "over"}
        /\ timerOf' = NoActor /\ stopOf' = NoActor /\ done' = {} /\ up' = FALSE
    BY <1>13, Kinds DEF Crash
  <2>2. OneExitOfEachKind'
    BY <1>0, <2>1, Kinds DEF OneExitOfEachKind
  <2>3. ByKind' /\ DownIsQuiet' /\ StartedStops'
    BY <2>1, Kinds DEF ByKind, DownIsQuiet, StartedStops, Labels, Actors
  <2>. QED
    BY <2>2, <2>3 DEF IInv
<1>14. CASE Connect
  <2>1. PICK t \in FreeTimers \cup {NoActor}, s \in FreeStops \cup {NoActor} :
            /\ timerOf' = t /\ stopOf' = s
            /\ pc' = [a \in Actors |-> IF a = t THEN "pending"
                                       ELSE IF a = s THEN "watching" ELSE pc[a]]
    BY <1>14 DEF Connect
  <2>2. /\ ~up /\ up' = TRUE /\ done' = done
        /\ t # NoActor => t \in Timers /\ pc[t] = "free"
        /\ s # NoActor => s \in Stops /\ pc[s] = "free"
    BY <1>14, <2>1 DEF Connect, FreeTimers, FreeStops
  <2>3. \A a \in Actors : pc[a] \in {"idle", "free", "over"}
    BY <2>2 DEF IInv, DownIsQuiet
  <2>4. OneExitOfEachKind'
    <3>1. stopOf' # NoActor => stopOf' \notin done'
      BY <2>1, <2>2 DEF IInv, StartedStops
    <3>2. \A r \in Stops : pc'[r] = "watching" /\ r \notin done' => r = stopOf'
      BY <2>1, <2>2, <2>3, Kinds
    <3>3. timerOf' # NoActor => pc'[timerOf'] \in {"pending", "fired"}
      BY <2>1, <2>2, Kinds
    <3>4. \A u \in Timers : pc'[u] = "pending" => u = timerOf'
      BY <2>1, <2>2, <2>3, Kinds
    <3>. QED
      BY <1>0, <3>1, <3>2, <3>3, <3>4 DEF OneExitOfEachKind
  <2>5. ByKind'
    <3>1. \A a \in Taps : pc'[a] = pc[a]
      BY <2>1, <2>2, Kinds
    <3>2. \A u \in Timers : pc'[u] \in {pc[u], "pending"}
      BY <2>1, <2>2, Kinds
    <3>3. \A r \in Stops : pc'[r] \in {pc[r], "watching"}
      BY <2>1, <2>2, Kinds
    <3>. QED
      BY <3>1, <3>2, <3>3 DEF IInv, ByKind
  <2>6. DownIsQuiet' /\ StartedStops'
    <3>1. \A r \in done : r \in Stops
      BY DEF IInv, OneExitOfEachKind, TypeOK
    <3>. QED
      BY <2>1, <2>2, <3>1, Kinds DEF IInv, DownIsQuiet, StartedStops
  <2>. QED
    BY <2>4, <2>5, <2>6 DEF IInv
<1>15. ASSUME NEW a \in Actors, Step(a) PROVE IInv'
  <2>1. OpenPlace(a) \/ OpenRecord(a) \/ Save(a) \/ AmendCurrent(a) => pc[a] \notin Closing
    BY DEF OpenPlace, OpenRecord, Save, AmendCurrent, Closing
  <2>. QED
    BY <1>2, <1>3, <1>4, <1>5, <1>6, <1>7, <1>15, <2>1 DEF Step
<1>. QED
  BY <1>1, <1>8, <1>9, <1>10, <1>11, <1>12, <1>13, <1>14, <1>15 DEF Next

(* The service starts with no exit and nobody at work.                     *)
LEMMA InitIInv == ASSUME ServiceAssumption, Init PROVE IInv
<1>1. OneExitOfEachKind
  BY InitTypeOK, Kinds DEF Init, OneExitOfEachKind
<1>. QED
  BY <1>1, Kinds DEF Init, IInv, ByKind, DownIsQuiet, StartedStops, Labels

(* Every reachable state of the service satisfies the invariant.           *)
THEOREM AlwaysIInv == ASSUME ServiceAssumption PROVE Spec => []IInv
<1>1. Init => IInv
  BY InitIInv
<1>2. IInv /\ [Next]_vars => IInv'
  BY NextIInv
<1>. QED
  BY <1>1, <1>2, PTL DEF Spec

(* A market never has two timers that may still fire, nor two watchers     *)
(* nobody told to stop, however many requests, exits and restarts met.     *)
THEOREM OneLiveExit == ASSUME ServiceAssumption PROVE Spec => []OneExitOfEachKind
<1>1. IInv => OneExitOfEachKind
  BY DEF IInv
<1>. QED
  BY <1>1, AlwaysIInv, PTL

-----------------------------------------------------------------------------
(* A position with a horizon has its timer. *)

(* What HorizonArmed asks of the world outside: an order is placed and its *)
(* answer arrives, a position is read, and the process lives on.  A row    *)
(* that is not written and a position closed elsewhere do no harm.         *)
NoCallFails == Faults \subseteq {"gone", "store"} /\ MaxCrashes = 0

Covers == {"open_record", "open_timer", "cancel", "disarm", "delete", "read", "place"}

(* An open stays covered when whoever moves did not cover it.              *)
LEMMA CoverKept ==
    ASSUME NEW i, Covered(i), NEW a, pc[a] \notin Covers,
           timerOf # NoActor => timerOf' # NoActor,
           \A b \in Actors \ {a} : pc[b] # "pending" =>
               pc'[b] = pc[b] /\ exits'[b] = exits[b] /\ seen'[b] = seen[b],
           Taps \subseteq Actors
    PROVE  Covered(i)'
<1>1. CASE timerOf # NoActor
  BY <1>1 DEF Covered
<1>2. ASSUME NEW b \in Taps, pc[b] \in {"open_record", "open_timer"}, "horizon" \in exits[b]
      PROVE  Covered(i)'
  <2>1. b # a /\ pc[b] # "pending"
    BY <1>2 DEF Covers
  <2>. QED
    BY <1>2, <2>1 DEF Covered
<1>3. ASSUME NEW b \in Actors, pc[b] \in {"cancel", "disarm", "delete", "read"}
      PROVE  Covered(i)'
  <2>1. b # a /\ pc[b] # "pending"
    BY <1>3 DEF Covers
  <2>. QED
    BY <1>3, <2>1 DEF Covered
<1>4. ASSUME NEW b \in Actors, pc[b] = "place", i <= seen[b].size
      PROVE  Covered(i)'
  <2>1. b # a /\ pc[b] # "pending"
    BY <1>4 DEF Covers
  <2>. QED
    BY <1>4, <2>1 DEF Covered
<1>. QED
  BY <1>1, <1>2, <1>3, <1>4 DEF Covered

(* The position is the same, and so are its opens' horizons: every open    *)
(* that was covered and is covered on is enough.                           *)
LEMMA SamePositionCovered ==
    ASSUME HorizonsCovered, up', position' = position,
           \A i \in 1 .. position : "horizon" \in opens'[i] =>
               Covered(i)' \/ ("horizon" \in opens[i] /\ (Covered(i) => Covered(i)'))
    PROVE  HorizonsCovered'
  BY DEF HorizonsCovered

(* Every step that cannot fail keeps every open of the position covered.   *)
LEMMA NextCovered ==
    ASSUME ServiceAssumption, NoCallFails, IInv, HorizonsCovered, [Next]_vars
    PROVE  HorizonsCovered'
<1>. USE Kinds
<1>0. /\ TypeOK /\ TypeOK' /\ up /\ pc \in [Actors -> Labels]
      /\ position \in Nat /\ opens \in Seq(Exits) /\ MaxPosition \in Nat
  <2>1. TypeOK /\ up
    BY DEF IInv, OneExitOfEachKind, HorizonsCovered
  <2>2. TypeOK'
    BY <2>1, NextTypeOK
  <2>3. pc \in [Actors -> Labels] /\ opens \in Seq(Exits)
    BY <2>1 DEF TypeOK
  <2>4. position \in Nat /\ MaxPosition \in Nat
    BY <2>3 DEF position, ServiceAssumption
  <2>. QED
    BY <2>1, <2>2, <2>3, <2>4
<1>1. ASSUME NEW kind \in {"read", "error", "refused", "lost"}, Fault(kind) PROVE FALSE
  BY <1>1 DEF NoCallFails, Fault
<1>2. ASSUME NEW a \in Actors, pc[a] \notin Covers,
             pc' = [pc EXCEPT ![a] = pc'[a]], exits' = [exits EXCEPT ![a] = exits'[a]],
             seen' = seen, timerOf' = timerOf, up' = up, opens' = opens
      PROVE  HorizonsCovered'
  <2>1. \A b \in Actors \ {a} : pc'[b] = pc[b] /\ exits'[b] = exits[b] /\ seen'[b] = seen[b]
    BY <1>0, <1>2 DEF TypeOK
  <2>2. \A i \in 1 .. position : Covered(i) => Covered(i)'
    BY <1>2, <2>1, CoverKept
  <2>. QED
    BY <1>0, <1>2, <2>2, SamePositionCovered DEF position
<1>3. ASSUME NEW a \in Actors, up', opens' = opens,
             pc'[a] \in {"cancel", "disarm", "delete", "read"} \/ timerOf' # NoActor
      PROVE  HorizonsCovered'
  <2>1. \A i \in 1 .. position : Covered(i)'
    BY <1>3 DEF Covered
  <2>. QED
    BY <1>3, <2>1, SamePositionCovered DEF position
<1>4. ASSUME NEW a \in Taps,
             \/ \E e \in Asked : OpenStart(a, e)
             \/ AmendStart(a) \/ CloseStart(a)
      PROVE  HorizonsCovered'
  <2>1. /\ pc[a] = "idle" /\ a \in Actors
        /\ \E label \in Labels : pc' = [pc EXCEPT ![a] = label]
        /\ \/ exits' = exits
           \/ \E e \in Asked : exits' = [exits EXCEPT ![a] = e]
        /\ UNCHANGED <<seen, timerOf, up, opens>>
    BY <1>4 DEF OpenStart, AmendStart, CloseStart, Goto, exitVars, venueVars, localVars, Labels
  <2>2. pc' = [pc EXCEPT ![a] = pc'[a]] /\ exits' = [exits EXCEPT ![a] = exits'[a]]
    BY <1>0, <2>1 DEF TypeOK
  <2>. QED
    BY <1>2, <2>1, <2>2 DEF Covers
<1>5. ASSUME NEW a \in Actors, OpenPlace(a) PROVE HorizonsCovered'
  <2>1. /\ pc[a] = "open_place" /\ Opened(exits[a]) /\ pc' = [pc EXCEPT ![a] = "open_record"]
        /\ UNCHANGED <<exits, seen, timerOf, up>>
    BY <1>1, <1>5 DEF OpenPlace, exitVars, Goto
  <2>2. a \in Taps
    BY <2>1 DEF IInv, ByKind, Actors, Closing
  <2>3. /\ position' = position + 1 /\ opens'[position + 1] = exits[a]
        /\ \A i \in 1 .. position : opens'[i] = opens[i]
    BY <1>0, <2>1, OpenedOpens DEF TypeOK
  <2>4. ASSUME NEW i, "horizon" \in exits[a] PROVE Covered(i)'
    BY <1>0, <2>1, <2>2, <2>4 DEF Covered
  <2>5. \A i \in 1 .. position : Covered(i) => Covered(i)'
    <3>1. \A b \in Actors \ {a} : pc'[b] = pc[b] /\ exits'[b] = exits[b] /\ seen'[b] = seen[b]
      BY <1>0, <2>1
    <3>. QED
      BY <2>1, <3>1, CoverKept DEF Covers
  <2>6. \A i \in 1 .. position' : i \in 1 .. position \/ i = position + 1
    BY <1>0, <2>3
  <2>7. \A i \in 1 .. position : "horizon" \in opens[i] => Covered(i)
    BY DEF HorizonsCovered
  <2>8. \A i \in 1 .. position' : "horizon" \in opens'[i] => Covered(i)'
    BY <2>3, <2>4, <2>5, <2>6, <2>7
  <2>. QED
    BY <1>0, <2>1, <2>8 DEF HorizonsCovered
<1>6. ASSUME NEW a \in Actors, OpenRecord(a) PROVE HorizonsCovered'
  <2>1. /\ pc[a] = "open_record"
        /\ pc' = [pc EXCEPT ![a] = IF exits[a] = {} THEN "idle" ELSE "open_timer"]
        /\ UNCHANGED <<exits, seen, timerOf, up, opens>>
    BY <1>6 DEF OpenRecord, Goto, localVars, exitVars, venueVars
  <2>2. \A i \in 1 .. position : Covered(i) => Covered(i)'
    BY <1>0, <2>1 DEF Covered
  <2>. QED
    BY <1>0, <2>1, <2>2, SamePositionCovered DEF position
<1>7. ASSUME NEW a \in Actors, OpenTimer(a) PROVE HorizonsCovered'
  <2>1. pc[a] = "open_timer" /\ UNCHANGED <<exits, seen, up, opens>>
    BY <1>7 DEF OpenTimer, localVars, venueVars
  <2>2. CASE "horizon" \in exits[a]
    <3>1. timerOf' # NoActor
      BY <1>7, <2>2 DEF OpenTimer, Schedule, FreeTimers
    <3>. QED
      BY <1>0, <1>3, <1>7, <2>1, <3>1
  <2>3. CASE "horizon" \notin exits[a]
    <3>1. pc' = [pc EXCEPT ![a] = "open_stop"] /\ UNCHANGED timerOf
      BY <1>7, <2>3 DEF OpenTimer, Goto
    <3>2. \A i \in 1 .. position : Covered(i) => Covered(i)'
      BY <1>0, <2>1, <2>3, <3>1 DEF Covered
    <3>. QED
      BY <1>0, <2>1, <3>2, SamePositionCovered DEF position
  <2>. QED
    BY <2>2, <2>3
<1>8. ASSUME NEW a \in Actors, Save(a) \/ AmendCurrent(a) PROVE HorizonsCovered'
  <2>1. /\ pc[a] \in {"save", "amend_current"}
        /\ \E label \in Labels : pc' = [pc EXCEPT ![a] = label]
        /\ \E e \in Exits : exits' = [exits EXCEPT ![a] = e]
        /\ UNCHANGED <<seen, timerOf, up, opens>>
    <3>1. CASE Save(a)
      BY <3>1 DEF Save, Answered, Goto, exitVars, venueVars, Labels, Exits
    <3>2. CASE AmendCurrent(a)
      <4>1. PICK stop \in BOOLEAN, extend \in BOOLEAN :
                /\ exits' = [exits EXCEPT ![a] =
                              (IF stop THEN {"stop"} ELSE {}) \cup
                              (IF extend \/ timerOf # NoActor THEN {"horizon"} ELSE {})]
                /\ Goto(a, IF extend THEN "amend_timer" ELSE "amend_stop")
        BY <3>2 DEF AmendCurrent
      <4>2. (IF stop THEN {"stop"} ELSE {}) \cup
            (IF extend \/ timerOf # NoActor THEN {"horizon"} ELSE {}) \in Exits
        BY DEF Exits
      <4>. QED
        BY <3>2, <4>1, <4>2 DEF AmendCurrent, Goto, Labels, exitVars, venueVars
    <3>. QED
      BY <1>8, <3>1, <3>2
  <2>2. pc' = [pc EXCEPT ![a] = pc'[a]] /\ exits' = [exits EXCEPT ![a] = exits'[a]]
    BY <1>0, <2>1 DEF TypeOK
  <2>. QED
    BY <1>2, <2>1, <2>2 DEF Covers
<1>9. ASSUME NEW a \in Actors, AmendTimer(a) PROVE HorizonsCovered'
  <2>1. timerOf' # NoActor /\ up' /\ position' = position
    <3>1. opens' = [i \in 1 .. position |-> opens[i] \cup {"horizon"}]
      BY <1>9 DEF AmendTimer
    <3>2. Len(opens') = position
      BY <1>0, <3>1
    <3>. QED
      BY <1>0, <1>9, <3>2 DEF AmendTimer, Schedule, FreeTimers, position
  <2>. QED
    BY <2>1, SamePositionCovered DEF Covered
<1>10. ASSUME NEW a \in Actors, OpenStop(a) \/ AmendStop(a) PROVE HorizonsCovered'
  <2>1. /\ pc[a] \in {"open_stop", "amend_stop"} /\ UNCHANGED <<exits, seen, timerOf, up>>
        /\ \/ \E s \in Stops : pc[s] = "free" /\ pc' = [pc EXCEPT ![s] = "watching", ![a] = "save"]
           \/ pc' = [pc EXCEPT ![a] = "save"]
    BY <1>10 DEF OpenStop, AmendStop, ArmStop, FreeStops, Goto, localVars
  <2>2. /\ position' = position
        /\ \A i \in 1 .. position : "horizon" \in opens'[i] <=> "horizon" \in opens[i]
    <3>1. CASE UNCHANGED opens
      BY <3>1 DEF position
    <3>2. CASE opens' = [i \in 1 .. position |-> (opens[i] \ {"stop"}) \cup (exits[a] \cap {"stop"})]
      <4>1. Len(opens') = position
        BY <1>0, <3>2
      <4>. QED
        BY <3>2, <4>1 DEF position
    <3>. QED
      BY <1>10, <3>1, <3>2 DEF OpenStop, AmendStop, venueVars
  <2>3. \A b \in Actors : pc[b] \in Covers => pc'[b] = pc[b]
    BY <1>0, <2>1 DEF Covers
  <2>4. \A i \in 1 .. position : Covered(i) => Covered(i)'
    BY <2>1, <2>3 DEF Covered, Covers
  <2>. QED
    BY <1>0, <2>1, <2>2, <2>4, SamePositionCovered
<1>11. ASSUME NEW a \in Actors, CloseCancel(a) \/ CloseDisarm(a) \/ CloseDelete(a)
       PROVE  HorizonsCovered'
  <2>1. pc'[a] \in {"disarm", "delete", "read"} /\ UNCHANGED <<up, opens>>
    <3>1. Stopped(pc, timerOf) \in [Actors -> Labels]
      BY <1>0, StoppedTypes
    <3>. QED
      BY <1>0, <1>11, <3>1 DEF CloseCancel, CloseDisarm, CloseDelete, Goto, venueVars
  <2>. QED
    BY <1>0, <1>3, <2>1
<1>12. ASSUME NEW a \in Actors, CloseRead(a) PROVE HorizonsCovered'
  <2>1. UNCHANGED <<up, opens, timerOf>>
    BY <1>12 DEF CloseRead, exitVars, venueVars
  <2>2. CASE position = 0
    BY <1>0, <2>1, <2>2 DEF HorizonsCovered, position
  <2>3. CASE position > 0
    <3>1. seen'[a].size = position /\ pc'[a] = "place"
      BY <1>0, <1>1, <1>12, <2>3 DEF CloseRead, Goto, TypeOK
    <3>2. \A i \in 1 .. position : Covered(i)'
      BY <1>0, <3>1 DEF Covered
    <3>. QED
      BY <1>0, <2>1, <3>2, SamePositionCovered DEF position
  <2>. QED
    BY <1>0, <2>2, <2>3
<1>13. ASSUME NEW a \in Actors, ClosePlace(a) PROVE HorizonsCovered'
  <2>1. /\ pc[a] = "place" /\ UNCHANGED <<up, exits, timerOf>>
        /\ \E label \in Labels : pc' = [pc EXCEPT ![a] = label]
        /\ seen' = [seen EXCEPT ![a] = seen'[a]]
        /\ Reduced(seen[a].size) \/ (position = 0 /\ UNCHANGED opens)
    BY <1>0, <1>1, <1>13
       DEF ClosePlace, Goto, Finish, Failed, exitVars, venueVars, Labels, TypeOK
  <2>2. CASE position = 0 /\ UNCHANGED opens
    BY <1>0, <2>1, <2>2 DEF HorizonsCovered, position
  <2>3. CASE Reduced(seen[a].size)
    <3>. DEFINE n == seen[a].size
    <3>1. n \in Nat /\ \A b \in Actors : seen[b].size \in Nat
      <4>1. seen \in [Actors -> [size : 0 .. MaxPosition, gen : 0 .. MaxGen]]
        BY <1>0 DEF TypeOK
      <4>2. \A b \in Actors : seen[b].size \in 0 .. MaxPosition
        BY <4>1
      <4>. QED
        BY <1>0, <1>13, <4>2
    <3>2. /\ \A i \in 1 .. position' : i + n \in 1 .. position /\ opens'[i] = opens[i + n]
          /\ position' \in Nat
      BY <1>0, <2>3, <3>1, ReducedOpens
    <3>3. \A b \in Actors \ {a} : pc'[b] = pc[b] /\ seen'[b] = seen[b]
      BY <1>0, <2>1 DEF TypeOK
    <3>4. ASSUME NEW i \in 1 .. position', Covered(i + n) PROVE Covered(i)'
      <4>1. i \in Nat /\ i > 0
        BY <3>2, <3>4
      <4>2. CASE timerOf # NoActor
        BY <2>1, <4>2 DEF Covered
      <4>3. ASSUME NEW b \in Taps, pc[b] \in {"open_record", "open_timer"}, "horizon" \in exits[b]
            PROVE  Covered(i)'
        <5>1. b \in Actors \ {a}
          BY <2>1, <4>3
        <5>. QED
          BY <2>1, <3>3, <4>3, <5>1 DEF Covered
      <4>4. ASSUME NEW b \in Actors, pc[b] \in {"cancel", "disarm", "delete", "read"}
            PROVE  Covered(i)'
        <5>1. b \in Actors \ {a}
          BY <2>1, <4>4
        <5>. QED
          BY <3>3, <4>4, <5>1 DEF Covered
      <4>5. ASSUME NEW b \in Actors, pc[b] = "place", i + n <= seen[b].size
            PROVE  Covered(i)'
        <5>1. b \in Actors \ {a} /\ i <= seen[b].size
          BY <3>1, <4>1, <4>5
        <5>. QED
          BY <3>3, <4>5, <5>1 DEF Covered
      <4>. QED
        BY <3>4, <4>2, <4>3, <4>4, <4>5 DEF Covered
    <3>. QED
      BY <1>0, <2>1, <3>2, <3>4 DEF HorizonsCovered
  <2>. QED
    BY <2>1, <2>2, <2>3
<1>14. ASSUME NEW a \in Actors, CloseRecord(a) PROVE HorizonsCovered'
  <2>1. /\ pc[a] = "record_close" /\ UNCHANGED <<up, opens, timerOf, exits>>
        /\ pc' = [pc EXCEPT ![a] = pc'[a]] /\ seen' = [seen EXCEPT ![a] = seen'[a]]
    BY <1>0, <1>14 DEF CloseRecord, Finish, Goto, exitVars, venueVars, TypeOK
  <2>2. \A b \in Actors : pc[b] \in Covers => pc'[b] = pc[b] /\ seen'[b] = seen[b]
    BY <1>0, <2>1 DEF Covers, TypeOK
  <2>3. \A i \in 1 .. position : Covered(i) => Covered(i)'
    BY <2>1, <2>2 DEF Covered, Covers
  <2>. QED
    BY <1>0, <2>1, <2>3, SamePositionCovered DEF position
<1>15. ASSUME NEW t \in Timers, TimerForgets(t) PROVE HorizonsCovered'
  <2>1. pc'[t] = "cancel" /\ UNCHANGED <<up, opens>> /\ t \in Actors
    BY <1>0, <1>15 DEF TimerForgets, Goto, venueVars
  <2>. QED
    BY <1>0, <1>3, <2>1
<1>16. ASSUME NEW a \in Actors, TimerFires(a) \/ WatchDone(a) \/ WatchTick(a) \/ WatchGone(a)
       PROVE  HorizonsCovered'
  <2>1. /\ pc[a] \in {"pending", "watching", "watch_gone"}
        /\ UNCHANGED <<exits, seen, timerOf, up, opens>>
        /\ \E label \in Labels : pc' = [pc EXCEPT ![a] = label]
    BY <1>16 DEF TimerFires, WatchDone, WatchTick, WatchGone, Goto, Labels, localVars, exitVars,
                 venueVars
  <2>2. pc' = [pc EXCEPT ![a] = pc'[a]] /\ exits' = [exits EXCEPT ![a] = exits'[a]]
    BY <1>0, <2>1 DEF TypeOK
  <2>. QED
    BY <1>2, <2>1, <2>2 DEF Covers
<1>17. CASE ClosedElsewhere
  <2>1. position' = 0 /\ up'
    BY <1>0, <1>17, ReducedOpens DEF ClosedElsewhere
  <2>. QED
    BY <2>1 DEF HorizonsCovered
<1>18. ASSUME Crash \/ Connect PROVE FALSE
  BY <1>0, <1>18 DEF Crash, Connect, NoCallFails, TypeOK
<1>19. CASE UNCHANGED vars
  BY <1>19 DEF HorizonsCovered, Covered, vars, position
<1>. QED
  BY <1>4, <1>5, <1>6, <1>7, <1>8, <1>9, <1>10, <1>11, <1>12, <1>13, <1>14, <1>15, <1>16, <1>17,
     <1>18, <1>19 DEF Next, Step

(* An open that is covered while nobody works is covered by its timer.     *)
LEMMA CoveredIsArmed == ASSUME ServiceAssumption, TypeOK, HorizonsCovered PROVE HorizonArmed
<1>. SUFFICES ASSUME Quiet, position > 0, "horizon" \in promised PROVE timerOf # NoActor
  BY DEF HorizonArmed
<1>1. PICK i \in 1 .. position : "horizon" \in opens[i]
  BY DEF promised
<1>2. Covered(i)
  BY <1>1 DEF HorizonsCovered
<1>. QED
  BY <1>2, Kinds DEF Covered, Quiet

(* As long as no call fails, a position that was promised a horizon has    *)
(* its timer, whichever opens, amendments, closes, timers and watchers ran *)
(* into each other.                                                        *)
THEOREM HorizonAlwaysArmed ==
    ASSUME ServiceAssumption, NoCallFails PROVE Spec => []HorizonArmed
<1>1. Init => HorizonsCovered
  BY DEF Init, HorizonsCovered, position
<1>2. IInv /\ HorizonsCovered /\ [Next]_vars => HorizonsCovered'
  BY NextCovered
<1>3. IInv /\ HorizonsCovered => HorizonArmed
  BY CoveredIsArmed DEF IInv, OneExitOfEachKind
<1>. QED
  BY <1>1, <1>2, <1>3, AlwaysIInv, PTL DEF Spec

-----------------------------------------------------------------------------
(* A position is counted. *)

(* What PositionIsCounted asks of the world outside: an open the venue     *)
(* made is an open the service hears of.                                   *)
AnswersArrive == "lost" \notin Faults

(* Any set of actors can be counted.                                       *)
LEMMA ActorsCounted ==
    ASSUME ServiceAssumption, NEW A \in SUBSET Actors
    PROVE  IsFiniteSet(A) /\ Cardinality(A) \in Nat
<1>1. IsFiniteSet({"timer"}) /\ IsFiniteSet({"stop"})
  BY FS_Singleton
<1>2. 1 \in Int /\ MaxTimers \in Int /\ MaxStops \in Int
  BY DEF ServiceAssumption
<1>3. IsFiniteSet(1 .. MaxTimers) /\ IsFiniteSet(1 .. MaxStops)
  <2>1. \A m \in Int, n \in Int : IsFiniteSet(m .. n)
    BY FS_Interval
  <2>. QED
    BY <1>2, <2>1
<1>4. IsFiniteSet(Timers) /\ IsFiniteSet(Stops)
  BY <1>1, <1>3, FS_Product DEF Timers, Stops
<1>5. IsFiniteSet(Taps)
  BY DEF ServiceAssumption
<1>6. IsFiniteSet(Actors)
  BY <1>4, <1>5, FS_Union DEF Actors
<1>. QED
  BY <1>6, FS_Subset, FS_CardinalityType

(* The policy's count and what is due to it are numbers.                   *)
LEMMA DueNumbers ==
    ASSUME ServiceAssumption, TypeOK
    PROVE  /\ IsFiniteSet(ToCount) /\ IsFiniteSet(ToDiscount)
           /\ Cardinality(ToCount) \in Nat /\ Cardinality(ToDiscount) \in Nat
           /\ counted \in Nat /\ Due \in Int /\ position \in Nat
<1>1. ToCount \in SUBSET Actors /\ ToDiscount \in SUBSET Actors
  BY Kinds DEF ToCount, ToDiscount
<1>2. counted \in Nat /\ position \in Nat
  BY DEF TypeOK, position
<1>. QED
  BY <1>1, <1>2, ActorsCounted DEF Due

(* What is due stays where nobody opens or closes.                         *)
LEMMA DueSame ==
    ASSUME \A b \in Actors : /\ pc'[b] = "open_record" <=> pc[b] = "open_record"
                             /\ pc'[b] = "record_close" <=> pc[b] = "record_close",
           counted' = counted, ServiceAssumption
    PROVE  Due' = Due
<1>1. ToCount' = ToCount /\ ToDiscount' = ToDiscount
  BY Kinds DEF ToCount, ToDiscount
<1>. QED
  BY <1>1 DEF Due

(* No less is due for the same position, and nobody is about to close less *)
(* of it.                                                                  *)
LEMMA DueKept ==
    ASSUME ServiceAssumption, TypeOK, TypeOK', EveryOpenIsDue, up,
           Due' >= Due, position' = position,
           \A b \in Actors : pc'[b] = "place" =>
               \/ pc[b] = "place" /\ seen'[b] = seen[b]
               \/ position > 0 /\ seen'[b].size = position
    PROVE  EveryOpenIsDue'
<1>1. Due \in Int /\ Due' \in Int /\ position \in Nat
  <2>1. /\ counted' \in Nat /\ ToCount' \in SUBSET Actors /\ ToDiscount' \in SUBSET Actors
    BY Kinds DEF TypeOK, ToCount, ToDiscount
  <2>2. Cardinality(ToCount') \in Nat /\ Cardinality(ToDiscount') \in Nat
    BY <2>1, ActorsCounted
  <2>. QED
    BY <2>1, <2>2, DueNumbers DEF Due
<1>2. \A b \in Actors : pc'[b] = "place" => seen'[b].size > 0
  BY <1>1 DEF EveryOpenIsDue
<1>3. CASE Due >= position
  BY <1>1, <1>2, <1>3 DEF EveryOpenIsDue
<1>4. ASSUME NEW w \in 1 .. position, CountedFromAfter(w) PROVE EveryOpenIsDue'
  <2>1. Due' > position' - w /\ w \in 1 .. position'
    BY <1>1, <1>4 DEF CountedFromAfter
  <2>2. \A b \in Actors : pc'[b] = "place" => seen'[b].size >= w
    BY <1>1, <1>4 DEF CountedFromAfter
  <2>3. CountedFromAfter(w)'
    BY <2>1, <2>2 DEF CountedFromAfter
  <2>. QED
    BY <1>2, <2>1, <2>3 DEF EveryOpenIsDue
<1>. QED
  BY <1>3, <1>4 DEF EveryOpenIsDue

(* Whatever is about to be closed, the policy's count is not in debt.      *)
LEMMA DueNotNegative ==
    ASSUME ServiceAssumption, TypeOK, EveryOpenIsDue, up
    PROVE  Due >= 0
  BY DueNumbers DEF EveryOpenIsDue, CountedFromAfter

(* Every step keeps every open of the position due to the policy.          *)
LEMMA NextDue ==
    ASSUME ServiceAssumption, AnswersArrive, IInv, EveryOpenIsDue, [Next]_vars
    PROVE  EveryOpenIsDue'
<1>. USE Kinds
<1>1. TypeOK /\ pc \in [Actors -> Labels] /\ MaxPosition \in Nat
  BY DEF IInv, OneExitOfEachKind, TypeOK, ServiceAssumption
<1>2. TypeOK'
  BY <1>1, NextTypeOK
<1>3. /\ counted \in Nat /\ position \in Nat /\ Due \in Int
      /\ IsFiniteSet(ToCount) /\ IsFiniteSet(ToDiscount)
      /\ Cardinality(ToCount) \in Nat /\ Cardinality(ToDiscount) \in Nat
  BY <1>1, DueNumbers
<1>4. ASSUME Fault("lost") PROVE FALSE
  BY <1>4 DEF AnswersArrive, Fault
<1>5. ASSUME NEW a \in Actors, NEW label \in Labels, pc' = [pc EXCEPT ![a] = label],
             pc[a] \notin {"open_record", "record_close"},
             label \notin {"open_record", "record_close", "place"},
             \A b \in Actors \ {a} : seen'[b] = seen[b],
             counted' = counted, position' = position, up' = up
      PROVE  EveryOpenIsDue'
  <2>1. \A b \in Actors : /\ pc'[b] = "open_record" <=> pc[b] = "open_record"
                          /\ pc'[b] = "record_close" <=> pc[b] = "record_close"
                          /\ pc'[b] = "place" => pc[b] = "place" /\ seen'[b] = seen[b]
    BY <1>1, <1>5
  <2>2. Due' = Due
    BY <1>5, <2>1, DueSame
  <2>. QED
    BY <1>1, <1>2, <1>3, <1>5, <2>1, <2>2, DueKept DEF EveryOpenIsDue
<1>6. ASSUME \A b \in Actors : pc'[b] = pc[b] \/ {pc[b], pc'[b]} \cap
                                   {"open_record", "record_close", "place"} = {},
             UNCHANGED <<seen, counted, up>>, position' = position
      PROVE  EveryOpenIsDue'
  <2>1. \A b \in Actors : /\ pc'[b] = "open_record" <=> pc[b] = "open_record"
                          /\ pc'[b] = "record_close" <=> pc[b] = "record_close"
                          /\ pc'[b] = "place" => pc[b] = "place" /\ seen'[b] = seen[b]
    BY <1>6
  <2>2. Due' = Due
    BY <1>6, <2>1, DueSame
  <2>. QED
    BY <1>1, <1>2, <1>3, <1>6, <2>1, <2>2, DueKept DEF EveryOpenIsDue
<1>7. ASSUME NEW a \in Taps,
             \/ \E e \in Asked : OpenStart(a, e)
             \/ AmendStart(a) \/ CloseStart(a)
      PROVE  EveryOpenIsDue'
  <2>1. /\ pc[a] = "idle" /\ UNCHANGED <<seen, counted, opens, up>>
        /\ \E label \in {"open_place", "amend_current", "cancel"} : pc' = [pc EXCEPT ![a] = label]
    BY <1>7 DEF OpenStart, AmendStart, CloseStart, Goto, venueVars, localVars
  <2>. QED
    BY <1>5, <2>1 DEF Labels, position
<1>8. ASSUME NEW a \in Actors, OpenPlace(a) PROVE EveryOpenIsDue'
  <2>1. pc[a] = "open_place" /\ UNCHANGED <<seen, counted, up>> /\ a \in Taps
    BY <1>8 DEF OpenPlace, IInv, ByKind, Actors, Closing
  <2>2. CASE Answered(a) /\ UNCHANGED venueVars
    BY <1>5, <2>1, <2>2 DEF Answered, Goto, Labels, venueVars, position
  <2>3. CASE Opened(exits[a]) /\ Goto(a, "open_record")
    <3>1. position' = position + 1
      BY <1>1, <2>3, OpenedOpens DEF TypeOK
    <3>2. ToCount' = ToCount \cup {a} /\ ToDiscount' = ToDiscount /\ a \notin ToCount
      BY <1>1, <2>1, <2>3 DEF Goto, ToCount, ToDiscount
    <3>3. Due' = Due + 1
      <4>1. Cardinality(ToCount') = Cardinality(ToCount) + 1
        BY <1>3, <3>2, FS_AddElement
      <4>. QED
        BY <1>3, <2>1, <3>2, <4>1 DEF Due
    <3>4. \A b \in Actors : pc'[b] = "place" => pc[b] = "place"
      BY <1>1, <2>3 DEF Goto
    <3>5. ASSUME up, NEW w \in 1 .. position, CountedFromAfter(w)
          PROVE  CountedFromAfter(w)' /\ w \in 1 .. position'
      BY <1>3, <2>1, <3>1, <3>3, <3>4, <3>5 DEF CountedFromAfter
    <3>. QED
      BY <1>3, <2>1, <3>1, <3>3, <3>4, <3>5 DEF EveryOpenIsDue
  <2>. QED
    BY <1>4, <1>8, <2>2, <2>3 DEF OpenPlace
<1>9. ASSUME NEW a \in Actors, OpenRecord(a) PROVE EveryOpenIsDue'
  <2>1. /\ pc[a] = "open_record" /\ counted' = counted + 1
        /\ UNCHANGED <<seen, opens, up>>
        /\ \E label \in {"idle", "open_timer"} : pc' = [pc EXCEPT ![a] = label]
    BY <1>9 DEF OpenRecord, Goto, localVars, venueVars
  <2>2. a \in Taps
    BY <2>1 DEF IInv, ByKind, Actors, Closing
  <2>3. ToCount' = ToCount \ {a} /\ ToDiscount' = ToDiscount /\ a \in ToCount
    BY <1>1, <2>1, <2>2 DEF ToCount, ToDiscount
  <2>4. Due' = Due
    <3>1. Cardinality(ToCount') = Cardinality(ToCount) - 1
      BY <1>3, <2>3, FS_RemoveElement
    <3>. QED
      BY <1>3, <2>1, <2>3, <3>1 DEF Due
  <2>5. \A b \in Actors : pc'[b] = "place" => pc[b] = "place" /\ seen'[b] = seen[b]
    BY <1>1, <2>1
  <2>. QED
    BY <1>1, <1>2, <1>3, <2>1, <2>4, <2>5, DueKept DEF EveryOpenIsDue, position
<1>10. ASSUME NEW a \in Actors, Save(a) \/ AmendCurrent(a) PROVE EveryOpenIsDue'
  <2>1. /\ pc[a] \in {"save", "amend_current"} /\ UNCHANGED <<seen, counted, opens, up>>
        /\ \E label \in {"idle", "amend_timer", "amend_stop"} : pc' = [pc EXCEPT ![a] = label]
    BY <1>10 DEF Save, AmendCurrent, Answered, Goto, venueVars
  <2>. QED
    BY <1>5, <2>1 DEF Labels, position
<1>11. ASSUME NEW a \in Actors, \/ OpenTimer(a) \/ OpenStop(a) \/ AmendTimer(a) \/ AmendStop(a)
                                \/ CloseCancel(a) \/ CloseDisarm(a) \/ CloseDelete(a)
       PROVE  EveryOpenIsDue'
  <2>1. UNCHANGED <<seen, counted, up>>
    BY <1>11 DEF OpenTimer, OpenStop, AmendTimer, AmendStop, CloseCancel, CloseDisarm,
                 CloseDelete, localVars
  <2>2. position' = position
    <3>1. CASE UNCHANGED opens
      BY <3>1 DEF position
    <3>2. CASE opens' = [i \in 1 .. position |-> opens'[i]]
      BY <1>3, <3>2 DEF position
    <3>3. CASE AmendTimer(a) \/ AmendStop(a)
      <4>1. opens' = [i \in 1 .. position |-> opens'[i]]
        BY <3>3 DEF AmendTimer, AmendStop
      <4>. QED
        BY <3>2, <4>1
    <3>. QED
      BY <1>11, <3>1, <3>3
         DEF OpenTimer, OpenStop, CloseCancel, CloseDisarm, CloseDelete, venueVars
  <2>3. \A b \in Actors : pc'[b] = pc[b] \/ {pc[b], pc'[b]} \cap
                              {"open_record", "record_close", "place"} = {}
    <3>1. ASSUME NEW label \in {"open_stop", "save", "disarm", "delete", "read"},
                 pc[a] \in {"open_timer", "amend_timer", "open_stop", "amend_stop", "disarm",
                            "delete"},
                 pc' = [pc EXCEPT ![a] = label]
          PROVE  \A b \in Actors : pc'[b] = pc[b] \/ {pc[b], pc'[b]} \cap
                                       {"open_record", "record_close", "place"} = {}
      BY <1>1, <3>1
    <3>2. ASSUME NEW next \in {"open_stop", "amend_stop"}, Schedule(a, next),
                 pc[a] \in {"open_timer", "amend_timer"}
          PROVE  \A b \in Actors : pc'[b] = pc[b] \/ {pc[b], pc'[b]} \cap
                                       {"open_record", "record_close", "place"} = {}
      <4>1. PICK t \in Timers : /\ pc[t] = "free"
                                /\ pc' = [Stopped(pc, timerOf) EXCEPT ![t] = "pending", ![a] = next]
        BY <3>2 DEF Schedule, FreeTimers
      <4>. QED
        BY <1>1, <3>2, <4>1 DEF Stopped
    <3>3. ASSUME ArmStop(a, "save"), pc[a] \in {"open_stop", "amend_stop"}
          PROVE  \A b \in Actors : pc'[b] = pc[b] \/ {pc[b], pc'[b]} \cap
                                       {"open_record", "record_close", "place"} = {}
      <4>1. PICK s \in Stops : /\ pc[s] = "free"
                               /\ pc' = [pc EXCEPT ![s] = "watching", ![a] = "save"]
        BY <3>3 DEF ArmStop, FreeStops
      <4>. QED
        BY <1>1, <3>3, <4>1
    <3>4. ASSUME CloseCancel(a)
          PROVE  \A b \in Actors : pc'[b] = pc[b] \/ {pc[b], pc'[b]} \cap
                                       {"open_record", "record_close", "place"} = {}
      BY <1>1, <3>4 DEF CloseCancel, Stopped
    <3>. QED
      BY <1>11, <3>1, <3>2, <3>3, <3>4
         DEF OpenTimer, OpenStop, AmendTimer, AmendStop, CloseDisarm, CloseDelete, Goto
  <2>. QED
    BY <1>6, <2>1, <2>2, <2>3
<1>12. ASSUME NEW a \in Actors, CloseRead(a) PROVE EveryOpenIsDue'
  <2>1. pc[a] = "read" /\ UNCHANGED <<counted, opens, up>>
    BY <1>12 DEF CloseRead, venueVars
  <2>2. CASE Failed(a) \/ Finish(a)
    <3>1. /\ \E label \in {"idle", "over", "cancel"} : pc' = [pc EXCEPT ![a] = label]
          /\ \A b \in Actors \ {a} : seen'[b] = seen[b]
      BY <1>1, <2>2 DEF Failed, Finish, Goto, TypeOK
    <3>. QED
      BY <1>5, <2>1, <3>1 DEF Labels, position
  <2>3. CASE /\ position > 0 /\ Goto(a, "place")
             /\ seen' = [seen EXCEPT ![a] = [size |-> position, gen |-> gen]]
    <3>1. seen \in [Actors -> [size : 0 .. MaxPosition, gen : 0 .. MaxGen]]
      BY <1>1 DEF TypeOK
    <3>2. \A b \in Actors : /\ pc'[b] = "open_record" <=> pc[b] = "open_record"
                            /\ pc'[b] = "record_close" <=> pc[b] = "record_close"
                            /\ pc'[b] = "place" =>
                                  \/ pc[b] = "place" /\ seen'[b] = seen[b]
                                  \/ position > 0 /\ seen'[b].size = position
      BY <1>1, <2>1, <2>3, <3>1 DEF Goto
    <3>3. Due' = Due
      BY <2>1, <3>2, DueSame
    <3>. QED
      BY <1>1, <1>2, <1>3, <2>1, <3>2, <3>3, DueKept DEF EveryOpenIsDue, position
  <2>. QED
    BY <1>12, <2>2, <2>3 DEF CloseRead
<1>13. ASSUME NEW a \in Actors, ClosePlace(a) PROVE EveryOpenIsDue'
  <2>1. pc[a] = "place" /\ UNCHANGED <<counted, up>>
    BY <1>13 DEF ClosePlace
  <2>2. CASE (Failed(a) \/ Finish(a)) /\ UNCHANGED venueVars
    <3>1. /\ \E label \in {"idle", "over", "cancel"} : pc' = [pc EXCEPT ![a] = label]
          /\ \A b \in Actors \ {a} : seen'[b] = seen[b]
      BY <1>1, <2>2 DEF Failed, Finish, Goto, TypeOK
    <3>. QED
      BY <1>5, <2>1, <2>2, <3>1 DEF Labels, venueVars, position
  <2>3. CASE Reduced(seen[a].size) /\ Goto(a, "record_close") /\ UNCHANGED seen
    <3>. DEFINE n == seen[a].size
    <3>1. n \in Nat
      <4>1. seen \in [Actors -> [size : 0 .. MaxPosition, gen : 0 .. MaxGen]]
        BY <1>1 DEF TypeOK
      <4>2. seen[a].size \in 0 .. MaxPosition
        BY <4>1
      <4>. QED
        BY <1>1, <4>2
    <3>2. position > 0 /\ position' = IF n < position THEN position - n ELSE 0
      BY <1>1, <2>3, <3>1, ReducedOpens DEF Reduced
    <3>3. ToDiscount' = ToDiscount \cup {a} /\ ToCount' = ToCount /\ a \notin ToDiscount
      BY <1>1, <2>1, <2>3 DEF Goto, ToCount, ToDiscount
    <3>4. Due' = Due - 1
      <4>1. Cardinality(ToDiscount') = Cardinality(ToDiscount) + 1
        BY <1>3, <3>3, FS_AddElement
      <4>. QED
        BY <1>3, <2>1, <3>3, <4>1 DEF Due
    <3>5. ASSUME up PROVE Due' >= position'
      <4>1. n > 0
        BY <2>1, <3>5 DEF EveryOpenIsDue
      <4>2. CASE Due >= position
        BY <1>3, <3>1, <3>2, <3>4, <4>1, <4>2
      <4>3. ASSUME NEW w \in 1 .. position, CountedFromAfter(w) PROVE Due' >= position'
        <5>1. n >= w /\ Due > position - w
          BY <2>1, <4>3 DEF CountedFromAfter
        <5>. QED
          BY <1>3, <3>1, <3>2, <3>4, <5>1
      <4>. QED
        BY <3>5, <4>2, <4>3 DEF EveryOpenIsDue
    <3>6. \A b \in Actors : pc'[b] = "place" => pc[b] = "place"
      BY <1>1, <2>3 DEF Goto
    <3>. QED
      BY <2>1, <2>3, <3>5, <3>6 DEF EveryOpenIsDue
  <2>. QED
    BY <1>4, <1>13, <2>2, <2>3 DEF ClosePlace
<1>14. ASSUME NEW a \in Actors, CloseRecord(a) PROVE EveryOpenIsDue'
  <2>1. /\ pc[a] = "record_close" /\ UNCHANGED <<opens, up>>
        /\ counted' = IF counted > 0 THEN counted - 1 ELSE 0
        /\ \E label \in {"idle", "over"} : pc' = [pc EXCEPT ![a] = label]
        /\ \A b \in Actors \ {a} : seen'[b] = seen[b]
    BY <1>1, <1>14 DEF CloseRecord, Finish, Goto, venueVars, TypeOK
  <2>2. ToDiscount' = ToDiscount \ {a} /\ ToCount' = ToCount /\ a \in ToDiscount
    BY <1>1, <2>1 DEF ToCount, ToDiscount
  <2>3. Due' >= Due
    <3>1. Cardinality(ToDiscount') = Cardinality(ToDiscount) - 1
      BY <1>3, <2>2, FS_RemoveElement
    <3>. QED
      BY <1>3, <2>1, <2>2, <3>1 DEF Due
  <2>4. \A b \in Actors : pc'[b] = "place" => pc[b] = "place" /\ seen'[b] = seen[b]
    BY <1>1, <2>1
  <2>. QED
    BY <1>1, <1>2, <1>3, <2>1, <2>3, <2>4, DueKept DEF EveryOpenIsDue, position
<1>15. ASSUME NEW a \in Actors, \/ TimerFires(a) \/ TimerForgets(a) \/ WatchDone(a)
                                \/ WatchTick(a) \/ WatchGone(a)
       PROVE  EveryOpenIsDue'
  <2>1. /\ pc[a] \in {"pending", "fired", "watching", "watch_gone"}
        /\ UNCHANGED <<seen, counted, opens, up>>
        /\ \E label \in {"fired", "cancel", "over", "watch_gone"} : pc' = [pc EXCEPT ![a] = label]
    BY <1>15 DEF TimerFires, TimerForgets, WatchDone, WatchTick, WatchGone, Goto, localVars,
                 venueVars
  <2>. QED
    BY <1>5, <2>1 DEF Labels, position
<1>16. CASE ClosedElsewhere
  <2>1. position' = 0 /\ UNCHANGED <<pc, seen, counted, up>>
    BY <1>1, <1>3, <1>16, ReducedOpens DEF ClosedElsewhere, localVars
  <2>2. Due' = Due
    BY <2>1, DueSame
  <2>. QED
    BY <1>1, <1>3, <2>1, <2>2, DueNotNegative DEF EveryOpenIsDue
<1>17. CASE Crash
  BY <1>17 DEF Crash, EveryOpenIsDue
<1>18. CASE Connect
  <2>1. PICK t \in FreeTimers \cup {NoActor}, s \in FreeStops \cup {NoActor} :
            pc' = [a \in Actors |-> IF a = t THEN "pending"
                                    ELSE IF a = s THEN "watching" ELSE pc[a]]
    BY <1>18 DEF Connect
  <2>2. \A a \in Actors : pc'[a] \in {"idle", "free", "over", "pending", "watching"}
    BY <1>18, <2>1 DEF Connect, IInv, DownIsQuiet
  <2>3. ToCount' = {} /\ ToDiscount' = {}
    BY <2>2 DEF ToCount, ToDiscount
  <2>4. position' = position /\ Due' = IF position > 0 THEN 1 ELSE 0
    BY <1>18, <2>3, FS_EmptySet DEF Connect, venueVars, position, Due
  <2>5. CASE position = 0
    BY <2>2, <2>4, <2>5 DEF EveryOpenIsDue
  <2>6. CASE position > 0
    <3>1. PICK w \in 1 .. position : w = position
      BY <1>3, <2>6
    <3>2. \A a \in Actors : pc'[a] # "place"
      BY <2>2
    <3>3. Due' > position' - w
      BY <1>3, <2>4, <2>6, <3>1
    <3>4. CountedFromAfter(w)'
      BY <3>2, <3>3 DEF CountedFromAfter
    <3>. QED
      BY <2>4, <3>2, <3>4 DEF EveryOpenIsDue
  <2>. QED
    BY <1>3, <2>5, <2>6
<1>19. CASE UNCHANGED vars
  BY <1>6, <1>19 DEF vars, position
<1>. QED
  BY <1>7, <1>8, <1>9, <1>10, <1>11, <1>12, <1>13, <1>14, <1>15, <1>16, <1>17, <1>18, <1>19
     DEF Next, Step

(* When nobody works, what is due has been counted.                        *)
LEMMA DueIsCounted ==
    ASSUME ServiceAssumption, TypeOK, EveryOpenIsDue PROVE PositionIsCounted
<1>. SUFFICES ASSUME Quiet, position > 0 PROVE counted > 0
  BY DEF PositionIsCounted
<1>1. ToCount = {} /\ ToDiscount = {}
  BY Kinds DEF Quiet, ToCount, ToDiscount
<1>2. Due = counted /\ counted \in Nat /\ position \in Nat
  BY <1>1, FS_EmptySet, DueNumbers DEF Due
<1>3. Due > 0
  BY <1>2 DEF EveryOpenIsDue, CountedFromAfter, Quiet
<1>. QED
  BY <1>2, <1>3

(* As long as every answer of the venue arrives, an open position takes up *)
(* a slot of its wallet, whatever was opened, amended, closed, closed      *)
(* elsewhere, failed or restarted in whichever order.                      *)
THEOREM PositionAlwaysCounted ==
    ASSUME ServiceAssumption, AnswersArrive PROVE Spec => []PositionIsCounted
<1>1. Init => EveryOpenIsDue
  <2>. SUFFICES ASSUME Init PROVE EveryOpenIsDue
    OBVIOUS
  <2>1. ToCount = {} /\ ToDiscount = {} /\ counted = 0 /\ position = 0
    BY Kinds DEF Init, ToCount, ToDiscount, position
  <2>2. \A a \in Actors : pc[a] # "place"
    BY DEF Init
  <2>. QED
    BY <2>1, <2>2, FS_EmptySet DEF EveryOpenIsDue, Due
<1>2. IInv /\ EveryOpenIsDue /\ [Next]_vars => EveryOpenIsDue'
  BY NextDue
<1>3. IInv /\ EveryOpenIsDue => PositionIsCounted
  BY DueIsCounted DEF IInv, OneExitOfEachKind
<1>. QED
  BY <1>1, <1>2, <1>3, AlwaysIInv, PTL DEF Spec
=============================================================================
