-------------------------- MODULE TradingClientProofs --------------------------
(***************************************************************************)
(* What TradingClient promises, for any number of calls, of ids, of blocks *)
(* and of sessions.                                                        *)
(*                                                                         *)
(* Of the wire only two things matter: the ids that are acknowledged on it *)
(* and the orders in sight on it.  The invariant relates them to the       *)
(* venue's requests and to the calls; each of its parts is kept by itself. *)
(***************************************************************************)
EXTENDS TradingClient, SequenceTheorems, TLAPS

Loops == {"dial", "read", "ended", "refused", "rediscovered", "failing", "giving_up", "stopped"}
Calls == {"idle", "submit", "status", "order", "again", "done"}

Orders == [id : Nat, of : Places]
Requests == [id : Nat, of : Places, last : Nat, live : BOOLEAN]
Frames ==
    [kind : {"wallet"}, found : BOOLEAN, lfr : Nat] \cup [kind : {"account"}, lfr : Nat]
    \cup [kind : {"status"}, id : Nat, answer : Answers]
    \cup [kind : {"orders"}, data : SUBSET Orders]

ClientTyped ==
    /\ loop \in Loops /\ again \in {"no", "decided", "fired"}
    /\ closing \in BOOLEAN /\ account \in BOOLEAN /\ noAccount \in BOOLEAN
    /\ exists \in BOOLEAN /\ sawOrders \in BOOLEAN
    /\ nextReqID \in Nat /\ blocks \in Nat /\ top \in Nat /\ mishaps \in Nat
    /\ at \in [Places -> Calls]
    /\ req \in [Places -> [id : Nat, last : Nat]]
    /\ acked \in [Places -> Nat] /\ built \in [Places -> Nat]
    /\ status \in [Places -> {NoWaiter, Nothing, Closed} \cup Answers]
    /\ update \in [Places -> {NoWaiter, Nothing, Closed} \cup Places]
    /\ told \in [Places -> {Nothing, "error"} \cup Places]
    /\ requests \subseteq Requests
    /\ wire \in Seq(Frames)
    /\ ran \in [Places -> SUBSET Nat]
    /\ left \subseteq Places /\ early \subseteq Places

(* The ids acknowledged in the frames w, and the orders told of in them. *)
AcksIn(w) == {id \in Nat : \E i \in DOMAIN w : w[i].kind = "status" /\ w[i].id = id}
SightIn(w) == {o \in Orders : \E i \in DOMAIN w : w[i].kind = "orders" /\ o \in w[i].data}
Acks == AcksIn(wire)
Sight == SightIn(wire)

Active(c) == at[c] \in {"submit", "status", "order", "again"}

(* A channel is there as long as submit waits for it. *)
Waiters ==
    \A c \in Places :
        /\ Waiting(c) <=> update[c] # NoWaiter
        /\ at[c] = "status" <=> status[c] # NoWaiter

(* The ids of the calls that are going on were counted, each once. *)
IdsAreCounted ==
    /\ \A c \in Places : Active(c) => req[c].id < nextReqID
    /\ \A c, d \in Places : Active(c) /\ Active(d) /\ req[c].id = req[d].id => c = d
    /\ \A r \in requests : ~r.live => r.id < nextReqID
    /\ \A id \in Acks : id < nextReqID

(* A request is acknowledged once, and after it was written. *)
AcknowledgedOnce ==
    /\ \A r, s \in requests : ~r.live /\ ~s.live /\ r.id = s.id => r = s
    /\ \A r \in requests : r.id \in Acks => r.live
    /\ \A c \in Places : at[c] = "submit" =>
           /\ \A r \in requests : r.id = req[c].id => r.live
           /\ req[c].id \notin Acks

(* The gateway holds nothing of a session that is over. *)
LostWithIt == connected \/ \A r \in requests : r.live

(* The snapshot of the orders, while it is still on its way. *)
Snapshot == IF wire[1].kind = "wallet" THEN wire[2] ELSE wire[1]
SnapshotIsNext ==
    /\ wire # <<>>
    /\ wire[1].kind = "wallet" => Len(wire) > 1
    /\ Snapshot.kind = "orders"

(* The ids in sight are below the counter, or will be with the snapshot. *)
Counted(id) == id < nextReqID \/ (~sawOrders /\ \E o \in Snapshot.data : o.id = id)
InSight ==
    sawOrders \/ loop = "read" =>
        /\ sawOrders \/ SnapshotIsNext
        /\ \A r \in requests : Counted(r.id)
        /\ \A o \in Sight : Counted(o.id)

(* Who is not early shares the id of its request with nobody. *)
OwnIds ==
    \A c \in Places \ early :
        /\ Active(c) => /\ \A r \in requests : r.id = req[c].id => r.of = c
                        /\ \A o \in Sight : o.id = req[c].id => o.of = c
        /\ update[c] \in Places => update[c] = c

ToldAtTheEnd == \A c \in Places : at[c] # "done" => told[c] = Nothing

(* No channel is empty after failInFlight. *)
NobodyIsForgotten ==
    \A c \in Places \ left :
        status[c] = Nothing \/ update[c] = Nothing => loop \notin {"dial", "stopped"}

(* "It can no longer execute." *)
Spent(r) == r.live /\ r.last < blocks

(* What the requests of a call are, from where it is. *)
OneAtATime ==
    \A c \in Places \ left :
        /\ at[c] = "idle" => ran[c] = {} /\ \A r \in requests : r.of # c
        /\ at[c] \in {"submit", "again"} =>
             ran[c] = {} /\ \A r \in requests : r.of = c => Spent(r)
        /\ Waiting(c) => \A r \in requests : r.of = c => r.id = req[c].id \/ Spent(r)
        /\ status[c] = "accepted" => \A r \in requests : r.of = c => r.live
        /\ at[c] = "order" => \A r \in requests : r.of = c => r.live /\ r.last <= acked[c] + OrderTTL

(* "head < lb <= head + order_ttl_blocks", since it was forwarded. *)
LiveIsShort == \A r \in requests : r.live => r.last <= blocks + OrderTTL

(* One request of a call can execute, and none when one has. *)
ExecutesOnce ==
    \A c \in Places \ left :
        /\ \A i, j \in ran[c] : i = j
        /\ \A r, s \in requests : r.of = c /\ s.of = c => r = s \/ r.last < blocks \/ s.last < blocks
        /\ ran[c] # {} => \A r \in requests : r.of = c => r.last < blocks

(* An execution is heard of, as long as the session lasts. *)
Heard ==
    \A c \in Places \ left :
        Waiting(c) /\ ran[c] # {} /\ update[c] = Nothing /\ loop = "read" =>
            \E o \in Sight : o.id = req[c].id

ClientInv ==
    /\ ClientTyped /\ Waiters /\ IdsAreCounted /\ AcknowledgedOnce /\ LostWithIt
    /\ InSight /\ OwnIds /\ ToldAtTheEnd /\ AnswersAreTheirOwn
    /\ NobodyIsForgotten /\ OneAtATime /\ LiveIsShort /\ ExecutesOnce /\ Heard

-----------------------------------------------------------------------------
(* The wire *)

(* A frame put on the wire: what it says is on it, and what was before. *)
LEMMA Appended ==
    ASSUME NEW w \in Seq(Frames), NEW f \in Frames
    PROVE  /\ Append(w, f) \in Seq(Frames)
           /\ AcksIn(Append(w, f)) = AcksIn(w) \cup (IF f.kind = "status" THEN {f.id} ELSE {})
           /\ SightIn(Append(w, f)) = SightIn(w) \cup (IF f.kind = "orders" THEN f.data ELSE {})
<1> DEFINE v == Append(w, f)
<1>1. v \in Seq(Frames) /\ Len(v) = Len(w) + 1 /\ v[Len(w) + 1] = f
      /\ \A i \in 1 .. Len(w) : v[i] = w[i]
  BY AppendProperties
<1>2. DOMAIN w = 1 .. Len(w) /\ DOMAIN v = 1 .. Len(v) /\ Len(w) \in Nat
  BY <1>1, LenProperties
<1> HIDE DEF v
<1>3. f.kind = "status" => f.id \in Nat
  BY DEF Frames
<1>4. f.kind = "orders" => f.data \subseteq Orders
  BY DEF Frames
<1>5. \A i \in DOMAIN v : (i \in DOMAIN w /\ v[i] = w[i]) \/ v[i] = f
  BY <1>1, <1>2
<1>6. \A i \in DOMAIN w : i \in DOMAIN v /\ v[i] = w[i]
  BY <1>1, <1>2
<1>7. \E i \in DOMAIN v : v[i] = f
  BY <1>1, <1>2
<1>8. AcksIn(v) = AcksIn(w) \cup (IF f.kind = "status" THEN {f.id} ELSE {})
  BY ONLY <1>3, <1>5, <1>6, <1>7 DEF AcksIn
<1>9. SightIn(v) = SightIn(w) \cup (IF f.kind = "orders" THEN f.data ELSE {})
  BY ONLY <1>4, <1>5, <1>6, <1>7 DEF SightIn
<1> QED BY <1>1, <1>8, <1>9 DEF v

(* A frame read off the wire: the others are left. *)
LEMMA Taken ==
    ASSUME NEW w \in Seq(Frames), w # <<>>
    PROVE  /\ Head(w) = w[1] /\ w[1] \in Frames /\ Tail(w) \in Seq(Frames)
           /\ Len(Tail(w)) = Len(w) - 1 /\ \A i \in 1 .. Len(w) - 1 : Tail(w)[i] = w[i + 1]
           /\ AcksIn(w) = AcksIn(Tail(w)) \cup (IF w[1].kind = "status" THEN {w[1].id} ELSE {})
           /\ SightIn(w) = SightIn(Tail(w)) \cup (IF w[1].kind = "orders" THEN w[1].data ELSE {})
<1> DEFINE v == Tail(w)
<1>1. v \in Seq(Frames) /\ Len(v) = Len(w) - 1 /\ Head(w) = w[1]
      /\ \A i \in 1 .. Len(v) : v[i] = w[i + 1]
  BY HeadTailProperties
<1>2. DOMAIN w = 1 .. Len(w) /\ DOMAIN v = 1 .. Len(v) /\ Len(w) \in Nat /\ Len(w) # 0
  BY <1>1, LenProperties, EmptySeq
<1> HIDE DEF v
<1>3. w[1] \in Frames /\ 1 \in DOMAIN w
  BY <1>2
<1>4. w[1].kind = "status" => w[1].id \in Nat
  BY <1>3 DEF Frames
<1>5. w[1].kind = "orders" => w[1].data \subseteq Orders
  BY <1>3 DEF Frames
<1>6. \A i \in DOMAIN w : i = 1 \/ (i - 1 \in DOMAIN v /\ v[i - 1] = w[i])
  BY <1>1, <1>2
<1>7. \A i \in DOMAIN v : i + 1 \in DOMAIN w /\ v[i] = w[i + 1]
  BY <1>1, <1>2
<1>8. AcksIn(w) = AcksIn(v) \cup (IF w[1].kind = "status" THEN {w[1].id} ELSE {})
  BY ONLY <1>3, <1>4, <1>6, <1>7 DEF AcksIn
<1>9. SightIn(w) = SightIn(v) \cup (IF w[1].kind = "orders" THEN w[1].data ELSE {})
  BY ONLY <1>3, <1>5, <1>6, <1>7 DEF SightIn
<1> QED BY <1>1, <1>2, <1>3, <1>8, <1>9 DEF v

(* An empty wire says nothing. *)
LEMMA Silence == <<>> \in Seq(Frames) /\ AcksIn(<<>>) = {} /\ SightIn(<<>>) = {}
BY DEF AcksIn, SightIn

(* What the reader takes is one of the frames. *)
LEMMA TakenFrame ==
    ASSUME ClientTyped, NEW kind, Takes(kind)
    PROVE  /\ loop = "read" /\ wire # <<>> /\ Head(wire) = wire[1] /\ wire[1] \in Frames
           /\ wire[1].kind = kind /\ wire' = Tail(wire) /\ wire' \in Seq(Frames)
           /\ Len(wire') = Len(wire) - 1 /\ \A i \in 1 .. Len(wire) - 1 : wire'[i] = wire[i + 1]
           /\ Acks = Acks' \cup (IF kind = "status" THEN {wire[1].id} ELSE {})
           /\ Sight = Sight' \cup (IF kind = "orders" THEN wire[1].data ELSE {})
<1>1. loop = "read" /\ wire # <<>> /\ Head(wire).kind = kind /\ wire' = Tail(wire)
  BY DEF Takes
<1>2. wire \in Seq(Frames)
  BY DEF ClientTyped
<1> QED BY <1>1, <1>2, Taken DEF Acks, Sight

(* What the venue says is on the wire, if somebody reads it. *)
LEMMA SaidFrame ==
    ASSUME ClientTyped, NEW f \in Frames, Say(f)
    PROVE  /\ wire' \in Seq(Frames)
           /\ Acks \subseteq Acks' /\ Sight \subseteq Sight'
           /\ Acks' \subseteq Acks \cup (IF f.kind = "status" THEN {f.id} ELSE {})
           /\ Sight' \subseteq Sight \cup (IF f.kind = "orders" THEN f.data ELSE {})
           /\ loop = "read" /\ f.kind = "orders" => f.data \subseteq Sight'
           /\ loop = "read" => /\ Len(wire') = Len(wire) + 1
                               /\ \A i \in 1 .. Len(wire) : wire'[i] = wire[i]
           /\ loop # "read" => wire' = wire
<1>1. wire \in Seq(Frames)
  BY DEF ClientTyped
<1>2. CASE loop = "read"
  <2>1. wire' = Append(wire, f)
    BY <1>2 DEF Say
  <2>2. Len(wire') = Len(wire) + 1 /\ \A i \in 1 .. Len(wire) : wire'[i] = wire[i]
    BY <1>1, <2>1, AppendProperties
  <2> QED BY <1>1, <1>2, <2>1, <2>2, Appended DEF Acks, Sight
<1>3. CASE loop # "read"
  BY <1>1, <1>3 DEF Say, Acks, Sight
<1> QED BY <1>2, <1>3

(* The frames are what their names say. *)
LEMMA FramesAre ==
    /\ \A found \in BOOLEAN, lfr \in Nat :
         /\ WalletFrame(found, lfr) \in Frames
         /\ WalletFrame(found, lfr).kind = "wallet"
    /\ \A lfr \in Nat : AccountFrame(lfr) \in Frames /\ AccountFrame(lfr).kind = "account"
    /\ \A id \in Nat, a \in Answers :
         /\ StatusFrame(id, a) \in Frames
         /\ StatusFrame(id, a).kind = "status" /\ StatusFrame(id, a).id = id
    /\ \A data \in SUBSET Orders :
         /\ OrdersFrame(data) \in Frames
         /\ OrdersFrame(data).kind = "orders" /\ OrdersFrame(data).data = data
BY DEF WalletFrame, AccountFrame, StatusFrame, OrdersFrame, Frames

LEMMA OrdersAre == \A r \in Requests : OrderOf(r) \in Orders /\ OrderOf(r).id = r.id /\ OrderOf(r).of = r.of
BY DEF OrderOf, Requests, Orders

(* deliverOrder gives the waiter of an id an order of that id. *)
LEMMA DeliverIs ==
    ASSUME ClientTyped, NEW data \in SUBSET Orders, Deliver(data)
    PROVE  /\ update' \in [Places -> {NoWaiter, Nothing, Closed} \cup Places]
           /\ \A c \in Places :
                \/ update'[c] = update[c] /\ (update[c] = Nothing => \A o \in data : o.id # req[c].id)
                \/ update[c] = Nothing /\ \E o \in data : o.id = req[c].id /\ update'[c] = o.of
<1>1. \A c \in Places : Named(data, req[c].id) # {} =>
        \E o \in data : o.id = req[c].id /\ (CHOOSE o_1 \in Named(data, req[c].id) : TRUE) = o
  BY DEF Named
<1>2. \A o \in data : o.of \in Places
  BY DEF Orders
<1>3. ASSUME NEW c \in Places
      PROVE  \/ update'[c] = update[c] /\ (update[c] = Nothing => \A o \in data : o.id # req[c].id)
             \/ update[c] = Nothing /\ \E o \in data : o.id = req[c].id /\ update'[c] = o.of
  <2>1. update'[c] = IF update[c] = Nothing /\ Named(data, req[c].id) # {}
                     THEN (CHOOSE o \in Named(data, req[c].id) : TRUE).of ELSE update[c]
    BY DEF Deliver
  <2>2. CASE update[c] = Nothing /\ Named(data, req[c].id) # {}
    BY <1>1, <2>1, <2>2
  <2>3. CASE ~(update[c] = Nothing /\ Named(data, req[c].id) # {})
    BY <2>1, <2>3 DEF Named
  <2> QED BY <2>2, <2>3
<1>4. \A c \in Places : update'[c] \in {NoWaiter, Nothing, Closed} \cup Places
  BY <1>2, <1>3 DEF ClientTyped
<1>5. update' = [c \in Places |-> update'[c]]
  BY DEF Deliver
<1> QED BY <1>3, <1>4, <1>5

LEMMA MovesPastIs ==
    ASSUME nextReqID \in Nat, NEW ids \in SUBSET Nat, MovesPast(ids)
    PROVE  nextReqID' \in Nat /\ nextReqID <= nextReqID' /\ \A i \in ids : i < nextReqID'
BY DEF MovesPast

(* The types are kept. *)
LEMMA InitTyped == ASSUME ClientAssumption, ClientInit PROVE ClientTyped
<1>1. wire \in Seq(Frames)
  BY Silence DEF ClientInit
<1> QED BY <1>1 DEF ClientInit, ClientTyped, Loops, Calls, NoRequest

LEMMA NextTyped ==
    ASSUME ClientAssumption, ClientTyped, Waiters, [ClientNext]_clientVars
    PROVE  ClientTyped'
<1> USE DEF Loops, Calls
<1>1. CASE Dial
  <2>1. PICK lfr \in 0 .. top :
          wire' = <<WalletFrame(exists, lfr), OrdersFrame({OrderOf(r) : r \in Live})>>
    BY <1>1 DEF Dial
  <2>2. lfr \in Nat /\ exists \in BOOLEAN
    BY <2>1 DEF ClientTyped
  <2>3. {OrderOf(r) : r \in Live} \subseteq Orders
    BY OrdersAre DEF Live, ClientTyped
  <2>4. wire' \in Seq(Frames)
    BY <2>1, <2>2, <2>3, FramesAre
  <2> QED BY <1>1, <2>4 DEF Dial, RunOnly, accountVars, callVars, waiterVars, ClientTyped
<1>2. CASE DialFails \/ Rediscover
  BY <1>2 DEF DialFails, Rediscover, RunOnly, accountVars, callVars, waiterVars, ClientTyped
<1>3. CASE CloseClient
  BY <1>3 DEF CloseClient, Mishap, RunOnly, accountVars, callVars, waiterVars, ClientTyped
<1>4. CASE ReadFails
  BY <1>4, Silence DEF ReadFails, Mishap, RunOnly, accountVars, callVars, waiterVars, ClientTyped
<1>5. CASE SessionReturns
  BY <1>5 DEF SessionReturns, RunOnly, accountVars, callVars, waiterVars, Live, ClientTyped
<1>6. CASE FailInFlight
  <2>1. loop' \in Loops
    BY <1>6 DEF FailInFlight
  <2> QED BY <1>6, <2>1 DEF FailInFlight, Shut, RunOnly, accountVars, callVars, ClientTyped
<1>7. CASE ReadWallet
  <2>1. /\ wire' \in Seq(Frames) /\ Head(wire) \in Frames /\ Head(wire).kind = "wallet"
    BY <1>7, TakenFrame DEF ReadWallet
  <2>2. Head(wire).found \in BOOLEAN /\ Head(wire).lfr \in Nat
    BY <2>1 DEF Frames
  <2>3. nextReqID' \in Nat
    BY <1>7, <2>2, MovesPastIs DEF ReadWallet, ClientTyped
  <2>4. noAccount' \in BOOLEAN /\ account' \in BOOLEAN
    BY <1>7, <2>2 DEF ReadWallet, ClientTyped
  <2> QED BY <1>7, <2>1, <2>3, <2>4
          DEF ReadWallet, ReadOnly, callVars, waiterVars, exchangeVars, ClientTyped
<1>8. CASE ReadAccount
  <2>1. /\ wire' \in Seq(Frames) /\ Head(wire) \in Frames /\ Head(wire).kind = "account"
    BY <1>8, TakenFrame DEF ReadAccount
  <2>2. Head(wire).lfr \in Nat
    BY <2>1 DEF Frames
  <2>3. nextReqID' \in Nat
    BY <1>8, <2>2, MovesPastIs DEF ReadAccount, ClientTyped
  <2> QED BY <1>8, <2>1, <2>3
          DEF ReadAccount, ReadOnly, callVars, waiterVars, exchangeVars, ClientTyped
<1>9. CASE ReadStatus
  <2>1. /\ wire' \in Seq(Frames) /\ Head(wire) \in Frames /\ Head(wire).kind = "status"
    BY <1>9, TakenFrame DEF ReadStatus
  <2>2. Head(wire).answer \in Answers
    BY <2>1 DEF Frames
  <2> QED BY <1>9, <2>1, <2>2
          DEF ReadStatus, ReadOnly, accountVars, callVars, exchangeVars, ClientTyped
<1>10. CASE ReadOrders
  <2>1. /\ wire' \in Seq(Frames) /\ Head(wire) \in Frames /\ Head(wire).kind = "orders"
    BY <1>10, TakenFrame DEF ReadOrders
  <2>2. Head(wire).data \in SUBSET Orders
    BY <2>1 DEF Frames
  <2>3. update' \in [Places -> {NoWaiter, Nothing, Closed} \cup Places]
    BY <1>10, <2>2, DeliverIs DEF ReadOrders
  <2>4. {o.id : o \in Head(wire).data} \in SUBSET Nat
    BY <2>2 DEF Orders
  <2>5. nextReqID' \in Nat
    BY <1>10, <2>4, MovesPastIs DEF ReadOrders, ClientTyped
  <2> QED BY <1>10, <2>1, <2>3, <2>5
          DEF ReadOrders, ReadOnly, callVars, exchangeVars, ClientTyped
<1>11. ASSUME NEW c \in Places, Build(c)
       PROVE  ClientTyped'
  <2>1. PICK h \in KnownHeads :
          req' = [req EXCEPT ![c] = [id |-> nextReqID, last |-> IF h > 0 THEN h + OrderTTL ELSE 0]]
    BY <1>11 DEF Build
  <2>2. (IF h > 0 THEN h + OrderTTL ELSE 0) \in Nat
    BY <2>1 DEF KnownHeads, ClientTyped, ClientAssumption
  <2>3. req' \in [Places -> [id : Nat, last : Nat]]
    BY <2>1, <2>2 DEF ClientTyped
  <2> QED BY <1>11, <2>3 DEF Build, CallOnly, waiterVars, ClientTyped
<1>12. ASSUME NEW c \in Places, Submit(c)
       PROVE  ClientTyped'
  <2>1. req[c].id \in Nat /\ req[c].last \in Nat
    BY DEF ClientTyped
  <2>2. [id |-> req[c].id, of |-> c, last |-> req[c].last, live |-> FALSE] \in Requests
    BY <2>1 DEF Requests
  <2>3. requests' \subseteq Requests
    BY <1>12, <2>2 DEF Submit, ClientTyped
  <2> QED BY <1>12, <2>3 DEF Submit, CallOnly, callVars, ClientTyped
<1>13. ASSUME NEW c \in Places, NEW answer \in {"error"} \cup Places, Return(c, answer), CallOnly,
              mishaps' \in Nat
       PROVE  ClientTyped'
  BY <1>13 DEF Return, Leave, CallOnly, NoRequest, ClientTyped
<1>14. ASSUME NEW c \in Places, SubmitFails(c) \/ GiveUp(c)
       PROVE  ClientTyped'
  <2>1. mishaps' \in Nat
    BY <1>14 DEF SubmitFails, GiveUp, Mishap, ClientTyped
  <2> QED BY <1>13, <1>14, <2>1 DEF SubmitFails, GiveUp
<1>15. ASSUME NEW c \in Places, StatusTaken(c)
       PROVE  ClientTyped'
  <2>1. CASE Return(c, "error")
    BY <1>13, <1>15, <2>1 DEF StatusTaken, ClientTyped
  <2>2. CASE ~Return(c, "error")
    <3>1. /\ at' = [at EXCEPT ![c] = "order"] /\ acked' = [acked EXCEPT ![c] = blocks]
          /\ status' = [status EXCEPT ![c] = NoWaiter] /\ mishaps' = mishaps /\ CallOnly
          /\ UNCHANGED <<nextReqID, req, built, told, early, update, requests>>
      BY <1>15, <2>2 DEF StatusTaken
    <3> QED BY <3>1 DEF CallOnly, ClientTyped
  <2> QED BY <2>1, <2>2
<1>16. ASSUME NEW c \in Places, OrderTaken(c)
       PROVE  ClientTyped'
  <2>1. update[c] \in {Closed} \cup Places
    BY <1>16 DEF OrderTaken, Waiters, Waiting, ClientTyped
  <2> QED BY <1>13, <1>16, <2>1 DEF OrderTaken, ClientTyped
<1>17. ASSUME NEW c \in Places, TimesOut(c)
       PROVE  ClientTyped'
  <2>1. CASE Return(c, "error")
    BY <1>13, <1>17, <2>1 DEF TimesOut, ClientTyped
  <2>2. CASE ~Return(c, "error")
    BY <1>17, <2>2 DEF TimesOut, Unconfirmed, Leave, CallOnly, callVars, ClientTyped
  <2> QED BY <2>1, <2>2
<1>18. CASE NextBlock
  BY <1>18 DEF NextBlock, VenueOnly, accountVars, callVars, waiterVars, ClientTyped
<1>19. CASE CreateAccount
  <2>1. wire' \in Seq(Frames)
    BY <1>19, FramesAre, SaidFrame DEF CreateAccount, ClientTyped
  <2> QED BY <1>19, <2>1 DEF CreateAccount, VenueOnly, accountVars, callVars, waiterVars, ClientTyped
<1>20. ASSUME NEW r \in requests, Discard(r)
       PROVE  ClientTyped'
  <2>1. r.id \in Nat
    BY DEF ClientTyped, Requests
  <2>2. wire' \in Seq(Frames)
    BY <1>20, <2>1, FramesAre, SaidFrame DEF Discard, Answers
  <2> QED BY <1>20, <2>2 DEF Discard, VenueOnly, accountVars, callVars, waiterVars, ClientTyped
<1>21. ASSUME NEW r \in requests, Forward(r)
       PROVE  ClientTyped'
  <2>0. r \in Requests
    BY DEF ClientTyped
  <2>1. r.id \in Nat /\ [r EXCEPT !.live = TRUE] \in Requests
    BY <2>0 DEF Requests
  <2>2. wire' \in Seq(Frames)
    BY <1>21, <2>1, FramesAre, SaidFrame DEF Forward, Answers
  <2> QED BY <1>21, <2>1, <2>2 DEF Forward, VenueOnly, accountVars, callVars, waiterVars, ClientTyped
<1>22. ASSUME NEW r \in requests, Report(r)
       PROVE  ClientTyped'
  <2>1. r \in Requests /\ r.of \in Places /\ r.id \in Nat /\ {OrderOf(r)} \in SUBSET Orders
    BY OrdersAre DEF ClientTyped, Requests
  <2>2. wire' \in Seq(Frames)
    BY <1>22, <2>1, FramesAre, SaidFrame DEF Report, ClientTyped
  <2>3. requests' \subseteq Requests
    BY <1>22 DEF Report, ClientTyped
  <2>4. ran' \in [Places -> SUBSET Nat]
    <3> DEFINE ids == ran[r.of] \cup {r.id}
    <3>1. ran' = ran \/ ran' = [ran EXCEPT ![r.of] = ids]
      BY <1>22 DEF Report
    <3>2. ids \in SUBSET Nat
      BY <2>1 DEF ClientTyped
    <3>3. ran \in [Places -> SUBSET Nat]
      BY DEF ClientTyped
    <3> HIDE DEF ids
    <3> QED BY ONLY <2>1, <3>1, <3>2, <3>3, Zenon
  <2> QED BY <1>22, <2>2, <2>3, <2>4 DEF Report, VenueOnly, accountVars, callVars, waiterVars, ClientTyped
<1>23. CASE Restart
  <2>1. at' \in [Places -> Calls] /\ req' \in [Places -> [id : Nat, last : Nat]]
    BY <1>23 DEF Restart, NoRequest, ClientTyped
  <2>2. requests' \subseteq Requests /\ wire' \in Seq(Frames) /\ mishaps' \in Nat
    BY <1>23, Silence DEF Restart, Mishap, Live, ClientTyped
  <2> QED BY <1>23, <2>1, <2>2 DEF Restart, ClientTyped
<1>24. CASE UNCHANGED clientVars
  BY <1>24 DEF clientVars, ClientTyped
<1> QED
  BY <1>1, <1>2, <1>3, <1>4, <1>5, <1>6, <1>7, <1>8, <1>9, <1>10, <1>11, <1>12, <1>14, <1>15, <1>16,
     <1>17, <1>18, <1>19, <1>20, <1>21, <1>22, <1>23, <1>24
  DEF ClientNext, Run, Read, Place, Venue

-----------------------------------------------------------------------------
(* Who changes what *)

LEMMA RunLeaves == Run => RunOnly
BY DEF Run, Dial, DialFails, ReadFails, SessionReturns, FailInFlight, Rediscover, CloseClient

LEMMA ReadLeaves == Read => ReadOnly
BY DEF Read, ReadWallet, ReadAccount, ReadStatus, ReadOrders

LEMMA PlaceLeaves == \A c \in Places : Place(c) => CallOnly
BY DEF Place, Build, Submit, SubmitFails, StatusTaken, OrderTaken, GiveUp, TimesOut

LEMMA VenueLeaves == Venue => VenueOnly
BY DEF Venue, NextBlock, CreateAccount, Discard, Forward, Report

(* The ways a call leaves the place where it is. *)
LEMMA PlaceIs ==
    ASSUME NEW c \in Places, Place(c)
    PROVE  \/ Build(c) \/ Submit(c)
           \/ StatusTaken(c) /\ status[c] = "accepted"
           \/ TimesOut(c) /\ Leave(c, "again") /\ UNCHANGED <<callVars, told>>
           \/ at[c] \in {"submit", "again"} /\ Return(c, "error")
           \/ Waiting(c) /\ Return(c, "error")
           \/ at[c] = "order" /\ update[c] \notin {Nothing, Closed} /\ Return(c, update[c])
BY DEF Place, SubmitFails, StatusTaken, OrderTaken, GiveUp, TimesOut, Unconfirmed, Unheard, Waiting

-----------------------------------------------------------------------------
(* The channels *)

(* An answer is none of the signs for an empty, a closed or no channel. *)
LEMMA Signs ==
    ClientAssumption =>
        /\ NoWaiter \notin Places /\ Nothing \notin Places /\ Closed \notin Places
        /\ "error" \notin Places /\ Answers \cap {NoWaiter, Nothing, Closed} = {}
        /\ NoWaiter # Nothing /\ NoWaiter # Closed /\ Nothing # Closed
BY DEF ClientAssumption, NoWaiter, Nothing, Closed, Answers

LEMMA NextWaiters ==
    ASSUME ClientAssumption, ClientTyped, Waiters, [ClientNext]_clientVars
    PROVE  Waiters'
<1> USE DEF Waiters, Waiting
<1>1. CASE FailInFlight
  BY <1>1, Signs DEF FailInFlight, RunOnly, Shut
<1>2. CASE Run /\ ~FailInFlight
  <2>1. UNCHANGED waiterVars
    BY <1>2 DEF Run, Dial, DialFails, ReadFails, SessionReturns, Rediscover, CloseClient
  <2> QED BY <1>2, <2>1, RunLeaves DEF RunOnly, waiterVars
<1>3. CASE ReadStatus
  <2>1. Head(wire).answer \in Answers
    BY <1>3, TakenFrame DEF ReadStatus, Frames
  <2> QED BY <1>3, <2>1, Signs DEF ReadStatus, ReadOnly
<1>4. CASE ReadOrders
  <2>1. Head(wire).data \in SUBSET Orders
    BY <1>4, TakenFrame DEF ReadOrders, Frames
  <2>2. \A c \in Places : update'[c] = NoWaiter <=> update[c] = NoWaiter
    BY <1>4, <2>1, DeliverIs, Signs DEF ReadOrders, Orders
  <2> QED BY <1>4, <2>2 DEF ReadOrders, ReadOnly
<1>5. CASE ReadWallet \/ ReadAccount
  BY <1>5 DEF ReadWallet, ReadAccount, ReadOnly, waiterVars
<1>6. ASSUME NEW c \in Places, Place(c)
      PROVE  Waiters'
  <2>1. CASE Build(c)
    BY <1>6, <2>1 DEF Build, waiterVars, ClientTyped
  <2>2. CASE Submit(c)
    BY <2>2, Signs DEF Submit, ClientTyped
  <2>3. CASE StatusTaken(c) /\ status[c] = "accepted"
    <3>1. /\ at' = [at EXCEPT ![c] = "order"] /\ status' = [status EXCEPT ![c] = NoWaiter]
          /\ update' = update /\ at[c] = "status"
      BY <2>3 DEF StatusTaken, Closed
    <3> QED BY <3>1 DEF ClientTyped
  <2>4. ASSUME NEW place \in {"again", "done"}, Leave(c, place)
        PROVE  Waiters'
    BY <2>4 DEF Leave, ClientTyped
  <2> QED BY <1>6, <2>1, <2>2, <2>3, <2>4, PlaceIs DEF Return
<1>7. CASE Venue
  BY <1>7, VenueLeaves DEF VenueOnly, waiterVars
<1>8. CASE Restart
  BY <1>8 DEF Restart
<1>9. CASE UNCHANGED clientVars
  BY <1>9 DEF clientVars
<1> QED BY <1>1, <1>2, <1>3, <1>4, <1>5, <1>6, <1>7, <1>8, <1>9 DEF ClientNext, Read

LEMMA NextToldAtTheEnd ==
    ASSUME ClientAssumption, ClientTyped, ToldAtTheEnd, [ClientNext]_clientVars
    PROVE  ToldAtTheEnd'
<1> USE DEF ToldAtTheEnd
<1>1. CASE Run
  BY <1>1, RunLeaves DEF RunOnly
<1>2. CASE Read
  BY <1>2, ReadLeaves DEF ReadOnly
<1>3. ASSUME NEW c \in Places, Place(c)
      PROVE  ToldAtTheEnd'
  <2>1. CASE Build(c) \/ Submit(c)
    BY <2>1 DEF Build, Submit, ClientTyped
  <2>2. CASE StatusTaken(c) /\ status[c] = "accepted"
    <3>1. at' = [at EXCEPT ![c] = "order"] /\ told' = told /\ at[c] = "status"
      BY <2>2 DEF StatusTaken, Closed
    <3> QED BY <3>1 DEF ClientTyped
  <2>3. CASE TimesOut(c) /\ Leave(c, "again") /\ UNCHANGED <<callVars, told>>
    BY <2>3 DEF TimesOut, Unheard, Leave, ClientTyped
  <2>4. ASSUME NEW answer, Return(c, answer)
        PROVE  ToldAtTheEnd'
    BY <2>4 DEF Return, Leave, ClientTyped
  <2> QED BY <1>3, <2>1, <2>2, <2>3, <2>4, PlaceIs
<1>4. CASE Venue
  BY <1>4, VenueLeaves DEF VenueOnly
<1>5. CASE Restart
  BY <1>5 DEF Restart
<1>6. CASE UNCHANGED clientVars
  BY <1>6 DEF clientVars
<1> QED BY <1>1, <1>2, <1>3, <1>4, <1>5, <1>6 DEF ClientNext

LEMMA NextNobodyIsForgotten ==
    ASSUME ClientAssumption, ClientTyped, Waiters, NobodyIsForgotten, [ClientNext]_clientVars
    PROVE  NobodyIsForgotten'
<1> USE DEF NobodyIsForgotten
<1>1. CASE FailInFlight
  BY <1>1, Signs DEF FailInFlight, RunOnly, Shut
<1>2. CASE SessionReturns
  <2>1. status' = status /\ update' = update /\ left \subseteq left'
        /\ loop' # "stopped" /\ (loop' = "dial" => left' = left \cup {c \in Places : Waiting(c)})
    BY <1>2 DEF SessionReturns, waiterVars
  <2>2. \A c \in Places : status[c] = Nothing \/ update[c] = Nothing => Waiting(c)
    BY Signs DEF Waiters, Waiting
  <2> QED BY <2>1, <2>2
<1>3. CASE Dial \/ DialFails \/ ReadFails \/ Rediscover \/ CloseClient
  BY <1>3 DEF Dial, DialFails, ReadFails, Rediscover, CloseClient, waiterVars
<1>4. CASE Read
  <2>1. loop = "read" /\ loop' = "read"
    BY <1>4, ReadLeaves DEF Read, ReadWallet, ReadAccount, ReadStatus, ReadOrders, Takes, ReadOnly
  <2> QED BY <2>1
<1>5. ASSUME NEW c \in Places, Place(c)
      PROVE  NobodyIsForgotten'
  <2>0. loop' = loop /\ left' = left
    BY <1>5, PlaceLeaves DEF CallOnly
  <2>1. CASE Build(c)
    BY <2>0, <2>1 DEF Build, waiterVars
  <2>2. CASE Submit(c)
    BY <2>0, <2>2 DEF Submit, connected
  <2>3. CASE StatusTaken(c) /\ status[c] = "accepted"
    <3>1. status' = [status EXCEPT ![c] = NoWaiter] /\ update' = update
      BY <2>3 DEF StatusTaken, Closed
    <3> QED BY <2>0, <3>1, Signs DEF ClientTyped
  <2>4. ASSUME NEW place, Leave(c, place)
        PROVE  NobodyIsForgotten'
    BY <2>0, <2>4, Signs DEF Leave, ClientTyped
  <2> QED BY <1>5, <2>1, <2>2, <2>3, <2>4, PlaceIs DEF Return
<1>6. CASE Venue
  BY <1>6, VenueLeaves DEF VenueOnly, waiterVars
<1>7. CASE Restart
  BY <1>7, Signs DEF Restart
<1>8. CASE UNCHANGED clientVars
  BY <1>8 DEF clientVars
<1> QED BY <1>1, <1>2, <1>3, <1>4, <1>5, <1>6, <1>7, <1>8 DEF ClientNext, Run

-----------------------------------------------------------------------------
(* The venue's requests *)

(* What becomes of the requests: they are lost, written, forwarded or done. *)
LEMMA RequestsAre ==
    ASSUME ClientTyped, [ClientNext]_clientVars
    PROVE  \/ requests' \subseteq requests
           \/ \E c \in Places : Submit(c)
           \/ \E r \in requests : Forward(r)
<1>1. CASE Run
  BY <1>1 DEF Run, Dial, DialFails, ReadFails, SessionReturns, FailInFlight, Rediscover, CloseClient, Live
<1>2. CASE Read
  BY <1>2, ReadLeaves DEF ReadOnly, exchangeVars
<1>3. ASSUME NEW c \in Places, Place(c)
      PROVE  requests' = requests \/ Submit(c)
  BY <1>3 DEF Place, Build, SubmitFails, StatusTaken, OrderTaken, GiveUp, TimesOut, Unconfirmed, Return, Leave
<1>4. CASE NextBlock \/ CreateAccount \/ \E r \in requests : Discard(r) \/ Report(r)
  BY <1>4 DEF NextBlock, CreateAccount, Discard, Report
<1>5. CASE Restart
  BY <1>5 DEF Restart, Live
<1>6. CASE UNCHANGED clientVars
  BY <1>6 DEF clientVars
<1> QED BY <1>1, <1>2, <1>3, <1>4, <1>5, <1>6 DEF ClientNext, Venue

(* A request that is forwarded is the same but for being live. *)
LEMMA ForwardIs ==
    ASSUME ClientTyped, NEW r \in requests, Forward(r)
    PROVE  \E s \in Requests :
             /\ s.id = r.id /\ s.of = r.of /\ s.last = r.last /\ s.live /\ ~r.live
             /\ requests' = (requests \ {r}) \cup {s}
             /\ blocks < s.last /\ s.last <= blocks + OrderTTL /\ blocks' = blocks
             /\ connected /\ Say(StatusFrame(r.id, "accepted"))
<1>1. r \in Requests
  BY DEF ClientTyped
<1>2. /\ [r EXCEPT !.live = TRUE] \in Requests
      /\ [r EXCEPT !.live = TRUE].id = r.id /\ [r EXCEPT !.live = TRUE].of = r.of
      /\ [r EXCEPT !.live = TRUE].last = r.last /\ [r EXCEPT !.live = TRUE].live
  BY <1>1 DEF Requests
<1> QED BY <1>2 DEF Forward

(* A request that is written is the call's. *)
LEMMA SubmitIs ==
    ASSUME ClientTyped, NEW c \in Places, Submit(c)
    PROVE  \E s \in Requests :
             /\ s.id = req[c].id /\ s.of = c /\ s.last = req[c].last /\ ~s.live
             /\ requests' = requests \cup {s}
<1>1. req[c].id \in Nat /\ req[c].last \in Nat
  BY DEF ClientTyped
<1>2. [id |-> req[c].id, of |-> c, last |-> req[c].last, live |-> FALSE] \in Requests
  BY <1>1 DEF Requests
<1> QED BY <1>2 DEF Submit

LEMMA BlocksGrow ==
    ASSUME ClientTyped, [ClientNext]_clientVars
    PROVE  blocks' \in Nat /\ blocks <= blocks'
<1>1. CASE Run
  BY <1>1, RunLeaves DEF RunOnly, ClientTyped
<1>2. CASE Read
  BY <1>2, ReadLeaves DEF ReadOnly, exchangeVars, ClientTyped
<1>3. CASE \E c \in Places : Place(c)
  BY <1>3, PlaceLeaves DEF CallOnly, ClientTyped
<1>4. CASE Venue
  <2>1. blocks' = blocks + 1 \/ blocks' = blocks
    BY <1>4 DEF Venue, NextBlock, CreateAccount, Discard, Forward, Report
  <2> QED BY <2>1 DEF ClientTyped
<1>5. CASE Restart \/ UNCHANGED clientVars
  BY <1>5 DEF Restart, clientVars, ClientTyped
<1> QED BY <1>1, <1>2, <1>3, <1>4, <1>5 DEF ClientNext

LEMMA NextLiveIsShort ==
    ASSUME ClientAssumption, ClientTyped, LiveIsShort, [ClientNext]_clientVars
    PROVE  LiveIsShort'
<1>0. /\ blocks' \in Nat /\ blocks \in Nat /\ blocks <= blocks' /\ OrderTTL \in Nat
      /\ \A r \in requests : r.last \in Nat
  BY BlocksGrow DEF ClientTyped, ClientAssumption, Requests
<1>1. CASE requests' \subseteq requests
  BY <1>0, <1>1 DEF LiveIsShort
<1>2. ASSUME NEW c \in Places, Submit(c)
      PROVE  LiveIsShort'
  BY <1>0, <1>2, SubmitIs DEF LiveIsShort
<1>3. ASSUME NEW r \in requests, Forward(r)
      PROVE  LiveIsShort'
  BY <1>0, <1>3, ForwardIs DEF LiveIsShort
<1> QED BY <1>1, <1>2, <1>3, RequestsAre

LEMMA NextLostWithIt ==
    ASSUME ClientAssumption, ClientTyped, LostWithIt, [ClientNext]_clientVars
    PROVE  LostWithIt'
<1> USE DEF LostWithIt, connected
<1>1. CASE Run
  BY <1>1 DEF Run, Dial, DialFails, ReadFails, SessionReturns, FailInFlight, Rediscover, CloseClient, Live
<1>2. CASE Read
  BY <1>2, ReadLeaves DEF ReadOnly, exchangeVars
<1>3. ASSUME NEW c \in Places, Place(c)
      PROVE  LostWithIt'
  <2>1. loop' = loop
    BY <1>3, PlaceLeaves DEF CallOnly
  <2>2. requests' = requests \/ Submit(c)
    BY <1>3 DEF Place, Build, SubmitFails, StatusTaken, OrderTaken, GiveUp, TimesOut, Unconfirmed, Return, Leave
  <2> QED BY <2>1, <2>2 DEF Submit
<1>4. CASE Venue
  <2>1. loop' = loop
    BY <1>4, VenueLeaves DEF VenueOnly
  <2>2. requests' \subseteq requests \/ connected
    BY <1>4 DEF Venue, NextBlock, CreateAccount, Discard, Forward, Report
  <2> QED BY <2>1, <2>2
<1>5. CASE Restart
  BY <1>5 DEF Restart, Live
<1>6. CASE UNCHANGED clientVars
  BY <1>6 DEF clientVars
<1> QED BY <1>1, <1>2, <1>3, <1>4, <1>5, <1>6 DEF ClientNext

-----------------------------------------------------------------------------
(* The ids *)

(* What is acknowledged on the wire is what the gateway answers. *)
LEMMA AcksAre ==
    ASSUME ClientTyped, [ClientNext]_clientVars
    PROVE  \/ Acks' \subseteq Acks
           \/ \E r \in requests : /\ ~r.live /\ Acks' \subseteq Acks \cup {r.id}
                                  /\ Discard(r) \/ Forward(r)
<1>1. CASE Dial
  <2>1. PICK lfr \in 0 .. top :
          wire' = <<WalletFrame(exists, lfr), OrdersFrame({OrderOf(r) : r \in Live})>>
    BY <1>1 DEF Dial
  <2>2. Acks' = {}
    BY <2>1 DEF Acks, AcksIn, WalletFrame, OrdersFrame
  <2> QED BY <2>2
<1>2. CASE ReadFails \/ Restart
  BY <1>2, Silence DEF ReadFails, Restart, Acks
<1>3. CASE Read
  BY <1>3, TakenFrame DEF Read, ReadWallet, ReadAccount, ReadStatus, ReadOrders
<1>4. CASE wire' = wire
  BY <1>4 DEF Acks
<1>5. CASE CreateAccount
  <2>1. wire' = wire \/ Say(AccountFrame(top))
    BY <1>5 DEF CreateAccount
  <2>2. AccountFrame(top) \in Frames /\ AccountFrame(top).kind = "account"
    BY FramesAre DEF ClientTyped
  <2> QED BY <1>4, <2>1, <2>2, SaidFrame
<1>6. ASSUME NEW r \in requests, Discard(r) \/ Forward(r)
      PROVE  ~r.live /\ Acks' \subseteq Acks \cup {r.id}
  <2>0. r.id \in Nat
    BY DEF ClientTyped, Requests
  <2>1. ~r.live /\ \E answer \in Answers : Say(StatusFrame(r.id, answer))
    BY <1>6 DEF Discard, Forward, Answers
  <2> QED BY <2>0, <2>1, FramesAre, SaidFrame
<1>7. ASSUME NEW r \in requests, Report(r)
      PROVE  Acks' \subseteq Acks
  <2>1. r \in Requests /\ {OrderOf(r)} \in SUBSET Orders
    BY OrdersAre DEF ClientTyped
  <2>2. PICK f \in Frames : f = OrdersFrame({OrderOf(r)}) /\ f.kind = "orders"
    BY <2>1, FramesAre
  <2>3. wire' = wire \/ Say(f)
    BY <1>7, <2>2 DEF Report, Say
  <2> QED BY <2>2, <2>3, SaidFrame DEF Acks
<1>8. CASE Run /\ ~Dial /\ ~ReadFails
  BY <1>4, <1>8 DEF Run, DialFails, SessionReturns, FailInFlight, Rediscover, CloseClient
<1>9. CASE (\E c \in Places : Place(c)) \/ NextBlock \/ UNCHANGED clientVars
  BY <1>4, <1>9, PlaceLeaves DEF CallOnly, NextBlock, clientVars
<1> QED BY <1>1, <1>2, <1>3, <1>5, <1>6, <1>7, <1>8, <1>9 DEF ClientNext, Run, Venue

(* A call that goes on keeps its id, but for who builds one. *)
LEMMA CallsAre ==
    ASSUME ClientTyped, [ClientNext]_clientVars
    PROVE  \/ (\A c \in Places : ~Active(c)') /\ Restart
           \/ \E c \in Places : Build(c)
           \/ /\ nextReqID' \in Nat /\ nextReqID <= nextReqID'
              /\ \A c \in Places : Active(c)' => Active(c) /\ req'[c] = req[c]
<1> USE DEF Active
<1>1. CASE Run
  BY <1>1, RunLeaves DEF RunOnly, accountVars, callVars, ClientTyped
<1>2. CASE Read
  <2>1. at' = at /\ req' = req
    BY <1>2, ReadLeaves DEF ReadOnly, callVars
  <2>2. CASE ReadWallet
    <3>1. Head(wire).lfr \in Nat
      BY <2>2, TakenFrame DEF ReadWallet, Frames
    <3> QED BY <2>1, <2>2, <3>1, MovesPastIs DEF ReadWallet, ClientTyped
  <2>3. CASE ReadAccount
    <3>1. Head(wire).lfr \in Nat
      BY <2>3, TakenFrame DEF ReadAccount, Frames
    <3> QED BY <2>1, <2>3, <3>1, MovesPastIs DEF ReadAccount, ClientTyped
  <2>4. CASE ReadOrders
    <3>1. {o.id : o \in Head(wire).data} \in SUBSET Nat
      BY <2>4, TakenFrame DEF ReadOrders, Frames, Orders
    <3> QED BY <2>1, <2>4, <3>1, MovesPastIs DEF ReadOrders, ClientTyped
  <2>5. CASE ReadStatus
    BY <2>1, <2>5 DEF ReadStatus, accountVars, ClientTyped
  <2> QED BY <1>2, <2>2, <2>3, <2>4, <2>5 DEF Read
<1>3. ASSUME NEW c \in Places, Place(c), ~Build(c)
      PROVE  nextReqID' = nextReqID /\ \A d \in Places : Active(d)' => Active(d) /\ req'[d] = req[d]
  <2>1. CASE Submit(c)
    BY <2>1 DEF Submit, callVars, ClientTyped
  <2>2. CASE StatusTaken(c) /\ status[c] = "accepted"
    <3>1. at' = [at EXCEPT ![c] = "order"] /\ req' = req /\ at[c] = "status" /\ nextReqID' = nextReqID
      BY <2>2 DEF StatusTaken, Closed
    <3> QED BY <3>1 DEF ClientTyped
  <2>3. CASE TimesOut(c) /\ Leave(c, "again") /\ UNCHANGED <<callVars, told>>
    BY <2>3 DEF TimesOut, Unheard, Leave, callVars, ClientTyped
  <2>4. ASSUME NEW answer, Return(c, answer)
        PROVE  nextReqID' = nextReqID /\ \A d \in Places : Active(d)' => Active(d) /\ req'[d] = req[d]
    BY <2>4 DEF Return, Leave, ClientTyped
  <2> QED BY <1>3, <2>1, <2>2, <2>3, <2>4, PlaceIs
<1>4. CASE Venue
  BY <1>4, VenueLeaves DEF VenueOnly, accountVars, callVars, ClientTyped
<1>5. CASE Restart
  BY <1>5 DEF Restart
<1>6. CASE UNCHANGED clientVars
  BY <1>6 DEF clientVars, ClientTyped
<1> QED BY <1>1, <1>2, <1>3, <1>4, <1>5, <1>6 DEF ClientNext, ClientTyped

(* Who builds a request takes the next id. *)
LEMMA BuildIs ==
    ASSUME ClientTyped, NEW c \in Places, Build(c)
    PROVE  /\ req'[c].id = nextReqID /\ nextReqID' = nextReqID + 1
           /\ at[c] \in {"idle", "again"} /\ at'[c] = "submit"
           /\ \A d \in Places \ {c} : req'[d] = req[d] /\ at'[d] = at[d]
           /\ early' = IF sawOrders THEN early \ {c} ELSE early \cup {c}
           /\ UNCHANGED <<acked, told, status, update, requests, mishaps, loop, again, closing,
                          account, noAccount, sawOrders, blocks, exists, top, ran, wire, left>>
<1>1. PICK h \in KnownHeads :
        req' = [req EXCEPT ![c] = [id |-> nextReqID, last |-> IF h > 0 THEN h + OrderTTL ELSE 0]]
  BY DEF Build
<1>2. req'[c].id = nextReqID /\ \A d \in Places \ {c} : req'[d] = req[d]
  BY <1>1 DEF ClientTyped
<1>3. at[c] \in {"idle", "again"} /\ at' = [at EXCEPT ![c] = "submit"]
  BY DEF Build
<1>4. at'[c] = "submit" /\ \A d \in Places \ {c} : at'[d] = at[d]
  BY <1>3 DEF ClientTyped
<1> QED BY <1>2, <1>3, <1>4 DEF Build, CallOnly, waiterVars

LEMMA NextIdsAreCounted ==
    ASSUME ClientAssumption, ClientTyped, IdsAreCounted, [ClientNext]_clientVars
    PROVE  IdsAreCounted'
<1>0. /\ nextReqID \in Nat /\ \A c \in Places : req[c].id \in Nat
      /\ \A r \in requests : r.id \in Nat
      /\ \A id \in Acks : id \in Nat
  BY DEF ClientTyped, Requests, Acks, AcksIn
<1>1. ASSUME nextReqID' \in Nat, nextReqID <= nextReqID', ~Restart
      PROVE  /\ \A r \in requests' : ~r.live => r.id < nextReqID'
             /\ \A id \in Acks' : id < nextReqID'
  <2>1. \A r \in requests' : ~r.live => r.id < nextReqID'
    <3>1. CASE requests' \subseteq requests
      BY <1>0, <1>1, <3>1 DEF IdsAreCounted
    <3>2. ASSUME NEW c \in Places, Submit(c)
          PROVE  \A r \in requests' : ~r.live => r.id < nextReqID'
      <4>1. req[c].id < nextReqID
        BY <3>2 DEF IdsAreCounted, Active, Submit
      <4> QED BY <1>0, <1>1, <3>2, <4>1, SubmitIs DEF IdsAreCounted
    <3>3. ASSUME NEW r \in requests, Forward(r)
          PROVE  \A s \in requests' : ~s.live => s.id < nextReqID'
      BY <1>0, <1>1, <3>3, ForwardIs DEF IdsAreCounted
    <3> QED BY <3>1, <3>2, <3>3, RequestsAre
  <2>2. \A id \in Acks' : id \in Acks \/ \E r \in requests : ~r.live /\ r.id = id
    BY AcksAre
  <2> QED BY <1>0, <1>1, <2>1, <2>2 DEF IdsAreCounted
<1>2. CASE Restart
  <2>1. (\A c \in Places : ~Active(c)') /\ (\A r \in requests' : r.live) /\ Acks' = {}
    BY <1>2, Silence DEF Restart, Active, Live, Acks
  <2> QED BY <2>1 DEF IdsAreCounted
<1>3. ASSUME NEW c \in Places, Build(c), ~Restart
      PROVE  IdsAreCounted'
  <2>1. nextReqID' = nextReqID + 1 /\ req'[c].id = nextReqID
        /\ \A d \in Places \ {c} : req'[d] = req[d] /\ at'[d] = at[d]
    BY <1>3, BuildIs
  <2>2. \A d \in Places \ {c} : Active(d)' => Active(d) /\ req'[d] = req[d]
    BY <2>1 DEF Active
  <2>3. \A d \in Places \ {c} : Active(d)' => req'[d].id < nextReqID
    BY <2>2 DEF IdsAreCounted
  <2>4. \A d \in Places : Active(d)' => req'[d].id < nextReqID'
    BY <1>0, <2>1, <2>2, <2>3
  <2>5. \A d, e \in Places : Active(d)' /\ Active(e)' /\ req'[d].id = req'[e].id => d = e
    BY <1>0, <2>1, <2>2, <2>3 DEF IdsAreCounted
  <2>6. nextReqID' \in Nat /\ nextReqID <= nextReqID'
    BY <1>0, <2>1
  <2> QED BY <1>1, <1>3, <2>4, <2>5, <2>6 DEF IdsAreCounted
<1>4. ASSUME nextReqID' \in Nat, nextReqID <= nextReqID', ~Restart,
             \A c \in Places : Active(c)' => Active(c) /\ req'[c] = req[c]
      PROVE  IdsAreCounted'
  <2>1. \A d \in Places : Active(d)' => req'[d].id < nextReqID'
    BY <1>0, <1>4 DEF IdsAreCounted
  <2>2. \A d, e \in Places : Active(d)' /\ Active(e)' /\ req'[d].id = req'[e].id => d = e
    BY <1>4 DEF IdsAreCounted
  <2> QED BY <1>1, <1>4, <2>1, <2>2 DEF IdsAreCounted
<1> QED BY <1>2, <1>3, <1>4, CallsAre

(* Who is to write its request has it from before, and has not written it. *)
LEMMA ToWrite ==
    ASSUME ClientTyped, [ClientNext]_clientVars, NEW c \in Places, at'[c] = "submit"
    PROVE  Build(c) \/ (at[c] = "submit" /\ req'[c] = req[c])
<1>1. CASE Run
  BY <1>1, RunLeaves DEF RunOnly, callVars
<1>2. CASE Read
  BY <1>2, ReadLeaves DEF ReadOnly, callVars
<1>3. ASSUME NEW d \in Places, Place(d)
      PROVE  Build(c) \/ (at[c] = "submit" /\ req'[c] = req[c])
  <2>1. CASE Build(d)
    BY <2>1, BuildIs
  <2>2. CASE Submit(d)
    BY <2>2 DEF Submit, callVars, ClientTyped
  <2>3. CASE StatusTaken(d) /\ status[d] = "accepted"
    <3>1. at' = [at EXCEPT ![d] = "order"] /\ req' = req
      BY <2>3 DEF StatusTaken, Closed
    <3> QED BY <3>1 DEF ClientTyped
  <2>4. CASE TimesOut(d) /\ Leave(d, "again") /\ UNCHANGED <<callVars, told>>
    BY <2>4 DEF Leave, callVars, ClientTyped
  <2>5. ASSUME NEW answer, Return(d, answer)
        PROVE  at[c] = "submit" /\ req'[c] = req[c]
    BY <2>5 DEF Return, Leave, ClientTyped
  <2> QED BY <1>3, <2>1, <2>2, <2>3, <2>4, <2>5, PlaceIs
<1>4. CASE Venue
  BY <1>4, VenueLeaves DEF VenueOnly, callVars
<1>5. CASE Restart
  BY <1>5 DEF Restart
<1>6. CASE UNCHANGED clientVars
  BY <1>6 DEF clientVars
<1> QED BY <1>1, <1>2, <1>3, <1>4, <1>5, <1>6 DEF ClientNext

LEMMA NextAcknowledgedOnce ==
    ASSUME ClientAssumption, ClientTyped, IdsAreCounted, AcknowledgedOnce, [ClientNext]_clientVars
    PROVE  AcknowledgedOnce'
<1>0. /\ nextReqID \in Nat /\ \A c \in Places : req[c].id \in Nat
      /\ \A r \in requests : r.id \in Nat
  BY DEF ClientTyped, Requests
<1> DEFINE Fresh(id) == (\A r \in requests : r.id = id => r.live) /\ id \notin Acks
<1>1. \A c \in Places : Build(c) => Fresh(req'[c].id)
  BY <1>0, BuildIs DEF IdsAreCounted
<1>2. \A c \in Places : at[c] = "submit" => Fresh(req[c].id)
  BY DEF AcknowledgedOnce
<1>3. \A c \in Places : at'[c] = "submit" => Fresh(req'[c].id)
  BY <1>1, <1>2, ToWrite
<1>4. CASE Acks' \subseteq Acks /\ requests' \subseteq requests
  <2>1. \A c \in Places : at'[c] = "submit" =>
          (\A r \in requests' : r.id = req'[c].id => r.live) /\ req'[c].id \notin Acks'
    BY <1>3, <1>4
  <2> QED BY <1>4, <2>1 DEF AcknowledgedOnce
<1>5. ASSUME NEW c \in Places, Submit(c)
      PROVE  AcknowledgedOnce'
  <2>1. PICK s \in Requests : s.id = req[c].id /\ ~s.live /\ requests' = requests \cup {s}
    BY <1>5, SubmitIs
  <2>2. at[c] = "submit" /\ at' = [at EXCEPT ![c] = "status"] /\ req' = req /\ wire' = wire
    BY <1>5 DEF Submit, callVars, CallOnly
  <2>3. Acks' = Acks
    BY <2>2 DEF Acks
  <2>4. Fresh(s.id)
    BY <1>2, <2>1, <2>2
  <2>5. \A d \in Places : at'[d] = "submit" => d # c /\ at[d] = "submit"
    BY <2>2 DEF ClientTyped
  <2>6. \A d \in Places : at'[d] = "submit" => req'[d].id # s.id
    BY <2>1, <2>2, <2>5 DEF IdsAreCounted, Active
  <2>7. \A d \in Places : at'[d] = "submit" =>
          (\A r \in requests' : r.id = req'[d].id => r.live) /\ req'[d].id \notin Acks'
    BY <1>3, <2>1, <2>3, <2>6
  <2>8. \A r, q \in requests' : ~r.live /\ ~q.live /\ r.id = q.id => r = q
    BY <2>1, <2>4 DEF AcknowledgedOnce
  <2>9. \A r \in requests' : r.id \in Acks' => r.live
    BY <2>1, <2>3, <2>4 DEF AcknowledgedOnce
  <2> HIDE DEF Fresh
  <2> QED BY <2>7, <2>8, <2>9 DEF AcknowledgedOnce
<1>6. ASSUME NEW r \in requests, Discard(r) \/ Forward(r), ~r.live, Acks' \subseteq Acks \cup {r.id}
      PROVE  AcknowledgedOnce'
  <2>1. /\ \A s \in requests' : ~s.live => s \in requests /\ s # r
        /\ \A s \in requests' : s \in requests \/ (s.live /\ s.id = r.id)
    BY <1>6, ForwardIs DEF Discard
  <2>2. \A s \in requests' : ~s.live => s.id # r.id
    BY <1>6, <2>1 DEF AcknowledgedOnce
  <2>3. \A c \in Places : at'[c] = "submit" => req'[c].id # r.id
    BY <1>3, <1>6
  <2>4. \A c \in Places : at'[c] = "submit" =>
          (\A s \in requests' : s.id = req'[c].id => s.live) /\ req'[c].id \notin Acks'
    BY <1>3, <1>6, <2>1, <2>3
  <2>5. \A s, q \in requests' : ~s.live /\ ~q.live /\ s.id = q.id => s = q
    BY <2>1 DEF AcknowledgedOnce
  <2>6. \A s \in requests' : s.id \in Acks' => s.live
    BY <1>6, <2>1, <2>2 DEF AcknowledgedOnce
  <2> HIDE DEF Fresh
  <2> QED BY <2>4, <2>5, <2>6 DEF AcknowledgedOnce
<1>7. CASE ~(Acks' \subseteq Acks)
  BY <1>6, <1>7, AcksAre
<1>8. \A r \in requests : Forward(r) => ~r.live
  BY DEF Forward
<1>9. CASE Acks' \subseteq Acks /\ ~(requests' \subseteq requests)
  BY <1>5, <1>6, <1>8, <1>9, RequestsAre
<1> QED BY <1>4, <1>7, <1>9

-----------------------------------------------------------------------------
(* What is in sight *)

(* What is in sight on the wire is what the venue tells of its requests. *)
LEMMA SightIs ==
    ASSUME ClientTyped, [ClientNext]_clientVars
    PROVE  \A o \in Sight' : o \in Sight \/ \E r \in requests : o = OrderOf(r) /\ r.live
<1>1. CASE Dial
  <2>1. PICK lfr \in 0 .. top :
          wire' = <<WalletFrame(exists, lfr), OrdersFrame({OrderOf(r) : r \in Live})>>
    BY <1>1 DEF Dial
  <2>2. Sight' \subseteq {OrderOf(r) : r \in Live}
    BY <2>1 DEF Sight, SightIn, WalletFrame, OrdersFrame
  <2> QED BY <2>2 DEF Live
<1>2. CASE ReadFails \/ Restart
  BY <1>2, Silence DEF ReadFails, Restart, Sight
<1>3. CASE Read
  BY <1>3, TakenFrame DEF Read, ReadWallet, ReadAccount, ReadStatus, ReadOrders
<1>4. CASE wire' = wire
  BY <1>4 DEF Sight
<1>5. CASE CreateAccount
  <2>1. wire' = wire \/ Say(AccountFrame(top))
    BY <1>5 DEF CreateAccount
  <2>2. AccountFrame(top) \in Frames /\ AccountFrame(top).kind = "account"
    BY FramesAre DEF ClientTyped
  <2> QED BY <1>4, <2>1, <2>2, SaidFrame
<1>6. ASSUME NEW r \in requests, Discard(r) \/ Forward(r)
      PROVE  Sight' \subseteq Sight
  <2>0. r.id \in Nat
    BY DEF ClientTyped, Requests
  <2>1. \E answer \in Answers : Say(StatusFrame(r.id, answer))
    BY <1>6 DEF Discard, Forward, Answers
  <2> QED BY <2>0, <2>1, FramesAre, SaidFrame
<1>7. ASSUME NEW r \in requests, Report(r)
      PROVE  Sight' \subseteq Sight \cup {OrderOf(r)} /\ r.live
  <2>1. r \in Requests /\ {OrderOf(r)} \in SUBSET Orders
    BY OrdersAre DEF ClientTyped
  <2>2. PICK f \in Frames : f = OrdersFrame({OrderOf(r)}) /\ f.kind = "orders" /\ f.data = {OrderOf(r)}
    BY <2>1, FramesAre
  <2>3. wire' = wire \/ Say(f)
    BY <1>7, <2>2 DEF Report, Say
  <2>4. Sight' \subseteq Sight \cup {OrderOf(r)}
    BY <2>2, <2>3, SaidFrame DEF Sight
  <2> QED BY <1>7, <2>4 DEF Report
<1>8. CASE Run /\ ~Dial /\ ~ReadFails
  BY <1>4, <1>8 DEF Run, DialFails, SessionReturns, FailInFlight, Rediscover, CloseClient
<1>9. CASE (\E c \in Places : Place(c)) \/ NextBlock \/ UNCHANGED clientVars
  BY <1>4, <1>9, PlaceLeaves DEF CallOnly, NextBlock, clientVars
<1> QED BY <1>1, <1>2, <1>3, <1>5, <1>6, <1>7, <1>8, <1>9 DEF ClientNext, Run, Venue

(* Until it is read the snapshot is the next frame but for the wallet's. *)
LEMMA SnapshotStays ==
    ASSUME ClientTyped, SnapshotIsNext, loop = "read", wire' \in Seq(Frames),
           Len(wire') >= Len(wire), \A i \in 1 .. Len(wire) : wire'[i] = wire[i]
    PROVE  SnapshotIsNext' /\ Snapshot' = Snapshot
<1>1. wire # <<>> /\ (wire[1].kind = "wallet" => Len(wire) > 1) /\ wire \in Seq(Frames)
  BY DEF SnapshotIsNext, ClientTyped
<1>2. Len(wire) \in Nat /\ Len(wire) # 0
  BY <1>1, EmptySeq, LenProperties
<1>3. wire'[1] = wire[1] /\ (wire[1].kind = "wallet" => wire'[2] = wire[2])
  BY <1>1, <1>2
<1>4. Len(wire') \in Nat /\ Len(wire') # 0 /\ wire' # <<>>
  BY <1>2, EmptySeq, LenProperties
<1>5. Snapshot' = Snapshot
  BY <1>3 DEF Snapshot
<1> QED BY <1>1, <1>2, <1>3, <1>4, <1>5 DEF SnapshotIsNext

(* The wire only grows, but for what the reader takes and a session's end. *)
LEMMA WireGrows ==
    ASSUME ClientTyped, [ClientNext]_clientVars, loop = "read", loop' = "read", ~Read
    PROVE  /\ wire' \in Seq(Frames) /\ Len(wire') >= Len(wire)
           /\ \A i \in 1 .. Len(wire) : wire'[i] = wire[i]
<1>0. wire \in Seq(Frames) /\ Len(wire) \in Nat
  BY LenProperties DEF ClientTyped
<1>1. CASE wire' = wire
  BY <1>0, <1>1
<1>2. ASSUME NEW f \in Frames, Say(f)
      PROVE  /\ wire' \in Seq(Frames) /\ Len(wire') >= Len(wire)
             /\ \A i \in 1 .. Len(wire) : wire'[i] = wire[i]
  BY <1>0, <1>2, SaidFrame
<1>3. CASE Run
  BY <1>1, <1>3 DEF Run, Dial, DialFails, ReadFails, SessionReturns, FailInFlight, Rediscover, CloseClient
<1>4. CASE (\E c \in Places : Place(c)) \/ NextBlock \/ UNCHANGED clientVars
  BY <1>1, <1>4, PlaceLeaves DEF CallOnly, NextBlock, clientVars
<1>5. CASE CreateAccount
  BY <1>1, <1>2, <1>5, FramesAre DEF CreateAccount, ClientTyped
<1>6. ASSUME NEW r \in requests, Discard(r) \/ Forward(r)
      PROVE  \E f \in Frames : Say(f)
  <2>1. r.id \in Nat
    BY DEF ClientTyped, Requests
  <2> QED BY <1>6, <2>1, FramesAre DEF Discard, Forward, Answers
<1>7. ASSUME NEW r \in requests, Report(r)
      PROVE  wire' = wire \/ \E f \in Frames : Say(f)
  <2>1. OrdersFrame({OrderOf(r)}) \in Frames
    BY OrdersAre, FramesAre DEF ClientTyped
  <2> QED BY <1>7, <2>1 DEF Report
<1>8. CASE Restart
  BY <1>8 DEF Restart
<1> QED BY <1>1, <1>2, <1>3, <1>4, <1>5, <1>6, <1>7, <1>8 DEF ClientNext, Venue

LEMMA OnlyDialReads ==
    ASSUME [ClientNext]_clientVars, ~Dial
    PROVE  loop' = "read" => loop = "read"
<1>1. CASE Run
  BY <1>1 DEF Run, DialFails, ReadFails, SessionReturns, FailInFlight, Rediscover, CloseClient
<1>2. CASE Read
  BY <1>2, ReadLeaves DEF ReadOnly
<1>3. CASE \E c \in Places : Place(c)
  BY <1>3, PlaceLeaves DEF CallOnly
<1>4. CASE Venue
  BY <1>4, VenueLeaves DEF VenueOnly
<1>5. CASE Restart \/ UNCHANGED clientVars
  BY <1>5 DEF Restart, clientVars
<1> QED BY <1>1, <1>2, <1>3, <1>4, <1>5 DEF ClientNext

LEMMA OnlyReadsSee ==
    ASSUME [ClientNext]_clientVars, ~Read, ~Restart
    PROVE  sawOrders' = sawOrders
<1>1. CASE Run
  BY <1>1, RunLeaves DEF RunOnly, accountVars
<1>2. CASE \E c \in Places : Place(c)
  BY <1>2, PlaceLeaves DEF CallOnly
<1>3. CASE Venue
  BY <1>3, VenueLeaves DEF VenueOnly, accountVars
<1>4. CASE UNCHANGED clientVars
  BY <1>4 DEF clientVars
<1> QED BY <1>1, <1>2, <1>3, <1>4 DEF ClientNext

(* The requests of the venue stay below the counter. *)
LEMMA RequestsCounted ==
    ASSUME ClientTyped, IdsAreCounted, [ClientNext]_clientVars, ~Restart,
           \A r \in requests : Counted(r.id)
    PROVE  /\ \A r \in requests' : Counted(r.id)
           /\ nextReqID \in Nat /\ nextReqID' \in Nat /\ nextReqID <= nextReqID'
<1>1. nextReqID \in Nat /\ nextReqID' \in Nat /\ nextReqID <= nextReqID'
  BY CallsAre, BuildIs DEF ClientTyped
<1>2. CASE requests' \subseteq requests
  BY <1>1, <1>2
<1>3. ASSUME NEW c \in Places, Submit(c)
      PROVE  \A r \in requests' : Counted(r.id)
  <2>1. req[c].id < nextReqID
    BY <1>3 DEF IdsAreCounted, Active, Submit
  <2> QED BY <1>3, <2>1, SubmitIs DEF Counted
<1>4. ASSUME NEW r \in requests, Forward(r)
      PROVE  \A s \in requests' : Counted(s.id)
  BY <1>4, ForwardIs
<1> QED BY <1>1, <1>2, <1>3, <1>4, RequestsAre

LEMMA NextInSight ==
    ASSUME ClientAssumption, ClientTyped, IdsAreCounted, LostWithIt, InSight, [ClientNext]_clientVars
    PROVE  InSight'
<1>0. /\ \A r \in requests : r.id \in Nat /\ OrderOf(r) \in Orders /\ OrderOf(r).id = r.id
      /\ \A o \in Sight : o.id \in Nat
      /\ nextReqID \in Nat
  BY OrdersAre DEF ClientTyped, Requests, Sight, SightIn, Orders
<1>1. CASE Dial
  <2>1. PICK lfr \in 0 .. top :
          wire' = <<WalletFrame(exists, lfr), OrdersFrame({OrderOf(r) : r \in Live})>>
    BY <1>1 DEF Dial
  <2>2. /\ wire' # <<>> /\ wire'[1].kind = "wallet" /\ Len(wire') = 2
        /\ wire'[2].kind = "orders" /\ wire'[2].data = {OrderOf(r) : r \in Live}
    BY <2>1 DEF WalletFrame, OrdersFrame
  <2>3. SnapshotIsNext' /\ Snapshot' = wire'[2]
    BY <2>2 DEF SnapshotIsNext, Snapshot
  <2>4. /\ sawOrders' = sawOrders /\ nextReqID' = nextReqID /\ requests' = requests
        /\ \A r \in requests : r.live
    BY <1>1 DEF Dial, RunOnly, accountVars, LostWithIt, connected
  <2>5. \A r \in requests : OrderOf(r) \in Snapshot'.data
    BY <2>2, <2>3, <2>4 DEF Live
  <2>6. \A r \in requests : Counted(r.id)'
    <3>1. CASE sawOrders
      BY <2>4, <3>1 DEF InSight, Counted
    <3>2. CASE ~sawOrders
      BY <1>0, <2>4, <2>5, <3>2 DEF Counted
    <3> QED BY <3>1, <3>2
  <2>7. \A o \in Sight' : \E r \in requests : o.id = r.id
    <3>1. \A o \in Sight' : o \in {OrderOf(r) : r \in Live}
      BY <2>1 DEF Sight, SightIn, WalletFrame, OrdersFrame
    <3> QED BY <1>0, <3>1 DEF Live
  <2>8. \A o \in Sight' : Counted(o.id)'
    BY <2>6, <2>7
  <2> QED BY <2>3, <2>4, <2>6, <2>8 DEF InSight
<1>2. CASE Read
  <2>0. /\ loop = "read" /\ wire # <<>> /\ wire' \in Seq(Frames) /\ Sight' \subseteq Sight
        /\ Len(wire') = Len(wire) - 1 /\ \A i \in 1 .. Len(wire) - 1 : wire'[i] = wire[i + 1]
        /\ wire[1] \in Frames
    BY <1>2, TakenFrame DEF Read, ReadWallet, ReadAccount, ReadStatus, ReadOrders
  <2>1. /\ sawOrders \/ SnapshotIsNext
        /\ \A r \in requests : Counted(r.id)
        /\ \A o \in Sight : Counted(o.id)
    BY <2>0 DEF InSight
  <2>2. requests' = requests
    BY <1>2, ReadLeaves DEF ReadOnly, exchangeVars
  <2>3. nextReqID' \in Nat /\ nextReqID <= nextReqID'
    <3>1. ~Restart
      BY <1>2, <2>0, ReadLeaves DEF ReadOnly, Restart
    <3> QED BY <2>1, <3>1, RequestsCounted
  <2>4. CASE sawOrders
    <3>1. sawOrders'
      BY <1>2, <2>4 DEF Read, ReadWallet, ReadAccount, ReadStatus, ReadOrders, accountVars
    <3>2. \A id \in Nat : Counted(id) => Counted(id)'
      BY <1>0, <2>3, <2>4, <3>1 DEF Counted
    <3> QED BY <1>0, <2>0, <2>1, <2>2, <3>1, <3>2 DEF InSight
  <2>5. CASE ~sawOrders /\ ReadOrders
    <3>1. wire[1].kind = "orders" /\ wire[1].data \in SUBSET Orders /\ sawOrders'
          /\ MovesPast({o.id : o \in wire[1].data})
      BY <2>0, <2>5, TakenFrame DEF ReadOrders, Frames
    <3>2. Snapshot = wire[1]
      BY <3>1 DEF Snapshot
    <3>3. {o.id : o \in wire[1].data} \in SUBSET Nat
      BY <3>1 DEF Orders
    <3>4. \A o \in wire[1].data : o.id < nextReqID'
      BY <1>0, <3>1, <3>3, MovesPastIs
    <3>5. \A id \in Nat : Counted(id) => id < nextReqID'
      BY <1>0, <2>3, <3>2, <3>4 DEF Counted
    <3> QED BY <1>0, <2>0, <2>1, <2>2, <3>1, <3>5 DEF InSight, Counted
  <2>6. CASE ~sawOrders /\ ~ReadOrders
    <3>1. SnapshotIsNext
      BY <2>1, <2>6
    <3>2. ReadWallet
      BY <1>2, <2>6, <3>1, TakenFrame DEF Read, ReadAccount, ReadStatus, SnapshotIsNext, Snapshot
    <3>3. wire[1].kind = "wallet" /\ sawOrders' = sawOrders
      BY <3>2, TakenFrame DEF ReadWallet
    <3>4. Len(wire) > 1 /\ Len(wire) \in Nat /\ Snapshot = wire[2] /\ Snapshot.kind = "orders"
      BY <3>1, <3>3, LenProperties DEF SnapshotIsNext, Snapshot, ClientTyped
    <3>5. wire'[1] = wire[2]
      BY <2>0, <3>4
    <3>6. wire' # <<>>
      BY <2>0, <3>4, EmptySeq
    <3>7. SnapshotIsNext' /\ Snapshot' = Snapshot
      BY <3>4, <3>5, <3>6 DEF SnapshotIsNext, Snapshot
    <3>8. \A id \in Nat : Counted(id) => Counted(id)'
      BY <1>0, <2>3, <3>3, <3>7 DEF Counted
    <3> QED BY <1>0, <2>0, <2>1, <2>2, <3>7, <3>8 DEF InSight
  <2> QED BY <2>4, <2>5, <2>6
<1>3. CASE ~Dial /\ ~Read /\ ~Restart /\ (sawOrders' \/ loop' = "read")
  <2>1. sawOrders' = sawOrders /\ (sawOrders \/ (loop = "read" /\ loop' = "read"))
    BY <1>3, OnlyDialReads, OnlyReadsSee
  <2>2. /\ sawOrders \/ SnapshotIsNext
        /\ \A r \in requests : Counted(r.id)
        /\ \A o \in Sight : Counted(o.id)
    BY <2>1 DEF InSight
  <2>3. sawOrders \/ (SnapshotIsNext' /\ Snapshot' = Snapshot)
    BY <1>3, <2>1, <2>2, WireGrows, SnapshotStays
  <2>4. /\ \A r \in requests' : Counted(r.id)
        /\ nextReqID' \in Nat /\ nextReqID <= nextReqID'
    BY <1>3, <2>2, RequestsCounted
  <2>5. \A id \in Nat : Counted(id) => Counted(id)'
    BY <1>0, <2>1, <2>3, <2>4 DEF Counted
  <2>6. \A o \in Sight' : Counted(o.id)
    BY <1>0, <2>2, SightIs
  <2>7. (\A o \in Sight' : o.id \in Nat) /\ \A r \in requests' : r.id \in Nat
    <3>1. \A r \in requests' : r.id \in Nat
      BY <1>0, RequestsAre, SubmitIs, ForwardIs DEF Requests
    <3>2. \A o \in Sight' : o.id \in Nat
      BY DEF Sight, SightIn, Orders
    <3> QED BY <3>1, <3>2
  <2> QED BY <2>1, <2>3, <2>4, <2>5, <2>6, <2>7 DEF InSight
<1>4. CASE ~(sawOrders' \/ loop' = "read")
  BY <1>4 DEF InSight
<1>5. CASE Restart
  BY <1>4, <1>5 DEF Restart
<1> QED BY <1>1, <1>2, <1>3, <1>4, <1>5

-----------------------------------------------------------------------------
(* Whose an id is *)

(* Who is not early, and where its id and its channel come from. *)
LEMMA OwnersAre ==
    ASSUME ClientTyped, [ClientNext]_clientVars, NEW c \in Places \ early'
    PROVE  \/ Build(c) /\ sawOrders
           \/ c \notin early /\ (Active(c)' => Active(c) /\ req'[c] = req[c])
<1>1. ASSUME NEW d \in Places, Build(d)
      PROVE  \/ Build(c) /\ sawOrders
             \/ c \notin early /\ (Active(c)' => Active(c) /\ req'[c] = req[c])
  BY <1>1, BuildIs DEF Active
<1>2. CASE ~\E d \in Places : Build(d)
  <2>1. early' = early
    <3>1. CASE Run \/ Read \/ Venue
      BY <3>1, RunLeaves, ReadLeaves, VenueLeaves DEF RunOnly, ReadOnly, VenueOnly
    <3>2. CASE \E d \in Places : Place(d)
      BY <1>2, <3>2 DEF Place, Submit, SubmitFails, StatusTaken, OrderTaken, GiveUp, TimesOut,
                        Unconfirmed, Return, Leave
    <3>3. CASE Restart \/ UNCHANGED clientVars
      BY <3>3 DEF Restart, clientVars
    <3> QED BY <3>1, <3>2, <3>3 DEF ClientNext
  <2> QED BY <1>2, <2>1, CallsAre
<1> QED BY <1>1, <1>2

(* What is in a channel was there, or is an order in sight of its call. *)
LEMMA UpdatesAre ==
    ASSUME ClientAssumption, ClientTyped, Waiters, [ClientNext]_clientVars,
           NEW c \in Places, update'[c] \in Places
    PROVE  \/ update[c] = update'[c]
           \/ Active(c) /\ at'[c] = at[c] /\ req'[c] = req[c]
              /\ \E o \in Sight : o.id = req[c].id /\ o.of = update'[c]
<1>1. CASE FailInFlight
  BY <1>1, Signs DEF FailInFlight, Shut
<1>2. CASE Run /\ ~FailInFlight
  BY <1>2 DEF Run, Dial, DialFails, ReadFails, SessionReturns, Rediscover, CloseClient, waiterVars
<1>3. CASE Read
  <2>0. at' = at /\ req' = req
    BY <1>3, ReadLeaves DEF ReadOnly, callVars
  <2>1. CASE ReadOrders
    <3>1. wire[1].data \in SUBSET Orders /\ wire[1].data \subseteq Sight /\ Deliver(wire[1].data)
      BY <2>1, TakenFrame DEF ReadOrders, Frames
    <3>2. \/ update'[c] = update[c]
          \/ update[c] = Nothing /\ \E o \in wire[1].data : o.id = req[c].id /\ update'[c] = o.of
      BY <3>1, DeliverIs
    <3>3. update[c] = Nothing => Active(c)
      BY Signs DEF Waiters, Waiting, Active
    <3> QED BY <2>0, <3>1, <3>2, <3>3
  <2>2. CASE ~ReadOrders
    BY <1>3, <2>2 DEF Read, ReadWallet, ReadAccount, ReadStatus, waiterVars
  <2> QED BY <2>1, <2>2
<1>4. ASSUME NEW d \in Places, Place(d)
      PROVE  update[c] = update'[c]
  <2>1. CASE Build(d)
    BY <2>1, BuildIs
  <2>2. CASE Submit(d)
    BY <2>2, Signs DEF Submit, ClientTyped
  <2>3. CASE StatusTaken(d) /\ status[d] = "accepted"
    BY <2>3 DEF StatusTaken, Closed
  <2>4. ASSUME NEW place, Leave(d, place)
        PROVE  update[c] = update'[c]
    BY <2>4, Signs DEF Leave, ClientTyped
  <2> QED BY <1>4, <2>1, <2>2, <2>3, <2>4, PlaceIs DEF Return
<1>5. CASE Venue
  BY <1>5, VenueLeaves DEF VenueOnly, waiterVars
<1>6. CASE Restart
  BY <1>6, Signs DEF Restart
<1>7. CASE UNCHANGED clientVars
  BY <1>7 DEF clientVars
<1> QED BY <1>1, <1>2, <1>3, <1>4, <1>5, <1>6, <1>7 DEF ClientNext

LEMMA NextOwnIds ==
    ASSUME ClientAssumption, ClientTyped, Waiters, IdsAreCounted, InSight, OwnIds,
           [ClientNext]_clientVars
    PROVE  OwnIds'
<1>0. /\ nextReqID \in Nat
      /\ \A r \in requests : r.id \in Nat /\ OrderOf(r).id = r.id /\ OrderOf(r).of = r.of
      /\ \A o \in Sight : o.id \in Nat
  BY OrdersAre DEF ClientTyped, Requests, Sight, SightIn, Orders
<1> SUFFICES ASSUME NEW c \in Places \ early'
             PROVE  /\ Active(c)' => /\ \A r \in requests' : r.id = req'[c].id => r.of = c
                                     /\ \A o \in Sight' : o.id = req'[c].id => o.of = c
                    /\ update'[c] \in Places => update'[c] = c
  BY DEF OwnIds
<1>1. CASE Build(c) /\ sawOrders
  <2>1. /\ req'[c].id = nextReqID /\ requests' = requests /\ wire' = wire /\ update' = update
        /\ at[c] \in {"idle", "again"}
    BY <1>1, BuildIs
  <2>2. /\ \A r \in requests : r.id < nextReqID
        /\ \A o \in Sight : o.id < nextReqID
    BY <1>1 DEF InSight, Counted
  <2>3. Sight' = Sight
    BY <2>1 DEF Sight
  <2>4. update[c] = NoWaiter
    BY <2>1 DEF Waiters, Waiting
  <2> QED BY <1>0, <2>1, <2>2, <2>3, <2>4, Signs
<1>2. CASE c \notin early /\ (Active(c)' => Active(c) /\ req'[c] = req[c])
  <2>1. /\ Active(c) => /\ \A r \in requests : r.id = req[c].id => r.of = c
                        /\ \A o \in Sight : o.id = req[c].id => o.of = c
        /\ update[c] \in Places => update[c] = c
    BY <1>2 DEF OwnIds
  <2>2. ASSUME Active(c)', NEW r \in requests', r.id = req'[c].id
        PROVE  r.of = c
    <3>1. Active(c) /\ req'[c] = req[c]
      BY <1>2, <2>2
    <3>2. CASE r \in requests
      BY <2>1, <2>2, <3>1, <3>2
    <3>3. ASSUME NEW d \in Places, Submit(d), r \notin requests
          PROVE  r.of = c
      <4>1. r.id = req[d].id /\ r.of = d /\ Active(d)
        BY <3>3, SubmitIs DEF Submit, Active
      <4> QED BY <2>2, <3>1, <4>1 DEF IdsAreCounted
    <3>4. ASSUME NEW q \in requests, Forward(q), r \notin requests
          PROVE  r.of = c
      <4>1. r.id = q.id /\ r.of = q.of
        BY <3>4, ForwardIs
      <4> QED BY <2>1, <2>2, <3>1, <4>1
    <3> QED BY <3>2, <3>3, <3>4, RequestsAre
  <2>3. ASSUME Active(c)', NEW o \in Sight', o.id = req'[c].id
        PROVE  o.of = c
    <3>1. Active(c) /\ req'[c] = req[c]
      BY <1>2, <2>3
    <3> QED BY <1>0, <2>1, <2>3, <3>1, SightIs
  <2>4. update'[c] \in Places => update'[c] = c
    BY <2>1, UpdatesAre
  <2> QED BY <2>2, <2>3, <2>4
<1> QED BY <1>1, <1>2, OwnersAre

(* What a call returns is what its channel held. *)
LEMMA NextAnswersAreTheirOwn ==
    ASSUME ClientAssumption, ClientTyped, OwnIds, ToldAtTheEnd, AnswersAreTheirOwn,
           [ClientNext]_clientVars
    PROVE  AnswersAreTheirOwn'
<1> SUFFICES ASSUME NEW c \in Places \ early', told'[c] \in Places
             PROVE  told'[c] = c
  BY DEF AnswersAreTheirOwn
<1>1. told'[c] = told[c] \/ (told'[c] = update[c] /\ early' = early)
  <2>1. CASE Run \/ Read \/ Venue
    BY <2>1, RunLeaves, ReadLeaves, VenueLeaves DEF RunOnly, ReadOnly, VenueOnly
  <2>2. ASSUME NEW d \in Places, Place(d)
        PROVE  told'[c] = told[c] \/ (told'[c] = update[c] /\ early' = early)
    <3>1. CASE Build(d)
      BY <3>1, BuildIs
    <3>2. CASE Submit(d)
      BY <3>2 DEF Submit
    <3>3. CASE StatusTaken(d) /\ status[d] = "accepted"
      BY <3>3 DEF StatusTaken, Closed
    <3>4. CASE TimesOut(d) /\ Leave(d, "again") /\ UNCHANGED <<callVars, told>>
      BY <3>4
    <3>5. CASE Return(d, "error")
      <4>1. told' = [told EXCEPT ![d] = "error"]
        BY <3>5 DEF Return
      <4> QED BY <4>1, Signs DEF ClientTyped
    <3>6. CASE at[d] = "order" /\ Return(d, update[d])
      <4>1. told' = [told EXCEPT ![d] = update[d]] /\ early' = early
        BY <3>6 DEF Return, Leave
      <4> QED BY <4>1 DEF ClientTyped
    <3> QED BY <2>2, <3>1, <3>2, <3>3, <3>4, <3>5, <3>6, PlaceIs
  <2>3. CASE Restart \/ UNCHANGED clientVars
    BY <2>3 DEF Restart, clientVars
  <2> QED BY <2>1, <2>2, <2>3 DEF ClientNext
<1>2. CASE told'[c] = update[c] /\ early' = early
  BY <1>2 DEF OwnIds
<1>3. CASE told'[c] = told[c] /\ c \notin early
  BY <1>3 DEF AnswersAreTheirOwn
<1>4. CASE told'[c] = told[c] /\ c \in early
  <2>1. Build(c)
    BY <1>4, OwnersAre
  <2>2. told[c] = Nothing
    BY <2>1, BuildIs DEF ToldAtTheEnd
  <2> QED BY <1>4, <2>2, Signs
<1> QED BY <1>1, <1>2, <1>3, <1>4

-----------------------------------------------------------------------------
(* One order at a time *)

LEMMA LeftGrows == [ClientNext]_clientVars => left \subseteq left'
<1>1. ASSUME Run PROVE left \subseteq left'
  BY <1>1 DEF Run, Dial, DialFails, ReadFails, SessionReturns, FailInFlight, Rediscover, CloseClient
<1>2. ASSUME \/ Read \/ Venue \/ Restart \/ UNCHANGED clientVars
             \/ \E c \in Places : Place(c)
      PROVE  left \subseteq left'
  BY <1>2, ReadLeaves, VenueLeaves, PlaceLeaves DEF ReadOnly, VenueOnly, CallOnly, Restart, clientVars
<1> QED BY <1>1, <1>2 DEF ClientNext

(* Who executes is a request that lives and whose last block is to come. *)
LEMMA RanIs ==
    ASSUME ClientTyped, [ClientNext]_clientVars
    PROVE  \/ ran' = ran
           \/ \E r \in requests :
                /\ r.live /\ blocks <= r.last /\ blocks' = blocks /\ requests' = requests \ {r}
                /\ VenueOnly /\ Say(OrdersFrame({OrderOf(r)}))
                /\ ran'[r.of] = ran[r.of] \cup {r.id}
                /\ \A c \in Places \ {r.of} : ran'[c] = ran[c]
<1>1. CASE Run \/ Read \/ Restart \/ (\E c \in Places : Place(c)) \/ UNCHANGED clientVars
  BY <1>1, RunLeaves, ReadLeaves, PlaceLeaves
     DEF RunOnly, ReadOnly, exchangeVars, CallOnly, Restart, clientVars
<1>2. CASE NextBlock \/ CreateAccount \/ \E r \in requests : Discard(r) \/ Forward(r)
  BY <1>2 DEF NextBlock, CreateAccount, Discard, Forward
<1>3. ASSUME NEW r \in requests, Report(r), ran' # ran
      PROVE  /\ r.live /\ blocks <= r.last /\ blocks' = blocks /\ requests' = requests \ {r}
             /\ VenueOnly /\ Say(OrdersFrame({OrderOf(r)}))
             /\ ran'[r.of] = ran[r.of] \cup {r.id}
             /\ \A c \in Places \ {r.of} : ran'[c] = ran[c]
  <2>1. /\ r.live /\ blocks <= r.last /\ blocks' = blocks /\ requests' = requests \ {r}
        /\ VenueOnly /\ Say(OrdersFrame({OrderOf(r)}))
        /\ ran' = [ran EXCEPT ![r.of] = @ \cup {r.id}]
    BY <1>3 DEF Report
  <2>2. r.of \in Places
    BY DEF ClientTyped, Requests
  <2>3. /\ ran'[r.of] = ran[r.of] \cup {r.id}
        /\ \A c \in Places \ {r.of} : ran'[c] = ran[c]
    BY <2>1, <2>2 DEF ClientTyped
  <2> QED BY <2>1, <2>3
<1> QED BY <1>1, <1>2, <1>3 DEF ClientNext, Venue

(* What becomes of one call's place, request, acknowledgement and channels. *)
LEMMA CallIs ==
    ASSUME ClientAssumption, ClientTyped, Waiters, [ClientNext]_clientVars, NEW c \in Places
    PROVE  \/ Build(c)
           \/ Submit(c)
           \/ StatusTaken(c) /\ status[c] = "accepted"
           \/ TimesOut(c) /\ Leave(c, "again") /\ UNCHANGED <<callVars, told>>
           \/ at'[c] = "done" /\ status'[c] = NoWaiter /\ update'[c] = NoWaiter
           \/ /\ at'[c] = at[c]
              /\ at[c] = "idle" \/ (req'[c] = req[c] /\ acked'[c] = acked[c])
              /\ update'[c] = Nothing => update[c] = Nothing
              /\ status'[c] = "accepted" =>
                   \/ status[c] = "accepted"
                   \/ status[c] = Nothing /\ ReadStatus /\ req[c].id \in Acks
<1>1. CASE FailInFlight
  <2>1. /\ status'[c] = IF status[c] = Nothing THEN Closed ELSE status[c]
        /\ update'[c] = IF update[c] = Nothing THEN Closed ELSE update[c]
    BY <1>1 DEF FailInFlight, Shut
  <2> QED BY <1>1, <2>1, Signs DEF FailInFlight, RunOnly, callVars, Answers
<1>2. CASE Run /\ ~FailInFlight
  <2>1. UNCHANGED waiterVars
    BY <1>2 DEF Run, Dial, DialFails, ReadFails, SessionReturns, Rediscover, CloseClient
  <2> QED BY <1>2, <2>1, RunLeaves DEF RunOnly, waiterVars, callVars
<1>3. CASE ReadStatus
  <2>1. /\ status' = [d \in Places |-> IF status[d] = Nothing /\ req[d].id = wire[1].id
                                      THEN wire[1].answer ELSE status[d]]
        /\ wire[1].id \in Acks /\ update' = update /\ at' = at /\ req' = req /\ acked' = acked
    BY <1>3, TakenFrame DEF ReadStatus, ReadOnly, callVars
  <2> QED BY <1>3, <2>1
<1>4. CASE ReadOrders
  <2>1. wire[1].data \in SUBSET Orders /\ Deliver(wire[1].data)
    BY <1>4, TakenFrame DEF ReadOrders, Frames
  <2>2. update'[c] = Nothing => update[c] = Nothing
    BY <2>1, DeliverIs
  <2> QED BY <1>4, <2>2 DEF ReadOrders, ReadOnly, callVars
<1>5. CASE ReadWallet \/ ReadAccount
  BY <1>5 DEF ReadWallet, ReadAccount, ReadOnly, callVars, waiterVars
<1>6. ASSUME NEW d \in Places, Place(d), d # c
      PROVE  /\ at'[c] = at[c] /\ req'[c] = req[c] /\ acked'[c] = acked[c]
             /\ update'[c] = update[c] /\ status'[c] = status[c]
  <2>1. CASE Build(d)
    BY <1>6, <2>1, BuildIs
  <2>2. CASE Submit(d)
    BY <1>6, <2>2 DEF Submit, callVars, ClientTyped
  <2>3. CASE StatusTaken(d) /\ status[d] = "accepted"
    <3>1. /\ at' = [at EXCEPT ![d] = "order"] /\ status' = [status EXCEPT ![d] = NoWaiter]
          /\ update' = update /\ req' = req /\ acked' = [acked EXCEPT ![d] = blocks]
      BY <2>3 DEF StatusTaken, Closed
    <3> QED BY <1>6, <3>1 DEF ClientTyped
  <2>4. CASE TimesOut(d) /\ Leave(d, "again") /\ UNCHANGED <<callVars, told>>
    BY <1>6, <2>4 DEF Leave, callVars, ClientTyped
  <2>5. ASSUME NEW answer, Return(d, answer)
        PROVE  /\ at'[c] = at[c] /\ req'[c] = req[c] /\ acked'[c] = acked[c]
               /\ update'[c] = update[c] /\ status'[c] = status[c]
    BY <1>6, <2>5 DEF Return, Leave, ClientTyped
  <2> QED BY <1>6, <2>1, <2>2, <2>3, <2>4, <2>5, PlaceIs
<1>7. CASE Place(c)
  <2>1. ASSUME NEW answer, Return(c, answer)
        PROVE  at'[c] = "done" /\ status'[c] = NoWaiter /\ update'[c] = NoWaiter
    BY <2>1 DEF Return, Leave, ClientTyped
  <2> QED BY <1>7, <2>1, PlaceIs
<1>8. CASE Venue
  BY <1>8, VenueLeaves DEF VenueOnly, waiterVars, callVars
<1>9. CASE Restart
  BY <1>9, Signs DEF Restart, NoWaiter, Nothing
<1>10. CASE UNCHANGED clientVars
  BY <1>10 DEF clientVars
<1> QED BY <1>1, <1>2, <1>3, <1>4, <1>5, <1>6, <1>7, <1>8, <1>9, <1>10 DEF ClientNext, Read

LEMMA NextOneAtATime ==
    ASSUME ClientAssumption, ClientTyped, Waiters, AcknowledgedOnce, LiveIsShort,
           OneAtATime, Heard, [ClientNext]_clientVars
    PROVE  OneAtATime'
<1>0. /\ blocks \in Nat /\ blocks' \in Nat /\ blocks <= blocks' /\ OrderTTL \in Nat
      /\ \A r \in requests : r.last \in Nat
      /\ \A d \in Places : acked[d] \in Nat
  BY BlocksGrow DEF ClientTyped, ClientAssumption, Requests
<1> SUFFICES ASSUME NEW c \in Places \ left'
             PROVE  /\ at'[c] = "idle" => ran'[c] = {} /\ \A r \in requests' : r.of # c
                    /\ at'[c] \in {"submit", "again"} =>
                         ran'[c] = {} /\ \A r \in requests' : r.of = c => Spent(r)'
                    /\ Waiting(c)' => \A r \in requests' : r.of = c => r.id = req'[c].id \/ Spent(r)'
                    /\ status'[c] = "accepted" => \A r \in requests' : r.of = c => r.live
                    /\ at'[c] = "order" =>
                         \A r \in requests' : r.of = c => r.live /\ r.last <= acked'[c] + OrderTTL
  BY DEF OneAtATime, Spent
<1>1. /\ c \in Places \ left
      /\ at[c] = "idle" => ran[c] = {} /\ \A r \in requests : r.of # c
      /\ at[c] \in {"submit", "again"} =>
           ran[c] = {} /\ \A r \in requests : r.of = c => Spent(r)
      /\ Waiting(c) => \A r \in requests : r.of = c => r.id = req[c].id \/ Spent(r)
      /\ status[c] = "accepted" => \A r \in requests : r.of = c => r.live
      /\ at[c] = "order" => \A r \in requests : r.of = c => r.live /\ r.last <= acked[c] + OrderTTL
  BY LeftGrows DEF OneAtATime
<1>2. \A r \in requests : Spent(r) => Spent(r)'
  BY <1>0 DEF Spent
<1>3. CASE Build(c)
  <2>1. at'[c] = "submit" /\ ran' = ran /\ requests' = requests /\ status' = status
        /\ at[c] \in {"idle", "again"}
    BY <1>3, BuildIs
  <2>2. status[c] # "accepted"
    BY <2>1 DEF Waiters, NoWaiter
  <2> QED BY <1>1, <1>2, <2>1, <2>2 DEF Waiting
<1>4. CASE Submit(c)
  <2>1. PICK s \in Requests : s.id = req[c].id /\ requests' = requests \cup {s}
    BY <1>4, SubmitIs
  <2>2. at[c] = "submit" /\ at'[c] = "status" /\ status'[c] = Nothing /\ req' = req
    BY <1>4 DEF Submit, callVars, ClientTyped
  <2> QED BY <1>1, <1>2, <2>1, <2>2 DEF Nothing
<1>5. CASE StatusTaken(c) /\ status[c] = "accepted"
  <2>1. /\ at[c] = "status" /\ at'[c] = "order" /\ status'[c] = NoWaiter /\ req' = req
        /\ acked'[c] = blocks /\ requests' = requests
    <3>1. /\ at' = [at EXCEPT ![c] = "order"] /\ status' = [status EXCEPT ![c] = NoWaiter]
          /\ req' = req /\ acked' = [acked EXCEPT ![c] = blocks] /\ requests' = requests
          /\ at[c] = "status"
      BY <1>5 DEF StatusTaken, Closed
    <3> QED BY <3>1 DEF ClientTyped
  <2>2. \A r \in requests : r.live => r.last <= blocks + OrderTTL
    BY DEF LiveIsShort
  <2> QED BY <1>1, <1>2, <1>5, <2>1, <2>2 DEF Waiting, NoWaiter
<1>6. CASE TimesOut(c) /\ Leave(c, "again") /\ UNCHANGED <<callVars, told>>
  <2>1. /\ at[c] = "order" /\ update[c] = Nothing /\ loop = "read" /\ ~OnItsWay(req[c].id)
        /\ blocks > acked[c] + OrderTTL
    BY <1>1, <1>6 DEF TimesOut, Unheard
  <2>2. /\ at'[c] = "again" /\ status'[c] = NoWaiter /\ requests' = requests /\ ran' = ran
    BY <1>6 DEF TimesOut, Leave, CallOnly, ClientTyped
  <2>3. \A r \in requests : r.of = c => Spent(r)
    BY <1>0, <1>1, <2>1 DEF Spent
  <2>4. ~\E o \in Sight : o.id = req[c].id
    BY <2>1 DEF OnItsWay, Named, Sight, SightIn
  <2>5. ran[c] = {}
    BY <1>1, <2>1, <2>4 DEF Heard, Waiting
  <2> QED BY <1>2, <2>2, <2>3, <2>5 DEF Waiting, NoWaiter
<1>7. CASE at'[c] = "done" /\ status'[c] = NoWaiter
  BY <1>7 DEF Waiting, NoWaiter
<1>8. ASSUME at'[c] = at[c], ~Build(c), ~Submit(c),
             at[c] = "idle" \/ (req'[c] = req[c] /\ acked'[c] = acked[c]),
             status'[c] = "accepted" =>
                \/ status[c] = "accepted"
                \/ status[c] = Nothing /\ ReadStatus /\ req[c].id \in Acks
      PROVE  /\ at'[c] = "idle" => ran'[c] = {} /\ \A r \in requests' : r.of # c
             /\ at'[c] \in {"submit", "again"} =>
                  ran'[c] = {} /\ \A r \in requests' : r.of = c => Spent(r)'
             /\ Waiting(c)' => \A r \in requests' : r.of = c => r.id = req'[c].id \/ Spent(r)'
             /\ status'[c] = "accepted" => \A r \in requests' : r.of = c => r.live
             /\ at'[c] = "order" =>
                  \A r \in requests' : r.of = c => r.live /\ r.last <= acked'[c] + OrderTTL
  <2>1. at[c] \in {"idle", "submit", "again"} => ran'[c] = {}
    <3>1. CASE ran' = ran
      BY <1>1, <3>1
    <3>2. ASSUME NEW r \in requests, r.live, blocks <= r.last, r.of = c
          PROVE  at[c] \notin {"idle", "submit", "again"}
      BY <1>0, <1>1, <3>2 DEF Spent
    <3> QED BY <1>1, <3>1, <3>2, RanIs
  <2>2. \A r \in requests' : r.of = c =>
          \E q \in requests : /\ q.of = c /\ q.id = r.id /\ q.last = r.last
                              /\ q.live => r.live
                              /\ Spent(q) => Spent(r)'
    <3>1. CASE requests' \subseteq requests
      BY <1>2, <3>1
    <3>2. ASSUME NEW d \in Places, Submit(d)
          PROVE  \A r \in requests' : r.of = c => r \in requests
      BY <1>8, <3>2, SubmitIs
    <3>3. ASSUME NEW p \in requests, Forward(p), NEW r \in requests', r \notin requests
          PROVE  r.of = p.of /\ r.id = p.id /\ r.last = p.last /\ r.live /\ ~Spent(p)
      BY <3>3, ForwardIs DEF Spent
    <3>4. ASSUME NEW r \in requests', r.of = c
          PROVE  \E q \in requests : /\ q.of = c /\ q.id = r.id /\ q.last = r.last
                                     /\ q.live => r.live
                                     /\ Spent(q) => Spent(r)'
      <4>1. CASE r \in requests
        BY <1>2, <3>4, <4>1
      <4>2. CASE r \notin requests
        <5>1. PICK p \in requests : Forward(p)
          BY <3>1, <3>2, <3>4, <4>2, RequestsAre
        <5> QED BY <3>3, <3>4, <4>2, <5>1
      <4> QED BY <4>1, <4>2
    <3> QED BY <3>4
  <2>3. at'[c] = "idle" => \A r \in requests' : r.of # c
    BY <1>1, <1>8, <2>2
  <2>4. at'[c] \in {"submit", "again"} => \A r \in requests' : r.of = c => Spent(r)'
    BY <1>1, <1>8, <2>2
  <2>5. Waiting(c)' => \A r \in requests' : r.of = c => r.id = req'[c].id \/ Spent(r)'
    BY <1>1, <1>8, <2>2 DEF Waiting
  <2>6. at'[c] = "order" => \A r \in requests' : r.of = c => r.live /\ r.last <= acked'[c] + OrderTTL
    BY <1>1, <1>8, <2>2
  <2>7. CASE status'[c] = "accepted" /\ status[c] = "accepted"
    BY <1>1, <1>8, <2>1, <2>2, <2>3, <2>4, <2>5, <2>6, <2>7
  <2>8. CASE status'[c] = "accepted" /\ status[c] = Nothing /\ ReadStatus /\ req[c].id \in Acks
    <3>1. requests' = requests
      BY <2>8 DEF ReadStatus, ReadOnly, exchangeVars
    <3>2. at[c] = "status"
      BY <2>8, Signs DEF Waiters
    <3>3. \A r \in requests : r.id = req[c].id => r.live
      BY <2>8 DEF AcknowledgedOnce
    <3>4. \A r \in requests : r.of = c => r.live
      BY <1>1, <3>2, <3>3 DEF Waiting, Spent
    <3> QED BY <1>8, <2>1, <2>3, <2>4, <2>5, <2>6, <3>1, <3>4
  <2>9. CASE status'[c] # "accepted"
    BY <1>8, <2>1, <2>3, <2>4, <2>5, <2>6, <2>9
  <2> QED BY <1>8, <2>7, <2>8, <2>9
<1> QED BY <1>3, <1>4, <1>5, <1>6, <1>7, <1>8, CallIs

LEMMA NextExecutesOnce ==
    ASSUME ClientAssumption, ClientTyped, OneAtATime, ExecutesOnce, [ClientNext]_clientVars
    PROVE  ExecutesOnce'
<1>0. /\ blocks \in Nat /\ blocks' \in Nat /\ blocks <= blocks'
      /\ \A r \in requests : r.last \in Nat
  BY BlocksGrow DEF ClientTyped, Requests
<1> SUFFICES ASSUME NEW c \in Places \ left'
             PROVE  /\ \A i, j \in ran'[c] : i = j
                    /\ \A r, s \in requests' : r.of = c /\ s.of = c =>
                         r = s \/ r.last < blocks' \/ s.last < blocks'
                    /\ ran'[c] # {} => \A r \in requests' : r.of = c => r.last < blocks'
  BY DEF ExecutesOnce
<1>1. /\ c \in Places \ left
      /\ \A i, j \in ran[c] : i = j
      /\ \A r, s \in requests : r.of = c /\ s.of = c => r = s \/ r.last < blocks \/ s.last < blocks
      /\ ran[c] # {} => \A r \in requests : r.of = c => r.last < blocks
  BY LeftGrows DEF ExecutesOnce
<1>2. CASE ran' # ran
  <2>1. PICK r \in requests :
          /\ blocks <= r.last /\ blocks' = blocks /\ requests' = requests \ {r}
          /\ ran'[r.of] = ran[r.of] \cup {r.id}
          /\ \A d \in Places \ {r.of} : ran'[d] = ran[d]
    BY <1>2, RanIs
  <2>2. CASE r.of = c
    <3>1. ran[c] = {}
      BY <1>0, <1>1, <2>1, <2>2
    <3>2. \A q \in requests' : q.of = c => q.last < blocks
      BY <1>0, <1>1, <2>1, <2>2
    <3> QED BY <2>1, <2>2, <3>1, <3>2
  <2>3. CASE r.of # c
    BY <1>1, <2>1, <2>3
  <2> QED BY <2>2, <2>3
<1>3. CASE ran' = ran /\ requests' \subseteq requests
  BY <1>0, <1>1, <1>3
<1>4. ASSUME ran' = ran, NEW d \in Places, Submit(d)
      PROVE  /\ \A r, s \in requests' : r.of = c /\ s.of = c =>
                  r = s \/ r.last < blocks' \/ s.last < blocks'
             /\ ran'[c] # {} => \A r \in requests' : r.of = c => r.last < blocks'
  <2>1. PICK s \in Requests : s.of = d /\ requests' = requests \cup {s}
    BY <1>4, SubmitIs
  <2>2. blocks' = blocks /\ at[d] = "submit"
    BY <1>4 DEF Submit, CallOnly
  <2>3. CASE d = c
    <3>1. ran[c] = {} /\ \A r \in requests : r.of = c => r.last < blocks
      BY <1>1, <2>2, <2>3 DEF OneAtATime, Spent
    <3> QED BY <1>4, <2>1, <2>2, <3>1
  <2>4. CASE d # c
    BY <1>1, <1>4, <2>1, <2>2, <2>4
  <2> QED BY <2>3, <2>4
<1>5. ASSUME ran' = ran, NEW r \in requests, Forward(r)
      PROVE  /\ \A p, q \in requests' : p.of = c /\ q.of = c =>
                  p = q \/ p.last < blocks' \/ q.last < blocks'
             /\ ran'[c] # {} => \A q \in requests' : q.of = c => q.last < blocks'
  <2>1. PICK s \in Requests : /\ s.of = r.of /\ s.last = r.last /\ blocks' = blocks
                              /\ requests' = (requests \ {r}) \cup {s}
    BY <1>5, ForwardIs
  <2> QED BY <1>1, <1>5, <2>1
<1> QED BY <1>1, <1>2, <1>3, <1>4, <1>5, RequestsAre

LEMMA NextHeard ==
    ASSUME ClientAssumption, ClientTyped, Waiters, NobodyIsForgotten, OneAtATime, Heard,
           [ClientNext]_clientVars
    PROVE  Heard'
<1> SUFFICES ASSUME NEW c \in Places \ left', Waiting(c)', ran'[c] # {}, update'[c] = Nothing,
                    loop' = "read"
             PROVE  \E o \in Sight' : o.id = req'[c].id
  BY DEF Heard
<1>0. c \in Places \ left
  BY LeftGrows
<1>1. CASE Dial
  <2>1. update[c] = Nothing
    BY <1>1 DEF Dial, waiterVars
  <2> QED BY <1>0, <1>1, <2>1 DEF Dial, NobodyIsForgotten
<1>2. CASE Submit(c)
  <2>1. ran' = ran /\ at[c] = "submit"
    BY <1>2 DEF Submit, CallOnly
  <2> QED BY <1>0, <2>1 DEF OneAtATime
<1>3. CASE ~Dial /\ ~Submit(c)
  <2>1. Waiting(c) /\ req'[c] = req[c] /\ update[c] = Nothing
    <3>1. CASE Build(c)
      BY <3>1, BuildIs DEF Waiting
    <3>2. CASE StatusTaken(c) /\ status[c] = "accepted"
      BY <3>2 DEF StatusTaken, Closed, Waiting
    <3>3. CASE TimesOut(c) /\ Leave(c, "again") /\ UNCHANGED <<callVars, told>>
      BY <3>3 DEF Leave, Waiting, ClientTyped
    <3>4. CASE at'[c] = "done"
      BY <3>4 DEF Waiting
    <3>5. CASE /\ at'[c] = at[c]
               /\ at[c] = "idle" \/ (req'[c] = req[c] /\ acked'[c] = acked[c])
               /\ update'[c] = Nothing => update[c] = Nothing
      BY <3>5 DEF Waiting
    <3> QED BY <1>3, <3>1, <3>2, <3>3, <3>4, <3>5, CallIs
  <2>2. loop = "read"
    BY <1>3, OnlyDialReads
  <2>3. CASE ran[c] # {}
    <3>1. PICK o \in Sight : o.id = req[c].id
      BY <1>0, <2>1, <2>2, <2>3 DEF Heard
    <3>2. CASE Sight \subseteq Sight'
      BY <2>1, <3>1, <3>2
    <3>3. CASE ReadOrders
      <4>1. /\ wire[1].data \in SUBSET Orders /\ Deliver(wire[1].data)
            /\ Sight = Sight' \cup wire[1].data
        BY <3>3, TakenFrame DEF ReadOrders, Frames
      <4>2. \A p \in wire[1].data : p.id # req[c].id
        BY <2>1, <4>1, DeliverIs, Signs DEF Orders
      <4> QED BY <2>1, <3>1, <4>1, <4>2
    <3>4. CASE Read /\ ~ReadOrders
      BY <3>2, <3>4, TakenFrame DEF Read, ReadWallet, ReadAccount, ReadStatus
    <3>5. CASE ~Read
      <4>1. /\ wire' \in Seq(Frames) /\ Len(wire') >= Len(wire)
            /\ \A i \in 1 .. Len(wire) : wire'[i] = wire[i]
        BY <2>2, <3>5, WireGrows
      <4>2. DOMAIN wire = 1 .. Len(wire) /\ DOMAIN wire' = 1 .. Len(wire') /\ Len(wire) \in Nat
            /\ Len(wire') \in Nat
        BY <4>1, LenProperties DEF ClientTyped
      <4>3. Sight \subseteq Sight'
        BY <4>1, <4>2 DEF Sight, SightIn
      <4> QED BY <3>2, <4>3
    <3> QED BY <3>3, <3>4, <3>5
  <2>4. CASE ran[c] = {}
    <3>1. PICK r \in requests :
            /\ blocks <= r.last /\ Say(OrdersFrame({OrderOf(r)})) /\ r.of = c
      BY <2>4, RanIs
    <3>2. r.id = req[c].id
      <4>1. r.id = req[c].id \/ Spent(r)
        BY <1>0, <2>1, <3>1 DEF OneAtATime
      <4>2. blocks \in Nat /\ r.last \in Nat
        BY DEF ClientTyped, Requests
      <4> QED BY <3>1, <4>1, <4>2 DEF Spent
    <3>3. r \in Requests /\ {OrderOf(r)} \in SUBSET Orders /\ OrderOf(r).id = r.id
      BY OrdersAre DEF ClientTyped
    <3>4. PICK f \in Frames : f = OrdersFrame({OrderOf(r)}) /\ f.kind = "orders" /\ f.data = {OrderOf(r)}
      BY <3>3, FramesAre
    <3>5. Say(f)
      BY <3>1, <3>4 DEF Say
    <3>6. OrderOf(r) \in Sight'
      BY <2>2, <3>4, <3>5, SaidFrame
    <3> QED BY <2>1, <3>2, <3>3, <3>6
  <2> QED BY <2>3, <2>4
<1> QED BY <1>1, <1>2, <1>3

-----------------------------------------------------------------------------
(* The invariant, and what it means *)

LEMMA InitClientInv == ASSUME ClientAssumption, ClientInit PROVE ClientInv
<1>1. ClientTyped
  BY InitTyped
<1>2. Acks = {} /\ Sight = {} /\ requests = {} /\ nextReqID = 0
  BY Silence DEF ClientInit, Acks, Sight
<1>3. \A c \in Places : /\ at[c] = "idle" /\ status[c] = NoWaiter /\ update[c] = NoWaiter
                        /\ told[c] = Nothing /\ ran[c] = {}
  BY DEF ClientInit
<1>4. loop = "dial" /\ sawOrders = FALSE
  BY DEF ClientInit
<1>5. Waiters /\ IdsAreCounted /\ AcknowledgedOnce
  BY <1>2, <1>3 DEF Waiters, Waiting, IdsAreCounted, AcknowledgedOnce, Active
<1>6. LostWithIt /\ InSight /\ OwnIds /\ ToldAtTheEnd /\ AnswersAreTheirOwn
  BY <1>2, <1>3, <1>4, Signs DEF LostWithIt, InSight, OwnIds, ToldAtTheEnd, AnswersAreTheirOwn, Active
<1>7. NobodyIsForgotten /\ OneAtATime /\ LiveIsShort /\ ExecutesOnce /\ Heard
  BY <1>2, <1>3, Signs
     DEF NobodyIsForgotten, OneAtATime, LiveIsShort, ExecutesOnce, Heard, Waiting, NoWaiter, Nothing
<1> QED BY <1>1, <1>5, <1>6, <1>7 DEF ClientInv

LEMMA NextClientInv ==
    ASSUME ClientAssumption, ClientInv, [ClientNext]_clientVars
    PROVE  ClientInv'
BY NextTyped, NextWaiters, NextIdsAreCounted, NextAcknowledgedOnce, NextLostWithIt, NextInSight,
   NextOwnIds, NextToldAtTheEnd, NextAnswersAreTheirOwn, NextNobodyIsForgotten, NextOneAtATime,
   NextLiveIsShort, NextExecutesOnce, NextHeard
DEF ClientInv

(***************************************************************************)
(* trading.go and Adapter.Place: the ids of the calls, the requests of the *)
(* venue, the frames between them and the channels of the waiters stay     *)
(* related as ClientInv says, whatever drops, dials, restarts and          *)
(* rediscoveries come between.                                             *)
(***************************************************************************)
THEOREM ClientInvHolds == ClientSpec => []ClientInv
<1>1. ClientInit => ClientInv
  BY InitClientInv, ClientAssumption
<1>2. ClientInv /\ [ClientNext]_clientVars => ClientInv'
  BY NextClientInv, ClientAssumption
<1> QED BY <1>1, <1>2, PTL DEF ClientSpec

(***************************************************************************)
(* Adapter.Place: its one retry with a fresh id (adapter.go, placeOnce and *)
(* ErrUnconfirmed) never executes an order beside one that has executed or *)
(* still may, for whoever a rediscovery has not left behind.               *)
(***************************************************************************)
THEOREM NoOrderTwice == ClientSpec => []PlacesOnce
<1>1. ClientInv => PlacesOnce
  BY DEF ClientInv, ExecutesOnce, PlacesOnce
<1> QED BY <1>1, ClientInvHolds, PTL

(***************************************************************************)
(* deliverOrder and nextRequestID: once the snapshot of the orders has     *)
(* moved the counter, no call is handed the order of another, although ids *)
(* begin again with every process.                                         *)
(***************************************************************************)
THEOREM NoAnswerOfAnother == ClientSpec => []AnswersAreTheirOwn
<1>1. ClientInv => AnswersAreTheirOwn
  BY DEF ClientInv
<1> QED BY <1>1, ClientInvHolds, PTL

(***************************************************************************)
(* failInFlight: nobody waits on an open channel when run dials again or   *)
(* has stopped, for whoever a rediscovery has not left behind.             *)
(***************************************************************************)
THEOREM NobodyWaitsForAGoneSession == ClientSpec => []DropFailsWhatIsInFlight
<1>1. ClientInv => DropFailsWhatIsInFlight
  BY DEF ClientInv, NobodyIsForgotten, DropFailsWhatIsInFlight, Unanswered
<1> QED BY <1>1, ClientInvHolds, PTL
=============================================================================
