---------------------------- MODULE TradingClient ----------------------------
(***************************************************************************)
(* services/internal/venue/perpl: the authenticated socket to the venue    *)
(* (trading.go) and Adapter.Place on top of it (adapter.go), for one       *)
(* wallet.  The loop of `run' is one goroutine, a Place is another, and so *)
(* is the session's `rediscover'; they meet in the client's mutex, in the  *)
(* channels of the waiters and in the socket, so a step is a critical      *)
(* section, a read of the socket or a receive from a channel.              *)
(*                                                                         *)
(* A request is named by its id: the frame's correlation number, which     *)
(* begins again with the process, tells apart no more than the ids do.     *)
(* The venue is external.  Time is its blocks.                             *)
(***************************************************************************)
EXTENDS Integers, FiniteSets, Sequences

CONSTANTS
    Places,         \* calls of Adapter.Place
    OrderTTL,       \* market.OrderTTLBlocks: blocks an order may live
    MaxBlocks,      \* bound: blocks of the chain
    MaxID,          \* bound: request ids
    MaxWire,        \* bound: frames on their way from the venue
    MaxMishaps      \* bound: sessions ended, restarts, calls left by their caller

NoWaiter == "nowaiter"
Nothing == "nothing"            \* a channel with nothing in it
Closed == "closed"
Answers == {"accepted", "refused"}

ASSUME ClientAssumption ==
    /\ OrderTTL \in Nat \ {0}
    /\ {MaxBlocks, MaxID, MaxWire, MaxMishaps} \subseteq Nat
    /\ Places \cap ({NoWaiter, Nothing, Closed, "error"} \cup Answers) = {}

VARIABLES
    loop,           \* where run is: "dial", "read", at the end of session
                    \* ("ended", "refused", "rediscovered"), "failing" what is
                    \* in flight, the same before "giving_up", "stopped"
    again,          \* rediscover: "no", "decided" (under the lock), "fired"
    closing,        \* t.closing
    account,        \* t.account.ID is known
    noAccount,      \* t.noAccount
    nextReqID,
    at,             \* place -> where it is
    req,            \* place -> its request: [id, last]
    acked,          \* place -> the block its acknowledgement was taken in
    built,          \* place -> requests built
    status,         \* place -> its status channel, NoWaiter or what is in it
    update,         \* place -> its order channel, the same
    told,           \* place -> what it returned
    blocks,         \* venue: the chain's head
    exists,         \* venue: the wallet has an exchange account
    top,            \* venue: the highest request id it has forwarded
    requests,       \* venue: requests written to it, or forwarded (live)
    wire,           \* the frames of the session on their way to the reader
    ran,            \* history: place -> the ids of its orders that executed
    left,           \* history: places a rediscovery took the session from
    early,          \* history: places whose id was taken before the orders
                    \* that rest at the venue were seen
    sawOrders,      \* history: this process has read a snapshot of orders
    mishaps         \* bound

accountVars == <<account, noAccount, nextReqID, sawOrders>>
callVars == <<req, acked, built>>
waiterVars == <<status, update>>
exchangeVars == <<blocks, exists, top, requests, ran>>
clientVars == <<loop, again, closing, account, noAccount, nextReqID, at, req, acked,
          built, status, update, told, blocks, exists, top, requests, wire, ran, left, early,
          sawOrders, mishaps>>

NoRequest == [id |-> 0, last |-> 0]

(* Frames.  An order in one is [id, of]: `of' is the place that asked for it. *)
WalletFrame(found, lfr) == [kind |-> "wallet", found |-> found, lfr |-> lfr]
AccountFrame(lfr) == [kind |-> "account", lfr |-> lfr]
StatusFrame(id, answer) == [kind |-> "status", id |-> id, answer |-> answer]
OrdersFrame(data) == [kind |-> "orders", data |-> data]

OrderOf(r) == [id |-> r.id, of |-> r.of]
Live == {r \in requests : r.live}

(* t.connected: from the sign-in to session's deferred calls. *)
connected == loop \in {"read", "ended", "refused", "rediscovered"}

ClientInit ==
    /\ loop = "dial" /\ again = "no" /\ closing = FALSE
    /\ account = FALSE /\ noAccount = FALSE /\ nextReqID = 0
    /\ at = [c \in Places |-> "idle"]
    /\ req = [c \in Places |-> NoRequest]
    /\ acked = [c \in Places |-> 0]
    /\ built = [c \in Places |-> 0]
    /\ status = [c \in Places |-> NoWaiter]
    /\ update = [c \in Places |-> NoWaiter]
    /\ told = [c \in Places |-> Nothing]
    /\ blocks = 1 /\ exists \in BOOLEAN /\ top = 0 /\ requests = {} /\ wire = <<>>
    /\ ran = [c \in Places |-> {}]
    /\ left = {} /\ early = {} /\ sawOrders = FALSE
    /\ mishaps = 0

-----------------------------------------------------------------------------
(* run and session.                                                        *)

RunOnly == UNCHANGED <<accountVars, at, callVars, told, early, blocks, exists, top, ran>>

Mishap ==
    /\ mishaps < MaxMishaps
    /\ mishaps' = mishaps + 1

(***************************************************************************)
(* The sign-in is answered with the wallet and the orders that rest.  "The *)
(* account's lfr has been seen to lag": it is any id up to the last one    *)
(* the venue has forwarded.                                                *)
(***************************************************************************)
Dial ==
    /\ loop = "dial"
    /\ loop' = "read"
    /\ again' = "no"
    /\ \E lfr \in 0 .. top :
         wire' = <<WalletFrame(exists, lfr), OrdersFrame({OrderOf(r) : r \in Live})>>
    /\ UNCHANGED <<closing, waiterVars, requests, left, mishaps>>
    /\ RunOnly

DialFails ==
    /\ loop = "dial"
    /\ loop' = "failing"
    /\ UNCHANGED <<again, closing, waiterVars, requests, wire, left, mishaps>>
    /\ RunOnly

(* The read fails: a drop, a close of this side or of the venue's (3401 for *)
(* a rejected sign-in), or a gap in the heartbeats.  What was on its way is *)
(* lost, and a rediscovery that was asked for is found out by a read only.  *)
ReadFails ==
    /\ loop = "read"
    /\ \/ again = "fired" /\ loop' = "rediscovered"
       \/ again # "fired" /\ loop' = "refused"
       \/ loop' = "ended"
    /\ wire' = <<>>
    /\ Mishap
    /\ UNCHANGED <<again, closing, waiterVars, requests, left>>
    /\ RunOnly

Waiting(c) == at[c] \in {"status", "order"}

(***************************************************************************)
(* session's deferred calls: what the gateway has not read off the         *)
(* connection is lost.  Then run: "a deliberate reconnect, not a failure"  *)
(* goes on to dial, past failInFlight.                                     *)
(***************************************************************************)
SessionReturns ==
    /\ requests' = Live
    /\ \/ loop = "ended" /\ loop' = "failing" /\ left' = left
       \/ loop = "refused" /\ loop' = "giving_up" /\ left' = left
       \/ /\ loop = "rediscovered"
          /\ loop' = "dial"
          /\ left' = left \cup {c \in Places : Waiting(c)}
    /\ UNCHANGED <<again, closing, waiterVars, wire, mishaps>>
    /\ RunOnly

(* close(ch): a receiver still gets what was put into it before. *)
Shut(ch) == IF ch = Nothing THEN Closed ELSE ch

(* A slip: whoever has been acknowledged is forgotten. *)
FailUnacknowledged ==
    /\ loop \in {"failing", "giving_up"}
    /\ status' = [c \in Places |-> Shut(status[c])]
    /\ loop' = IF closing \/ loop = "giving_up" THEN "stopped" ELSE "dial"
    /\ UNCHANGED <<again, closing, update, requests, wire, left, mishaps>>
    /\ RunOnly

FailInFlight ==
    /\ loop \in {"failing", "giving_up"}
    /\ status' = [c \in Places |-> Shut(status[c])]
    /\ update' = [c \in Places |-> Shut(update[c])]
    /\ loop' = IF closing \/ loop = "giving_up" THEN "stopped" ELSE "dial"
    /\ UNCHANGED <<again, closing, requests, wire, left, mishaps>>
    /\ RunOnly

(* rediscover looks under the lock, and closes the socket after. *)
Rediscover ==
    /\ loop = "read"
    /\ \/ again = "no" /\ noAccount /\ ~account /\ again' = "decided"
       \/ again = "decided" /\ again' = "fired"
    /\ UNCHANGED <<loop, closing, waiterVars, requests, wire, left, mishaps>>
    /\ RunOnly

(* close: the read it breaks is one that fails.  While run dials there is   *)
(* none to break, and the next session is held.                             *)
CloseClient ==
    /\ ~closing
    /\ closing' = TRUE
    /\ Mishap
    /\ UNCHANGED <<loop, again, waiterVars, requests, wire, left>>
    /\ RunOnly

-----------------------------------------------------------------------------
(* handle: the reader takes one frame.                                     *)

Takes(kind) ==
    /\ loop = "read"
    /\ wire # <<>>
    /\ Head(wire).kind = kind
    /\ wire' = Tail(wire)

(* The counter moves past these ids, where it is not there already. *)
MovesPast(ids) ==
    /\ nextReqID' \in {nextReqID} \cup {i + 1 : i \in ids}
    /\ nextReqID' >= nextReqID
    /\ \A i \in ids : i < nextReqID'

ReadOnly == UNCHANGED <<loop, again, closing, at, callVars, told, early, exchangeVars, left, mishaps>>

(* applyWallet with setAccountLocked. *)
ReadWallet ==
    /\ Takes("wallet")
    /\ noAccount' = ~Head(wire).found
    /\ account' = (account \/ Head(wire).found)
    /\ MovesPast(IF Head(wire).found THEN {Head(wire).lfr} ELSE {})
    /\ UNCHANGED <<sawOrders, waiterVars>>
    /\ ReadOnly

(* applyAccount *)
ReadAccount ==
    /\ Takes("account")
    /\ noAccount' = FALSE
    /\ account' = TRUE
    /\ MovesPast({Head(wire).lfr})
    /\ UNCHANGED <<sawOrders, waiterVars>>
    /\ ReadOnly

(* deliverStatus *)
ReadStatus ==
    /\ Takes("status")
    /\ status' = [c \in Places |-> IF status[c] = Nothing /\ req[c].id = Head(wire).id
                                   THEN Head(wire).answer ELSE status[c]]
    /\ UNCHANGED <<accountVars, update>>
    /\ ReadOnly

Named(data, id) == {o \in data : o.id = id}

(* deliverOrder: the first update of its order goes to the waiter. *)
Deliver(data) ==
    update' = [c \in Places |-> IF update[c] = Nothing /\ Named(data, req[c].id) # {}
                                THEN (CHOOSE o \in Named(data, req[c].id) : TRUE).of
                                ELSE update[c]]

(* A slip: the counter goes by the account alone. *)
ReadOrdersOnly ==
    /\ Takes("orders")
    /\ Deliver(Head(wire).data)
    /\ sawOrders' = TRUE
    /\ UNCHANGED <<account, noAccount, nextReqID, status>>
    /\ ReadOnly

(* "The counter also moves past every id in sight." *)
ReadOrders ==
    /\ Takes("orders")
    /\ MovesPast({o.id : o \in Head(wire).data})
    /\ Deliver(Head(wire).data)
    /\ sawOrders' = TRUE
    /\ UNCHANGED <<account, noAccount, status>>
    /\ ReadOnly

-----------------------------------------------------------------------------
(* Adapter.Place and submit.                                               *)

CallOnly == UNCHANGED <<loop, again, closing, account, noAccount, sawOrders, blocks, exists,
                        top, ran, wire, left>>

(* latestHead: the block of the last heartbeat, on this socket or on the    *)
(* market data's, or 0 before the first.                                   *)
KnownHeads == 0 .. blocks

(* buildOrder and nextRequestID (setAccountLocked has raised the counter   *)
(* above LastReqID already).                                               *)
Build(c) ==
    /\ \/ at[c] = "idle" /\ account
       \/ at[c] = "again"
    /\ nextReqID < MaxID
    /\ \E h \in KnownHeads :
         req' = [req EXCEPT ![c] = [id |-> nextReqID, last |-> IF h > 0 THEN h + OrderTTL ELSE 0]]
    /\ nextReqID' = nextReqID + 1
    /\ built' = [built EXCEPT ![c] = @ + 1]
    /\ early' = IF sawOrders THEN early \ {c} ELSE early \cup {c}
    /\ at' = [at EXCEPT ![c] = "submit"]
    /\ UNCHANGED <<acked, told, waiterVars, requests, mishaps>>
    /\ CallOnly

(* submit returns, and takes its two waiters with it. *)
Leave(c, place) ==
    /\ at' = [at EXCEPT ![c] = place]
    /\ status' = [status EXCEPT ![c] = NoWaiter]
    /\ update' = [update EXCEPT ![c] = NoWaiter]
    /\ UNCHANGED <<nextReqID, early, requests>>

Return(c, answer) ==
    /\ Leave(c, "done")
    /\ told' = [told EXCEPT ![c] = answer]
    /\ req' = [req EXCEPT ![c] = NoRequest]
    /\ acked' = [acked EXCEPT ![c] = 0]
    /\ built' = [built EXCEPT ![c] = 0]

(* The waiters are registered under the lock that reads the connection; the *)
(* frame is written after it.                                               *)
Submit(c) ==
    /\ at[c] = "submit"
    /\ connected
    /\ at' = [at EXCEPT ![c] = "status"]
    /\ status' = [status EXCEPT ![c] = Nothing]
    /\ update' = [update EXCEPT ![c] = Nothing]
    /\ requests' = requests \cup
           {[id |-> req[c].id, of |-> c, last |-> req[c].last, live |-> FALSE]}
    /\ UNCHANGED <<nextReqID, callVars, told, early, mishaps>>
    /\ CallOnly

(* There is no connection, the write fails, or buildOrder had no price. *)
SubmitFails(c) ==
    /\ at[c] \in {"submit", "again"}
    /\ Return(c, "error")
    /\ UNCHANGED mishaps
    /\ CallOnly

StatusTaken(c) ==
    /\ at[c] = "status"
    /\ \/ /\ status[c] = "accepted"
          /\ at' = [at EXCEPT ![c] = "order"]
          /\ acked' = [acked EXCEPT ![c] = blocks]
          /\ status' = [status EXCEPT ![c] = NoWaiter]
          /\ UNCHANGED <<nextReqID, req, built, told, early, update, requests>>
       \/ status[c] \in {"refused", Closed} /\ Return(c, "error")
    /\ UNCHANGED mishaps
    /\ CallOnly

OrderTaken(c) ==
    /\ at[c] = "order"
    /\ update[c] # Nothing
    /\ Return(c, IF update[c] = Closed THEN "error" ELSE update[c])
    /\ UNCHANGED mishaps
    /\ CallOnly

(* The caller's context is done: its request ended, or was left. *)
GiveUp(c) ==
    /\ Waiting(c)
    /\ Return(c, "error")
    /\ Mishap
    /\ CallOnly

OnItsWay(id) == \E i \in DOMAIN wire : wire[i].kind = "orders" /\ Named(wire[i].data, id) # {}

(* ErrUnconfirmed is answered by "one retry with a fresh id". *)
Unconfirmed(c) ==
    IF built[c] = 1
    THEN Leave(c, "again") /\ UNCHANGED <<callVars, told>>
    ELSE Return(c, "error")

Unheard(c) ==
    /\ at[c] = "order"
    /\ update[c] = Nothing
    /\ (c \in left) \/ (loop = "read" /\ ~OnItsWay(req[c].id))

(* A slip: the wait is the five seconds alone. *)
TimesOutEarly(c) ==
    /\ Unheard(c)
    /\ Unconfirmed(c)
    /\ UNCHANGED mishaps
    /\ CallOnly

(***************************************************************************)
(* The wait is OrderTTLBlocks of 302 ms and five seconds more, from the    *)
(* acknowledgement on: the blocks in which the order may execute, and time *)
(* enough to hear what was said of it or that the session is over.         *)
(***************************************************************************)
TimesOut(c) ==
    /\ Unheard(c)
    /\ blocks > acked[c] + OrderTTL
    /\ Unconfirmed(c)
    /\ UNCHANGED mishaps
    /\ CallOnly

-----------------------------------------------------------------------------
(* The venue, and the process's death.                                     *)

(* A session that reads is told; there is room on its wire. *)
Say(frame) ==
    IF loop = "read"
    THEN Len(wire) < MaxWire /\ wire' = Append(wire, frame)
    ELSE wire' = wire

VenueOnly == UNCHANGED <<loop, again, closing, accountVars, at, callVars, told, early, waiterVars,
                         left, mishaps>>

NextBlock ==
    /\ blocks < MaxBlocks
    /\ blocks' = blocks + 1
    /\ UNCHANGED <<exists, top, requests, ran, wire>>
    /\ VenueOnly

(* createAccount, on chain: the venue pushes an update, or does not. *)
CreateAccount ==
    /\ ~exists
    /\ exists' = TRUE
    /\ Say(AccountFrame(top)) \/ wire' = wire
    /\ UNCHANGED <<blocks, top, requests, ran>>
    /\ VenueOnly

(* The gateway refuses a request, or acknowledges one whose id was used and *)
(* "silently drops" it.                                                     *)
Discard(r) ==
    /\ connected /\ ~r.live
    /\ requests' = requests \ {r}
    /\ \/ Say(StatusFrame(r.id, "refused"))
       \/ r.id <= top /\ Say(StatusFrame(r.id, "accepted"))
    /\ UNCHANGED <<blocks, exists, top, ran>>
    /\ VenueOnly

(* "head < lb <= head + order_ttl_blocks" *)
Forward(r) ==
    /\ connected /\ ~r.live
    /\ top < r.id /\ blocks < r.last /\ r.last <= blocks + OrderTTL
    /\ requests' = (requests \ {r}) \cup {[r EXCEPT !.live = TRUE]}
    /\ top' = r.id
    /\ Say(StatusFrame(r.id, "accepted"))
    /\ UNCHANGED <<blocks, exists, ran>>
    /\ VenueOnly

(* An order that rests is reported; it executes up to its last block, or    *)
(* fails; or expires unheard of.                                            *)
Report(r) ==
    /\ r.live
    /\ \/ /\ Say(OrdersFrame({OrderOf(r)}))
          /\ \/ UNCHANGED <<requests, ran>>
             \/ requests' = requests \ {r} /\ UNCHANGED ran
             \/ /\ blocks <= r.last
                /\ requests' = requests \ {r}
                /\ ran' = [ran EXCEPT ![r.of] = @ \cup {r.id}]
       \/ /\ blocks > r.last
          /\ requests' = requests \ {r}
          /\ UNCHANGED <<ran, wire>>
    /\ UNCHANGED <<blocks, exists, top>>
    /\ VenueOnly

(* The process dies, and its calls with it. *)
Restart ==
    /\ Mishap
    /\ loop' = "dial" /\ again' = "no" /\ closing' = FALSE
    /\ account' = FALSE /\ noAccount' = FALSE /\ nextReqID' = 0 /\ sawOrders' = FALSE
    /\ at' = [c \in Places |-> IF at[c] = "idle" THEN "idle" ELSE "done"]
    /\ req' = [c \in Places |-> NoRequest]
    /\ acked' = [c \in Places |-> 0]
    /\ built' = [c \in Places |-> 0]
    /\ status' = [c \in Places |-> NoWaiter]
    /\ update' = [c \in Places |-> NoWaiter]
    /\ wire' = <<>>
    /\ requests' = Live
    /\ UNCHANGED <<told, early, blocks, exists, top, ran, left>>

Run ==
    \/ Dial \/ DialFails \/ ReadFails \/ SessionReturns \/ FailInFlight \/ Rediscover
    \/ CloseClient

Read == ReadWallet \/ ReadAccount \/ ReadStatus \/ ReadOrders

Place(c) ==
    \/ Build(c) \/ Submit(c) \/ SubmitFails(c) \/ StatusTaken(c) \/ OrderTaken(c)
    \/ GiveUp(c) \/ TimesOut(c)

Venue ==
    \/ NextBlock \/ CreateAccount
    \/ \E r \in requests : Discard(r) \/ Forward(r) \/ Report(r)

ClientNext ==
    \/ Run
    \/ Read
    \/ \E c \in Places : Place(c)
    \/ Venue
    \/ Restart

ClientSpec == ClientInit /\ [][ClientNext]_clientVars

-----------------------------------------------------------------------------
(* Properties *)

(***************************************************************************)
(* Place retries once "with a fresh id and a fresh last block" because the *)
(* first request "can no longer execute".  Whatever drops, restarts and    *)
(* other calls come between, no Place executes two orders, but for one     *)
(* that a rediscovery took the session from without telling it.            *)
(***************************************************************************)
PlacesOnce == \A c \in Places \ left : \A i, j \in ran[c] : i = j

(***************************************************************************)
(* deliverOrder goes by the request id, and ids begin again after a        *)
(* restart from what the venue says, which lags.  Who took its id after    *)
(* the resting orders were seen is told of its own order.                  *)
(***************************************************************************)
AnswersAreTheirOwn ==
    \A c \in Places \ early : told[c] \in Places => told[c] = c

Unanswered(c) ==
    \/ at[c] = "status" /\ status[c] = Nothing
    \/ at[c] = "order" /\ update[c] = Nothing

(***************************************************************************)
(* errDisconnected "fails every request in flight when the socket drops":  *)
(* when run dials again, or has stopped, nobody waits for an answer that   *)
(* only the old session could bring, but for whom a rediscovery left.      *)
(***************************************************************************)
DropFailsWhatIsInFlight ==
    \A c \in Places \ left : Unanswered(c) => loop \notin {"dial", "stopped"}
=============================================================================
