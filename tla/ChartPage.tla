------------------------------ MODULE ChartPage ------------------------------
(***************************************************************************)
(* The chart component and the page it embeds: an iframe on the web        *)
(* (apps/mobile/src/components/TVChart.web.tsx), a WebView on the phone    *)
(* (TVChart.tsx), and the page's listener (apps/mobile/public/tv.js).      *)
(*                                                                         *)
(* What the component is given, the interval, the shape, the marks, goes   *)
(* to the page as messages; the market, the colours and the studies are in *)
(* its address, so changing one loads another page.  A page begins with    *)
(* nothing but its own defaults.  Messages arrive in order, are lost       *)
(* before its script runs, and wait until its chart is drawn.              *)
(***************************************************************************)
EXTENDS Naturals, Sequences

CONSTANTS
    Effects,        \* what is sent in messages, the interval, the position...: in
                    \* the order of the component's effects
    Values,         \* what each can be
    Default,        \* what a page begins with
    Addresses,      \* the addresses the page is loaded at
    FirstAddress,
    MaxChanges      \* bound: changes of what is given and of the address

Given == {Effects[k] : k \in 1..Len(Effects)}

ChartPageAssumption ==
    /\ Effects \in Seq(STRING)
    /\ Default \in Values /\ FirstAddress \in Addresses /\ MaxChanges \in Nat

VARIABLES
    native,         \* the WebView, or the iframe
    given,          \* what the component was given last
    url,            \* where the page is
    page,           \* "loading", "listening", "drawn"
    loadedEvent,    \* the frame's onLoad has fired for this page
    has,            \* what the page shows
    wire,           \* messages on their way or waiting for the chart
    told,           \* the page's "ready" is on its way to the component
    ready,          \* the WebView's component has heard it
    changes,        \* bound
    reloaded        \* history: the address changed

vars == <<native, given, url, page, loadedEvent, has, wire, told, ready, changes, reloaded>>

Blank == [g \in Given |-> Default]

Init ==
    /\ native \in BOOLEAN
    /\ given = Blank
    /\ url = FirstAddress
    /\ page = "loading" /\ loadedEvent = FALSE /\ has = Blank
    /\ wire = <<>>
    /\ told = FALSE /\ ready = FALSE
    /\ changes = 0 /\ reloaded = FALSE

(* A message to a page whose script has not run is lost. *)
Send(messages) == wire' = IF page = "loading" THEN wire ELSE wire \o messages

(* Everything the component was given, in the order of its effects.        *)
Everything ==
    [k \in 1..Len(Effects) |-> [what |-> Effects[k], value |-> given[Effects[k]]]]

(* The effect of one thing given: the iframe's always sends, the WebView's *)
(* once the page is ready.                                                 *)
Give(g, v) ==
    /\ changes < MaxChanges /\ changes' = changes + 1
    /\ v # given[g]
    /\ given' = [given EXCEPT ![g] = v]
    /\ IF ~native \/ ready THEN Send(<<[what |-> g, value |-> v]>>) ELSE UNCHANGED wire
    /\ UNCHANGED <<native, url, page, loadedEvent, has, told, ready, reloaded>>

(* Another address: what was on its way goes with the page before.  The    *)
(* iframe's effects send everything, to a page that is not there yet; the  *)
(* WebView's do nothing, and it is still ready.                            *)
Navigate(a) ==
    /\ changes < MaxChanges /\ changes' = changes + 1
    /\ a # url
    /\ url' = a
    /\ page' = "loading" /\ loadedEvent' = FALSE /\ has' = Blank
    /\ wire' = <<>>
    /\ reloaded' = TRUE
    /\ UNCHANGED <<native, given, told, ready>>

(* The page's script has run: its listener is there. *)
Listens ==
    /\ page = "loading"
    /\ page' = "listening"
    /\ UNCHANGED <<native, given, url, loadedEvent, has, wire, told, ready, changes, reloaded>>

(* A slip: the effects are thought to have told the page. *)
TellsNothing == <<>>

Tells == Everything

(* The frame's onLoad tells the page everything. *)
Loaded ==
    /\ ~native /\ page # "loading" /\ ~loadedEvent
    /\ loadedEvent' = TRUE
    /\ Send(Tells)
    /\ UNCHANGED <<native, given, url, page, has, told, ready, changes, reloaded>>

(* onChartReady: what waited is applied from here on, and the page says so.*)
Drawn ==
    /\ page = "listening"
    /\ page' = "drawn"
    /\ told' = TRUE
    /\ UNCHANGED <<native, given, url, loadedEvent, has, wire, ready, changes, reloaded>>

(* The WebView's component hears it, the first time with an effect; the    *)
(* iframe's has no ear for it.                                             *)
Heard ==
    /\ told
    /\ told' = FALSE
    /\ ready' = (ready \/ native)
    /\ IF native /\ ~ready THEN Send(Everything) ELSE UNCHANGED wire
    /\ UNCHANGED <<native, given, url, page, loadedEvent, has, changes, reloaded>>

Apply ==
    /\ page = "drawn" /\ wire # <<>>
    /\ has' = [has EXCEPT ![Head(wire).what] = Head(wire).value]
    /\ wire' = Tail(wire)
    /\ UNCHANGED <<native, given, url, page, loadedEvent, told, ready, changes, reloaded>>

Next ==
    \/ \E g \in Given, v \in Values : Give(g, v)
    \/ \E a \in Addresses : Navigate(a)
    \/ Listens \/ Loaded \/ Drawn \/ Heard \/ Apply

Spec == Init /\ [][Next]_vars

-----------------------------------------------------------------------------
(* Properties *)

(***************************************************************************)
(* Once the page is drawn and nothing is on its way, it shows what the     *)
(* component was given, whatever changed while it loaded.  In the iframe   *)
(* that holds through changes of the address; in the WebView only until    *)
(* the first one, after which a page may keep its defaults.                *)
(***************************************************************************)
PageShowsWhatItIsGiven ==
    /\ page = "drawn" /\ wire = <<>> /\ ~told
    /\ IF native THEN ~reloaded ELSE loadedEvent
    => has = given

(* What it rests on: once the page was told, the last word it has or will  *)
(* have on everything is what the component was given.                     *)
Message == [what : Given, value : Values]

LastWord(h, w, g, v) ==
    \/ \E k \in 1..Len(w) : /\ w[k] = [what |-> g, value |-> v]
                            /\ \A j \in 1..Len(w) : j > k => w[j].what # g
    \/ h[g] = v /\ \A k \in 1..Len(w) : w[k].what # g

WillShow == \A g \in Given : LastWord(has, wire, g, given[g])

Typed ==
    /\ given \in [Given -> Values] /\ has \in [Given -> Values] /\ wire \in Seq(Message)
    /\ {native, loadedEvent, told, ready, reloaded} \subseteq BOOLEAN
    /\ page \in {"loading", "listening", "drawn"}

Telling ==
    /\ loadedEvent => page # "loading" /\ WillShow
    /\ ready => native
    /\ native => ~loadedEvent
    /\ native /\ ~reloaded =>
          /\ page = "drawn" <=> told \/ ready
          /\ ready => WillShow
=============================================================================
