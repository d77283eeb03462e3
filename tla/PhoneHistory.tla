---------------------------- MODULE PhoneHistory -----------------------------
(***************************************************************************)
(* The history screen's list: useHistory and the tabs and filters that cut *)
(* it (apps/mobile/src/app/history.tsx).                                   *)
(*                                                                         *)
(* The platform is read a page of round trips at a time and everything     *)
(* read is kept in one list.  What is shown is cut from it a page of rows  *)
(* at a time: a round trip is one row as a position and, once closed, two  *)
(* as orders, the close first.  A round trip is its number in the filtered *)
(* journal, counted from 1, the newest.                                    *)
(***************************************************************************)
EXTENDS Integers, SequencesExt

CONSTANTS
    Filters,        \* the strategies and all of them together
    FirstFilter,    \* the one the screen opens with
    Trips,          \* for each filter, the round trips there are
    Running,        \* and how many of them, the newest, are still open
    PAGE,           \* PAGE_SIZE: rows of a page, and round trips of a read
    MaxFlips        \* bound: choices of a filter or a tab

HistoryAssumption ==
    /\ FirstFilter \in Filters /\ "none" \notin Filters
    /\ Trips \in [Filters -> Nat] /\ Running \in [Filters -> Nat]
    /\ PAGE \in Nat \ {0} /\ MaxFlips \in Nat

VARIABLES
    filter, tab,    \* the chips
    list,           \* what was read, of which filter, and the page shown
    opening,        \* the filter's first page is asked for
    later,          \* the later page asked for, Nowhere when none is: loading
    flips,          \* bound
    overtaken,      \* history: the list was begun again under a later page
    turned          \* history: the tab was changed on a page after the first

vars == <<filter, tab, list, opening, later, flips, overtaken, turned>>

Nowhere == [of |-> FirstFilter, after |-> 0, target |-> 0]
Unread == [of |-> "none", trips |-> <<>>, more |-> FALSE, at |-> 0]

Init ==
    /\ filter = FirstFilter
    /\ tab = "positions"
    /\ list = Unread
    /\ opening = TRUE
    /\ later = Nowhere
    /\ flips = 0
    /\ overtaken = FALSE
    /\ turned = FALSE

-----------------------------------------------------------------------------
(* The cut *)

Closed(f, trip) == trip > Running[f]

(* ordersOf, or one row each: the rows of a round trip, and of some of     *)
(* them, in order.                                                         *)
Lines(f, trip) ==
    IF tab = "positions" THEN <<<<trip, "trip">>>>
    ELSE IF Closed(f, trip) THEN <<<<trip, "close">>, <<trip, "open">>>>
    ELSE <<<<trip, "open">>>>

RowsOf(f, trips) == FlattenSeq([k \in 1..Len(trips) |-> Lines(f, trips[k])])

total == Len(RowsOf(list.of, list.trips))

(* Rows before the k-th round trip of the list. *)
Before(k) == Len(RowsOf(list.of, SubSeq(list.trips, 1, k - 1)))

(* slice: the round trips that have a row on the page. *)
OnPage ==
    {k \in 1..Len(list.trips) :
        Before(k + 1) > list.at * PAGE /\ Before(k) < (list.at + 1) * PAGE}

Earliest(S) == CHOOSE k \in S : \A j \in S : k <= j
Latest(S) == CHOOSE k \in S : \A j \in S : j <= k

pageTrips == IF OnPage = {} THEN <<>> ELSE SubSeq(list.trips, Earliest(OnPage), Latest(OnPage))

(* A slip: every page begins with the first row of a round trip. *)
OffsetOfWholeTrips == 0

(* Where the page begins inside the round trips handed to the screen: a    *)
(* boundary can fall between a close and its open.                         *)
orderOffset ==
    LET before == IF OnPage = {} THEN total ELSE Before(Earliest(OnPage))
    IN  IF list.at * PAGE > before THEN list.at * PAGE - before ELSE 0

Upto(n, s) == IF n <= Len(s) THEN n ELSE Len(s)

(* The rows on the screen: the orders are sliced once more. *)
Shown ==
    LET rows == RowsOf(list.of, pageTrips)
    IN  IF tab = "positions" THEN rows
        ELSE SubSeq(rows, orderOffset + 1, Upto(orderOffset + PAGE, rows))

-----------------------------------------------------------------------------
(* The reads *)

(* A page of round trips after the n-th; a full one says there may be more.*)
Read(f, n) == [k \in 1..(IF Trips[f] - n < PAGE THEN Trips[f] - n ELSE PAGE) |-> n + k]
MayBeMore(f, n) == Trips[f] - n >= PAGE

current == list.of = filter
loading == later # Nowhere

TakeFirst ==
    /\ opening
    /\ opening' = FALSE
    /\ list' = [of |-> filter, trips |-> Read(filter, 0), more |-> MayBeMore(filter, 0), at |-> 0]
    /\ overtaken' = (overtaken \/ (later.of = filter /\ later.after > PAGE))
    /\ UNCHANGED <<filter, tab, later, flips, turned>>

(* The reason is shown and nothing is asked again. *)
FirstFails ==
    /\ opening
    /\ opening' = FALSE
    /\ UNCHANGED <<filter, tab, list, later, flips, overtaken, turned>>

(* Enough rows for the page, or none left to ask for. *)
Covers(target) == total > target * PAGE /\ (total >= (target + 1) * PAGE \/ ~list.more)

CanTurn == current /\ ~loading /\ (total > (list.at + 1) * PAGE \/ list.more)

NextKept ==
    /\ CanTurn /\ Covers(list.at + 1)
    /\ list' = [list EXCEPT !.at = @ + 1]
    /\ UNCHANGED <<filter, tab, opening, later, flips, overtaken, turned>>

NextAsked ==
    /\ CanTurn /\ ~Covers(list.at + 1) /\ list.more
    /\ later' = [of |-> filter, after |-> list.trips[Len(list.trips)], target |-> list.at + 1]
    /\ UNCHANGED <<filter, tab, list, opening, flips, overtaken, turned>>

TakeLater ==
    /\ loading
    /\ later' = Nowhere
    /\ list' = IF list.of # later.of THEN list
               ELSE [list EXCEPT !.trips = @ \o Read(later.of, later.after),
                                 !.more = MayBeMore(later.of, later.after), !.at = later.target]
    /\ UNCHANGED <<filter, tab, opening, flips, overtaken, turned>>

LaterFails ==
    /\ loading
    /\ later' = Nowhere
    /\ UNCHANGED <<filter, tab, list, opening, flips, overtaken, turned>>

Prev ==
    /\ current /\ list.at > 0
    /\ list' = [list EXCEPT !.at = @ - 1]
    /\ UNCHANGED <<filter, tab, opening, later, flips, overtaken, turned>>

(* The list is kept until the new one is read, and the page with it. *)
Filter(f) ==
    /\ flips < MaxFlips /\ f # filter
    /\ filter' = f
    /\ opening' = TRUE
    /\ flips' = flips + 1
    /\ UNCHANGED <<tab, list, later, overtaken, turned>>

(* The rows change under the page, which stays. *)
Turn ==
    /\ flips < MaxFlips
    /\ tab' = IF tab = "positions" THEN "orders" ELSE "positions"
    /\ flips' = flips + 1
    /\ turned' = (turned \/ list.at > 0 \/ loading)
    /\ UNCHANGED <<filter, list, opening, later, overtaken>>

Next ==
    \/ TakeFirst \/ FirstFails \/ NextKept \/ NextAsked \/ TakeLater \/ LaterFails
    \/ Prev \/ Turn
    \/ \E f \in Filters : Filter(f)

Spec == Init /\ [][Next]_vars

-----------------------------------------------------------------------------
(* Properties *)

Rows == RowsOf(list.of, list.trips)

(***************************************************************************)
(* What is on the screen is the page: the rows from at * PAGE on, none     *)
(* twice and none between two pages, whichever way the round trips are     *)
(* read and wherever a boundary falls between a close and its open.  They  *)
(* are the newest round trips without a gap, unless a filter was left and  *)
(* chosen again while a later page was on its way.  And a page is turned   *)
(* to only when all its rows are there: it has as many as fit unless the   *)
(* journal ends on it, and it is empty ("No trades yet") only where there  *)
(* are none or the page read last was empty.  A tab changed on a later     *)
(* page is left out of that: the page stays, its rows do not.              *)
(***************************************************************************)
PageIsItsRows ==
    current =>
        /\ Shown = SubSeq(Rows, list.at * PAGE + 1, Upto((list.at + 1) * PAGE, Rows))
        /\ ~overtaken => list.trips = [k \in 1..Len(list.trips) |-> k]
        /\ ~turned /\ ~overtaken =>
              /\ Len(Shown) < PAGE => ~list.more /\ total <= (list.at + 1) * PAGE
              /\ Shown = <<>> => Trips[filter] % PAGE = 0

(* What it rests on: the round trips kept and the ones asked for are the   *)
(* newest, in whole reads while there may be more of them; and a page that *)
(* is turned to has its rows.                                              *)
Newest(n) == [k \in 1..n |-> k]

Typed ==
    /\ filter \in Filters /\ tab \in {"positions", "orders"}
    /\ list \in [of : Filters \cup {"none"}, trips : Seq(Nat), more : BOOLEAN, at : Nat]
    /\ list.of \in Filters => list.trips \in Seq(1..Trips[list.of])
    /\ list.more => list.of \in Filters /\ list.trips # <<>>
    /\ later \in [of : Filters, after : Nat, target : Nat]

WholeReads(f, n) == n >= PAGE /\ n % PAGE = 0 /\ n <= Trips[f]

NoGaps ==
    ~overtaken =>
        /\ list.of \in Filters =>
              /\ list.trips = Newest(Len(list.trips))
              /\ IF list.more THEN WholeReads(list.of, Len(list.trips))
                 ELSE Len(list.trips) = Trips[list.of]
        /\ loading => WholeReads(later.of, later.after)
        /\ loading /\ list.of = later.of => Len(list.trips) = later.after

Filled ==
    ~turned /\ ~overtaken =>
        /\ list.more => total >= (list.at + 1) * PAGE
        /\ list.at > 0 =>
              \/ total > list.at * PAGE
              \/ total = list.at * PAGE /\ Trips[list.of] % PAGE = 0
        /\ loading => Len(RowsOf(later.of, Newest(later.after))) >= later.target * PAGE

Following == Typed /\ NoGaps /\ Filled
=============================================================================
