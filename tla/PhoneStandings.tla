--------------------------- MODULE PhoneStandings ----------------------------
(***************************************************************************)
(* The board of the leaderboard screen, a page at a time: useStandings and *)
(* the chips that choose a board (apps/mobile/src/app/leaderboard.tsx).    *)
(*                                                                         *)
(* A board is a tab and a period.  Pages already read are kept in a book   *)
(* with the board they belong to; choosing a board reads its first page    *)
(* again, and an answer to the choice before is dropped.  An answer to a   *)
(* later page is taken by whatever book of its board is there by then.     *)
(* A page is its number on the board, counted from 0; ranks that move      *)
(* between two reads are the platform's business.                          *)
(***************************************************************************)
EXTENDS Integers, Sequences

CONSTANTS
    Boards,         \* the boards, a tab and a period each
    FirstBoard,     \* the one the screen opens with
    Pages,          \* for each board, the pages it has
    MaxPicks        \* bound: choices of a board

StandingsAssumption ==
    /\ FirstBoard \in Boards /\ "none" \notin Boards
    /\ Pages \in [Boards -> Nat \ {0}]
    /\ MaxPicks \in Nat

VARIABLES
    knows,          \* the account layer has read the device
    board,          \* the board chosen, key
    book,           \* the pages read, of which board, and the one shown
    first,          \* the first page of the board is asked for
    more,           \* the later page asked for, NoPage when none is: loading
    picks,          \* bound
    crossed         \* history: the book was begun again under a later page

vars == <<knows, board, book, first, more, picks, crossed>>

NoPage == [of |-> FirstBoard, page |-> 0]
NoRows == -1        \* what a failed first read puts in the book
EmptyBook == [of |-> "none", pages |-> <<>>, next |-> 0, at |-> 1, players |-> 0]

Init ==
    /\ knows = FALSE
    /\ board = FirstBoard
    /\ book = EmptyBook
    /\ first = FALSE
    /\ more = NoPage
    /\ picks = 0
    /\ crossed = FALSE

loading == more # NoPage
current == book.of = board

(* next_offset: the page after p, 0 when p is the last. *)
After(b, p) == IF p + 1 < Pages[b] THEN p + 1 ELSE 0

(* The effect begins once the account is known, and again on every choice. *)
Known ==
    /\ ~knows
    /\ knows' = TRUE
    /\ first' = TRUE
    /\ UNCHANGED <<board, book, more, picks, crossed>>

Pick(b) ==
    /\ picks < MaxPicks
    /\ b # board
    /\ board' = b
    /\ first' = knows
    /\ picks' = picks + 1
    /\ UNCHANGED <<knows, book, more, crossed>>

Begun(pages, next, players) ==
    /\ first
    /\ first' = FALSE
    /\ book' = [of |-> board, pages |-> pages, next |-> next, at |-> 1, players |-> players]
    /\ crossed' = (crossed \/ (more.of = board /\ more.page > 1))
    /\ UNCHANGED <<knows, board, more, picks>>

TakeFirst == Begun(<<0>>, After(board, 0), Pages[board])

FirstFails == Begun(<<NoRows>>, 0, 0)

(* The arrow is live while there are pages, and its handler not while one  *)
(* is on its way.                                                          *)
CanStep == current /\ ~loading /\ book.at < book.players

NextKept ==
    /\ CanStep /\ book.at < Len(book.pages)
    /\ book' = [book EXCEPT !.at = @ + 1]
    /\ UNCHANGED <<knows, board, first, more, picks, crossed>>

NextAsked ==
    /\ CanStep /\ book.at = Len(book.pages) /\ book.next > 0
    /\ more' = [of |-> board, page |-> book.next]
    /\ UNCHANGED <<knows, board, book, first, picks, crossed>>

(* A slip: the answer belongs to the board on the screen. *)
TakenByAny(answer) ==
    [book EXCEPT !.pages = Append(@, answer.page), !.next = After(answer.of, answer.page),
                 !.at = Len(book.pages) + 1, !.players = Pages[answer.of]]

Taken(answer) ==
    IF book.of # answer.of THEN book
    ELSE [book EXCEPT !.pages = Append(@, answer.page), !.next = After(answer.of, answer.page),
                      !.at = Len(book.pages) + 1, !.players = Pages[answer.of]]

TakeMore ==
    /\ loading
    /\ book' = Taken(more)
    /\ more' = NoPage
    /\ UNCHANGED <<knows, board, first, picks, crossed>>

MoreFails ==
    /\ loading
    /\ more' = NoPage
    /\ UNCHANGED <<knows, board, book, first, picks, crossed>>

Prev ==
    /\ current /\ book.at > 1
    /\ book' = [book EXCEPT !.at = @ - 1]
    /\ UNCHANGED <<knows, board, first, more, picks, crossed>>

Next ==
    \/ Known \/ TakeFirst \/ FirstFails
    \/ NextKept \/ NextAsked \/ TakeMore \/ MoreFails \/ Prev
    \/ \E b \in Boards : Pick(b)

Spec == Init /\ [][Next]_vars

-----------------------------------------------------------------------------
(* Properties *)

(***************************************************************************)
(* A row's rank is computed from the page it is on, so the i-th page of    *)
(* the book must be the board's i-th.  That holds whatever crossed,        *)
(* except where a board is left and chosen again while one of its later    *)
(* pages is on its way: then the pages still rise, but one may be missing. *)
(***************************************************************************)
PagesFollow ==
    /\ \A i \in 1..Len(book.pages) - 1 : book.pages[i] < book.pages[i + 1]
    /\ book.pages # <<>> =>
          /\ book.pages[Len(book.pages)] < Pages[book.of]
          /\ ~crossed => \A i \in 1..Len(book.pages) :
                book.pages[i] = i - 1 \/ (i = 1 /\ book.pages[i] = NoRows)

(* What it rests on: what may follow a page of the book, asked for or      *)
(* still to be, comes after its last one, and right after it unless the    *)
(* book was begun again.                                                   *)
FollowsTheBook(page) ==
    /\ book.pages # <<>> /\ book.pages[Len(book.pages)] < page
    /\ ~crossed => page = Len(book.pages)

Typed ==
    /\ board \in Boards /\ crossed \in BOOLEAN
    /\ book \in [of : Boards \cup {"none"}, pages : Seq(Int), next : Nat, at : Int, players : Int]
    /\ book.pages # <<>> => book.of \in Boards
    /\ more \in [of : Boards, page : Nat] /\ more.page < Pages[more.of]

Following ==
    /\ PagesFollow
    /\ book.next > 0 => FollowsTheBook(book.next) /\ book.next < Pages[book.of]
    /\ loading => more.page > 0 /\ (more.of = book.of => FollowsTheBook(more.page))
=============================================================================
