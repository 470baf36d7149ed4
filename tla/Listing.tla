------------------------------ MODULE Listing ------------------------------
(***************************************************************************)
(* Reading issues while events arrive: the pages of list_issues and the    *)
(* occurrence chart of get_issue (server/app/issues.py).                   *)
(*                                                                         *)
(* Each page is a transaction of its own, and between two of them a worker *)
(* stores events: the reader's order changes under it.  All issues are     *)
(* unresolved here, which an event does not change.                        *)
(***************************************************************************)
EXTENDS Integers, Sequences, FiniteSets, SequencesExt, Folds

CONSTANTS
    Rows,               \* ids of issues
    MAX_PER_PAGE,
    DEFAULT_PER_PAGE,
    Requested,          \* page sizes clients ask for; 0: none given
    WINDOW_DAYS,        \* OCCURRENCE_WINDOW_DAYS
    TicksPerDay,
    MaxClock,           \* bound: time
    MaxArrivals         \* bound: events stored while the reader is at it

ASSUME ListingAssumption ==
    /\ Rows \subseteq Nat /\ IsFiniteSet(Rows)
    /\ MAX_PER_PAGE \in Nat \ {0} /\ DEFAULT_PER_PAGE \in 1 .. MAX_PER_PAGE
    /\ Requested \subseteq Int
    /\ WINDOW_DAYS \in Nat \ {0} /\ TicksPerDay \in Nat \ {0}
    /\ MaxClock \in Nat /\ MaxArrivals \in Nat

VARIABLES
    times,      \* [Rows -> arrival times of its events, as stored]
    before,     \* [Rows -> how many of them the reader began with]
    sort,       \* the order asked for
    per_page,
    page,       \* the next page to read; 0 once a page came back empty
    shown,      \* the ids it was shown
    clock,
    chart       \* the last answer of get_issue, and the rows it was made of

listVars == <<times, before, sort, per_page, page, shown, clock, chart>>

clamp_page(value) == IF value < 1 THEN 1 ELSE value
clamp_per_page(value) ==
    IF value < 1 THEN DEFAULT_PER_PAGE
    ELSE IF value > MAX_PER_PAGE THEN MAX_PER_PAGE ELSE value

NoChart == [today |-> -1, counts |-> <<>>, stored |-> <<>>]

ListInit ==
    /\ times \in [Rows -> {<<>>, <<0>>, <<0, 0>>}]
    /\ before = [r \in Rows |-> Len(times[r])]
    /\ sort \in {"last_seen", "first_seen", "count"}
    /\ per_page \in {clamp_per_page(n) : n \in Requested}
    /\ page = clamp_page(0)
    /\ shown = {}
    /\ clock = 0
    /\ chart = NoChart

-----------------------------------------------------------------------------
(* The issue rows, as the upsert of process_event leaves them.             *)

Present == {r \in Rows : times[r] # <<>>}
last_seen(r) == CHOOSE t \in ToSet(times[r]) : \A k \in ToSet(times[r]) : k <= t
first_seen(r) == times[r][1]

Key(r) == CASE sort = "last_seen" -> last_seen(r)
            [] sort = "first_seen" -> first_seen(r)
            [] sort = "count" -> Len(times[r])

\* ORDER BY ... DESC, id DESC.  Without the id, rows of one key come in any order.
Precedes_NoTiebreaker(r, s) == Key(r) > Key(s)
Precedes(r, s) == Key(r) > Key(s) \/ (Key(r) = Key(s) /\ r > s)

Orders == {order \in SetToSeqs(Present) :
            \A m, n \in DOMAIN order : m < n => ~Precedes(order[n], order[m])}

-----------------------------------------------------------------------------

Arrivals == FoldFunctionOnSet(LAMBDA s, n : Len(s) + n, 0, times, Rows)
            - FoldFunctionOnSet(LAMBDA k, n : k + n, 0, before, Rows)

\* A worker stores an event that arrived now, or a while ago.
StoreEvent(r) ==
    /\ Arrivals < MaxArrivals
    /\ \E t \in {clock, clock - 1} \cap Nat :
        times' = [times EXCEPT ![r] = Append(@, t)]
    /\ UNCHANGED <<before, sort, per_page, page, shown, clock, chart>>

Tick ==
    /\ clock < MaxClock
    /\ clock' = clock + 1
    /\ UNCHANGED <<times, before, sort, per_page, page, shown, chart>>

\* LIMIT per_page OFFSET (page - 1) * per_page.
list_issues ==
    /\ page > 0
    /\ \E order \in Orders :
        LET offset == (page - 1) * per_page
            rows == {n \in DOMAIN order : n > offset /\ n <= offset + per_page}
        IN  /\ shown' = shown \cup {order[n] : n \in rows}
            /\ page' = IF rows = {} THEN 0 ELSE page + 1
    /\ UNCHANGED <<times, before, sort, per_page, clock, chart>>

Day(t) == t \div TicksPerDay

WindowStart_OneShort(today) == today - (WINDOW_DAYS - 2)    \* ChartAddsUp
WindowStart(today) == today - (WINDOW_DAYS - 1)

\* received_at >= :start GROUP BY day, then one entry for each day of the window.
zero_fill_occurrences(stored, since, today) ==
    LET counted == {n \in DOMAIN stored : Day(stored[n]) >= since}
    IN  [k \in 1 .. WINDOW_DAYS |->
            Cardinality({n \in counted : Day(stored[n]) = today - WINDOW_DAYS + k})]

\* Midnight may pass between the taking of today's date and the query.
get_issue(r) ==
    /\ r \in Present
    /\ \E today \in {Day(clock), Day(clock - 1)} \cap Nat :
        chart' = [today |-> today, stored |-> times[r],
                  counts |-> zero_fill_occurrences(times[r], WindowStart(today), today)]
    /\ UNCHANGED <<times, before, sort, per_page, page, shown, clock>>

PagesNext == Tick \/ list_issues \/ \E r \in Rows : StoreEvent(r)
ChartNext == Tick \/ \E r \in Rows : StoreEvent(r) \/ get_issue(r)

ListSpec == ListInit /\ [][PagesNext \/ ChartNext]_listVars

-----------------------------------------------------------------------------
(* Correctness.                                                            *)

\* "A stable id tiebreaker keeps pagination deterministic": who reads page after page
\* until one is empty has seen every issue that was there when they began and got no
\* event since; events push other issues towards later pages, never past the reader.
UntouchedIsShown ==
    page = 0 => {r \in Rows : before[r] > 0 /\ Len(times[r]) = before[r]} \subseteq shown

\* The chart and the total beside it are of the same events: each event of the window
\* counts once, on one of exactly WINDOW_DAYS days, and none from outside it.
ChartAddsUp ==
    chart # NoChart =>
        /\ Len(chart.counts) = WINDOW_DAYS
        /\ FoldLeft(LAMBDA x, y : x + y, 0, chart.counts) =
            Cardinality({n \in DOMAIN chart.stored :
                Day(chart.stored[n]) \in (chart.today - WINDOW_DAYS + 1) .. chart.today})
=============================================================================
