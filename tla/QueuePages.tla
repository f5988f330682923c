----------------------------- MODULE QueuePages -----------------------------
(***************************************************************************)
(* The paged queue list: GET /api/queues of the backend                     *)
(* (backend/src/routes/queues.ts) and the hook useQueues of the frontend    *)
(* (frontend/src/hooks/useQueues.ts) with its module-level cache.  The user *)
(* changes the status filter while requests are under way and queues are    *)
(* created and change status on the server.  An effect that was cleaned up  *)
(* ignores its answer; fetchNextPage does not look whether the filter it    *)
(* asked for is still selected.                                             *)
(***************************************************************************)
EXTENDS Integers, Sequences, FiniteSets, SequencesExt, Vec

CONSTANTS
    PSlugs,     \* the queues in the order they are created
    Filters,    \* what the user selects: "all" or a status
    PLimit,     \* limit
    MaxShown    \* bound: length of the list, which late pages make grow without end

\* A slug names one queue.
ASSUME PagesAssumption == IsInjective(PSlugs) /\ PSlugs \in Seq(ToSet(PSlugs)) /\ PLimit \in Nat

VARIABLES
    listing,     \* server: the queues, oldest first
    closed,      \* server: those whose status has changed from "open" to "closed"
    sel,         \* the selected filter
    shown,       \* queues, the slugs of the list on screen
    nextCursor,  \* the slug the next page starts after, NoCursor when there is none
    loading,
    loadingNext, \* loadingNextPage
    first,       \* the live effect waits for the first page
    page,        \* the request of fetchNextPage, NoPage when there is none
    pages,       \* cache: per filter, list and cursor, NoEntry when absent or too old
    mixed        \* whether a page of another filter was ever appended or cached

pvars == <<listing, closed, sel, shown, nextCursor, loading, loadingNext, first, page, pages, mixed>>

NoCursor == "no cursor"
NoPage == [filter |-> "none", cursor |-> NoCursor]
NoEntry == [items |-> <<>>, cursor |-> "no entry"]

PagesInit ==
    /\ listing = <<>>
    /\ closed = {}
    /\ sel \in Filters
    /\ shown = <<>>
    /\ nextCursor = NoCursor
    /\ loading = TRUE
    /\ loadingNext = FALSE
    /\ first = TRUE
    /\ page = NoPage
    /\ pages = [f \in Filters |-> NoEntry]
    /\ mixed = FALSE

-----------------------------------------------------------------------------
(* The server                                                              *)

ServerCreates ==
    /\ Len(listing) < Len(PSlugs)
    /\ listing' = Append(listing, PSlugs[Len(listing) + 1])
    /\ UNCHANGED <<closed, sel, shown, nextCursor, loading, loadingNext, first, page, pages, mixed>>

ServerCloses(i) ==
    /\ i \in 1..Len(listing)
    /\ closed' = closed \cup {listing[i]}
    /\ UNCHANGED <<listing, sel, shown, nextCursor, loading, loadingNext, first, page, pages, mixed>>

Matching(filter) == {s \in ToSet(PSlugs) : filter = "all" \/ (filter = "closed") = (s \in closed)}
Filtered(filter) == Kept(listing, Matching(filter))

\* A cursor whose queue has left the filtered list is answered with a 400.
CursorValid(list, cursor) == cursor = NoCursor \/ Contains(list, cursor)

StartIndexMutant(list, cursor) ==
    IF cursor = NoCursor THEN 0 ELSE SelectInSeq(list, LAMBDA s : s = cursor) - 1
StartIndex(list, cursor) ==
    IF cursor = NoCursor THEN 0 ELSE SelectInSeq(list, LAMBDA s : s = cursor)

\* The slice after the cursor, and a next cursor if the list goes on behind it.
ListRoute(list, cursor) ==
    LET start == StartIndex(list, cursor)
        stop == IF start + PLimit < Len(list) THEN start + PLimit ELSE Len(list)
    IN  [items |-> SubSeq(list, start + 1, stop),
         cursor |-> IF stop > start /\ stop < Len(list) THEN list[stop] ELSE NoCursor]

-----------------------------------------------------------------------------
(* The hook                                                                *)

\* The filter changes: the old effect is cancelled; a fresh cache entry is shown at
\* once, otherwise the first page is asked for and the old list stays on screen.
Select(f) ==
    /\ f # sel
    /\ sel' = f
    /\ IF pages[f] # NoEntry
       THEN /\ shown' = pages[f].items
            /\ nextCursor' = pages[f].cursor
            /\ loading' = FALSE
            /\ first' = FALSE
       ELSE loading' = TRUE /\ first' = TRUE /\ UNCHANGED <<shown, nextCursor>>
    /\ UNCHANGED <<listing, closed, loadingNext, page, pages, mixed>>

FirstPage ==
    /\ first
    /\ \E list \in {Filtered(sel)} : \E answer \in {ListRoute(list, NoCursor)} :
          /\ shown' = answer.items
          /\ nextCursor' = answer.cursor
          /\ pages' = [pages EXCEPT ![sel] = answer]
    /\ loading' = FALSE
    /\ first' = FALSE
    /\ UNCHANGED <<listing, closed, sel, loadingNext, page, mixed>>

FirstPageFails ==
    /\ first
    /\ loading' = FALSE
    /\ first' = FALSE
    /\ UNCHANGED <<listing, closed, sel, shown, nextCursor, loadingNext, page, pages, mixed>>

\* fetchNextPage()
AskNextPage ==
    /\ ~loading /\ ~loadingNext /\ nextCursor # NoCursor
    /\ loadingNext' = TRUE
    /\ page' = [filter |-> sel, cursor |-> nextCursor]
    /\ UNCHANGED <<listing, closed, sel, shown, nextCursor, loading, first, pages, mixed>>

\* The page is appended to whatever is on screen, and the result is cached under the
\* filter it was asked for.
NextPage ==
    /\ page # NoPage
    /\ \E list \in {Filtered(page.filter)} : \E answer \in {ListRoute(list, page.cursor)} :
          /\ CursorValid(list, page.cursor)
          /\ Len(shown) + Len(answer.items) <= MaxShown
          /\ shown' = shown \o answer.items
          /\ nextCursor' = answer.cursor
          /\ pages' = [pages EXCEPT ![page.filter] = [items |-> shown \o answer.items, cursor |-> answer.cursor]]
    /\ mixed' = (mixed \/ page.filter # sel \/ page.cursor # nextCursor)
    /\ loadingNext' = FALSE
    /\ page' = NoPage
    /\ UNCHANGED <<listing, closed, sel, loading, first>>

\* A 400 for the cursor, or no answer at all.
NextPageFails ==
    /\ page # NoPage
    /\ loadingNext' = FALSE
    /\ page' = NoPage
    /\ UNCHANGED <<listing, closed, sel, shown, nextCursor, loading, first, pages, mixed>>

\* Thirty seconds after it was set a cache entry is not used any more.
CacheExpires(f) ==
    /\ pages[f] # NoEntry
    /\ pages' = [pages EXCEPT ![f] = NoEntry]
    /\ UNCHANGED <<listing, closed, sel, shown, nextCursor, loading, loadingNext, first, page, mixed>>

PagesNext ==
    \/ ServerCreates
    \/ \E i \in 1..Len(PSlugs) : ServerCloses(i)
    \/ \E f \in Filters : Select(f)
    \/ FirstPage
    \/ FirstPageFails
    \/ AskNextPage
    \/ NextPage
    \/ NextPageFails
    \/ \E f \in Filters : CacheExpires(f)

\* A request is answered or fails in the end.
PagesFairness == WF_pvars(FirstPage \/ FirstPageFails) /\ WF_pvars(NextPage \/ NextPageFails)

PagesSpec == PagesInit /\ [][PagesNext]_pvars /\ PagesFairness

-----------------------------------------------------------------------------
(* Properties                                                              *)

\* The list shows no queue twice, whatever is created or closed between two pages,
\* served from cache or fresh; only a page that arrives under another filter than it
\* was asked for can break this.
PagesDisjoint ==
    ~mixed => \A i, j \in 1..Len(shown) : i # j => shown[i] # shown[j]
=============================================================================
