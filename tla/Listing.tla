------------------------------ MODULE Listing -------------------------------
(***************************************************************************)
(* A client that pages through the assets of a project while others upload *)
(* and delete (assetRepo.ListByProject).  Projects, models and jobs are    *)
(* listed the same way: newest first, a page ends at its last row, and the *)
(* next one starts below that row's (created_at, id), read from the table. *)
(***************************************************************************)
EXTENDS Catalogue, FiniteSets

CONSTANT PageLimit   \* rows of a page (20 unless the client asks for 1..100)

ASSUME PageAssumption == PageLimit \in Nat \ {0}

VARIABLES
    paging,  \* the project being listed, NoProject: none
    cursor,  \* next_cursor of the last page, NoAsset: the first page is next
    ended,   \* has_more of the last page was false
    page,    \* the rows of the last page
    seen,    \* the rows of the pages before it
    start,   \* history: the rows the project had when the listing began
    cut      \* history: a cursor's row was deleted before the page that needs it

pagerVars == <<paging, cursor, ended, page, seen, start, cut>>
vars      == <<catVars, pagerVars>>

Init ==
    /\ CatInit
    /\ paging = NoProject /\ cursor = NoAsset /\ ended = FALSE
    /\ page = {} /\ seen = {} /\ start = {} /\ cut = FALSE

RowsOf(p) == {a \in Asset : home[a] = p}

TypeOK ==
    /\ CatTypeOK
    /\ paging \in Project \cup {NoProject} /\ cursor \in Asset \cup {NoAsset}
    /\ page \cup seen \cup start \subseteq Asset
    /\ ended \in BOOLEAN /\ cut \in BOOLEAN

\* WHERE project_id AND (created_at, id) < (SELECT ... WHERE id = cursor): with the
\* row of the cursor gone the comparison is NULL for every row.
Below(a, c) == c = NoAsset \/ (HasRow(c) /\ a < c)

\* ORDER BY ... DESC LIMIT n.
Newest(rows, n) == {a \in rows : Cardinality({b \in rows : b > a}) < n}

\* One row more than a page has tells whether there is a next page.
Fetched(p, c) == Newest({a \in RowsOf(p) : Below(a, c)}, PageLimit + 1)

HasMore(p, c) == Cardinality(Fetched(p, c)) > PageLimit

Page(p, c) == IF HasMore(p, c) THEN Newest(Fetched(p, c), PageLimit) ELSE Fetched(p, c)

Oldest(rows) == CHOOSE a \in rows : \A b \in rows : a <= b

\* Mutation: the cursor is the extra row that was fetched and cut off.
NextCursorUntrimmed(p, c) == IF HasMore(p, c) THEN Oldest(Fetched(p, c)) ELSE NoAsset

NextCursor(p, c) == IF HasMore(p, c) THEN Oldest(Page(p, c)) ELSE NoAsset

ListFirst ==
    /\ paging = NoProject /\ "list" \in traffic
    /\ \E p \in Project :
        /\ Live(p)
        /\ paging' = p
        /\ start' = RowsOf(p)
    /\ UNCHANGED <<cursor, ended, page, seen, cut, catVars>>

\* The project's check comes before; deleted after it, the project lists no rows.
ListNext ==
    /\ paging # NoProject /\ ~ended
    /\ seen'   = seen \cup page
    /\ page'   = Page(paging, cursor)
    /\ ended'  = ~HasMore(paging, cursor)
    /\ cursor' = NextCursor(paging, cursor)
    /\ cut'    = (cut \/ (cursor # NoAsset /\ ~HasRow(cursor)))
    /\ UNCHANGED <<paging, start, catVars>>

\* The client is through, or gives up.
ListOver ==
    /\ paging # NoProject
    /\ paging' = NoProject /\ cursor' = NoAsset /\ ended' = FALSE
    /\ page' = {} /\ seen' = {} /\ start' = {} /\ cut' = FALSE
    /\ UNCHANGED catVars

Next ==
    \/ CatNext /\ UNCHANGED pagerVars
    \/ ListFirst \/ ListNext \/ ListOver

Spec == Init /\ [][Next]_vars

-----------------------------------------------------------------------------
\* A page lies below every page before it, and at its end a listing has named every
\* row that was there all the time, whatever was uploaded and deleted between its
\* pages; unless the row a page ended with was deleted: then it stops there and looks
\* complete.
ListingIsExact ==
    /\ \A a \in page, b \in seen : a < b
    /\ ended /\ ~cut => start \cap RowsOf(paging) \subseteq seen \cup page
=============================================================================
