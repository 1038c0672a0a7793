--------------------------- MODULE CursorPagination ---------------------------
(***************************************************************************)
(* The lists of the admin console (users, organizations, audit log): pages *)
(* of rows ordered by creation time and id, newest first, each fetched     *)
(* with a cursor made of the last row of the page before.                  *)
(*                                                                         *)
(* PostgreSQL keeps microseconds.  The cursor is made of a JavaScript Date *)
(* and keeps milliseconds, while the column it is compared with and the    *)
(* order of the rows are the exact ones.                                   *)
(***************************************************************************)
EXTENDS Integers, FiniteSets, Sequences

CONSTANTS
    RowIds,         \* ids, numbered in their order
    Times,          \* creation times in microseconds
    Micros,         \* microseconds in a millisecond
    PageSize        \* the parameter limit

ASSUME CursorAssumption ==
    /\ RowIds \subseteq Nat /\ IsFiniteSet(RowIds)
    /\ Times \subseteq Nat
    /\ Micros \in Nat \ {0} /\ PageSize \in Nat \ {0}

VARIABLES
    createdAt,      \* of the rows of the table
    matching,       \* rows the filters of the list select
    pages,          \* pages on the screen
    cursor,         \* what the next page is asked for with
    steady          \* rows selected ever since the first page was fetched

cursorVars == <<createdAt, matching, pages, cursor, steady>>

FromStart == [at |-> "start"]
AtEnd == [at |-> "end"]         \* hasMore is FALSE

\* Date.toISOString
Millisecond(t) == (t \div Micros) * Micros

EncodeCursor(i) == [at |-> "row", t |-> Millisecond(createdAt[i]), i |-> i]

CursorTypeOK ==
    /\ \E inTable \in SUBSET RowIds :
         createdAt \in [inTable -> Times] /\ matching \subseteq inTable
    /\ pages \in Seq(SUBSET RowIds)
    /\ steady \subseteq matching

CursorInit ==
    /\ \E inTable \in SUBSET RowIds : createdAt \in [inTable -> Times]
    /\ matching = DOMAIN createdAt
    /\ pages = <<>>
    /\ cursor = FromStart
    /\ steady = {}

-----------------------------------------------------------------------------
\* a row of the table: orderBy(desc(timestamp), desc(id))
Before(i, j) ==
    \/ createdAt[i] > createdAt[j]
    \/ createdAt[i] = createdAt[j] /\ i > j

\* mutant: <= in place of <
NotBeforeCursor(c, i) ==
    \/ c.at = "start"
    \/ /\ c.at = "row"
       /\ createdAt[i] < c.t \/ (createdAt[i] = c.t /\ i <= c.i)

\* buildCursorCondition
AfterCursor(c, i) ==
    \/ c.at = "start"
    \/ /\ c.at = "row"
       /\ createdAt[i] < c.t \/ (createdAt[i] = c.t /\ i < c.i)

LastOf(page) == CHOOSE i \in page : \A j \in page \ {i} : Before(j, i)

\* the rows of the query, and the newest PageSize of them
Candidates == {i \in matching : AfterCursor(cursor, i)}

IsPage(page) ==
    /\ page \subseteq Candidates
    /\ \A i \in page, j \in Candidates \ page : Before(i, j)
    /\ IF Cardinality(Candidates) > PageSize THEN Cardinality(page) = PageSize
       ELSE page = Candidates

\* the row PageSize + 1, which the query asks for as well
HasMore(page) == Cardinality(Candidates) > PageSize

-----------------------------------------------------------------------------
(* useCursorPagination: the first page, loadMore and refetch               *)

FetchPage ==
    /\ cursor # AtEnd
    /\ \E page \in SUBSET RowIds :
         /\ IsPage(page)
         /\ pages' = Append(pages, page)
         /\ cursor' = IF HasMore(page) THEN EncodeCursor(LastOf(page)) ELSE AtEnd
    /\ steady' = IF cursor = FromStart THEN matching ELSE steady
    /\ UNCHANGED <<createdAt, matching>>

\* another filter, or all pages again from the first
Reload ==
    /\ pages # <<>>
    /\ pages' = <<>>
    /\ cursor' = FromStart
    /\ steady' = {}
    /\ UNCHANGED <<createdAt, matching>>

\* A transaction commits a row with the time at which it began (defaultNow),
\* which may be earlier than that of rows on the screen.
InsertRow(i, t) ==
    /\ i \notin DOMAIN createdAt
    /\ createdAt' = [j \in DOMAIN createdAt \cup {i} |->
                       IF j = i THEN t ELSE createdAt[j]]
    /\ matching' = matching \cup {i}
    /\ UNCHANGED <<pages, cursor, steady>>

\* ban, archival, restoration: a user or an organization changes its status
ChangeStatus(i) ==
    /\ i \in DOMAIN createdAt
    /\ matching' = IF i \in matching THEN matching \ {i} ELSE matching \cup {i}
    /\ steady' = steady \ {i}
    /\ UNCHANGED <<createdAt, pages, cursor>>

CursorNext ==
    \/ FetchPage
    \/ Reload
    \/ \E i \in RowIds :
         \/ \E t \in Times : InsertRow(i, t)
         \/ ChangeStatus(i)

CursorSpec == CursorInit /\ [][CursorNext]_cursorVars

-----------------------------------------------------------------------------
(* Properties                                                              *)

Listed == UNION {pages[k] : k \in DOMAIN pages}

\* the pages that were not the last one
FullPages == {k \in DOMAIN pages : k < Len(pages) \/ cursor # AtEnd}

\* the walk has gone past the place of row i
Passed(i) ==
    \/ cursor = AtEnd
    \/ pages # <<>> /\ Before(i, LastOf(pages[Len(pages)]))

\* Whatever is inserted, archived or restored between two pages, the list is
\* in order and shows no row twice, and a row that was there all the time is
\* missing only if it shares the millisecond of the last row of a page: the
\* cursor forgot the microseconds, and the rest of that millisecond with them.
PagesInv ==
    /\ CursorTypeOK
    /\ \A k \in DOMAIN pages : \A n \in 1..(k - 1) :
         \A i \in pages[n], j \in pages[k] : Before(i, j)
    /\ \A i \in steady \ Listed :
         Passed(i) =>
            \E k \in FullPages :
               Millisecond(createdAt[i]) = Millisecond(createdAt[LastOf(pages[k])])
=============================================================================
