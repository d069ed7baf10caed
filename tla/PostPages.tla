------------------------------- MODULE PostPages -------------------------------
(***************************************************************************)
(* A list of posts read page by page, with a cursor of date and id, while rows   *)
(* are made, shown and hidden.  What a list shows is the subject of PostAccess;  *)
(* here a row is in the list or not.  The lists of posts, of replies and of        *)
(* search results page in the same way.                                        *)
(***************************************************************************)
EXTENDS Naturals, FiniteSets

CONSTANTS
    Rows,       \* the ids of the rows, in the order of their comparison
    PageLimit,  \* limit
    MaxDate     \* bound: the dates of the rows

ASSUME PagesAssumption ==
    /\ Rows \subseteq Nat /\ IsFiniteSet(Rows) /\ 0 \notin Rows
    /\ PageLimit \in Nat \ {0} /\ MaxDate \in Nat \ {0}

VARIABLES
    now,        \* the clock of the processes
    createdAt,  \* created_at of each row that was made, 0 before
    listed,     \* the rows that the list's conditions select
    pager,      \* the client that reads the list: where it is, its cursor, the page it has
    seen,       \* history: how often each row was in a page
    steady      \* history: the rows that have been in the list since the first page

pagesVars == <<now, createdAt, listed, pager, seen, steady>>

-----------------------------------------------------------------------------
Start == [createdAt |-> 0, id |-> 0]        \* no cursor

\* ORDER BY created_at DESC, id DESC
ComesBefore(a, b) ==
    \/ createdAt[a] > createdAt[b]
    \/ createdAt[a] = createdAt[b] /\ a > b

First(rows, n) == {a \in rows : Cardinality({b \in rows : ComesBefore(b, a)}) < n}

\* Mutant of AfterCursor: rows of the cursor's date are skipped.
AfterDate(cursor) ==
    {a \in listed : cursor = Start \/ createdAt[a] < cursor.createdAt}

AfterCursor(cursor) ==
    {a \in listed :
        \/ cursor = Start
        \/ createdAt[a] < cursor.createdAt
        \/ createdAt[a] = cursor.createdAt /\ a < cursor.id}

-----------------------------------------------------------------------------
(* The rows *)

Tick ==
    /\ now < MaxDate
    /\ now' = now + 1
    /\ UNCHANGED <<createdAt, listed, pager, seen, steady>>

\* The entity takes its date from the process; its row is inserted later.
Create(a) ==
    /\ createdAt[a] = 0
    /\ createdAt' = [createdAt EXCEPT ![a] = now]
    /\ UNCHANGED <<now, listed, pager, seen, steady>>

\* Inserts, deletions, and changes of the audience, of friendships and blocks.
ChangeListed(a) ==
    /\ createdAt[a] # 0
    /\ listed' = IF a \in listed THEN listed \ {a} ELSE listed \union {a}
    /\ steady' = steady \intersect listed'
    /\ UNCHANGED <<now, createdAt, pager, seen>>

-----------------------------------------------------------------------------
(* get-new-feeds and the other lists *)

\* nextCursor is the last row of the page, if the query returned more than the page has.
ReadPage ==
    /\ pager.pc = "reading"
    /\ LET results == First(AfterCursor(pager.cursor), PageLimit + 1)
           page == First(results, PageLimit)
           last == CHOOSE a \in page : \A b \in page \ {a} : ComesBefore(b, a)
       IN  /\ seen' = [a \in Rows |-> IF a \in page THEN seen[a] + 1 ELSE seen[a]]
           /\ steady' = IF pager.cursor = Start THEN listed ELSE steady
           /\ pager' = IF Cardinality(results) > PageLimit
                       THEN [pager EXCEPT !.cursor = [createdAt |-> createdAt[last], id |-> last]]
                       ELSE [pc |-> "done", cursor |-> Start]
    /\ UNCHANGED <<now, createdAt, listed>>

-----------------------------------------------------------------------------
PagesInit ==
    /\ now = 1
    /\ createdAt = [a \in Rows |-> 0]
    /\ listed = {}
    /\ pager = [pc |-> "reading", cursor |-> Start]
    /\ seen = [a \in Rows |-> 0]
    /\ steady = {}

PagesNext == Tick \/ ReadPage \/ \E a \in Rows : Create(a) \/ ChangeListed(a)

PagesSpec == PagesInit /\ [][PagesNext]_pagesVars

-----------------------------------------------------------------------------
(* Properties                                                              *)

PagesTypeOK ==
    /\ now \in 1..MaxDate
    /\ createdAt \in [Rows -> 0..now]
    /\ listed \subseteq {a \in Rows : createdAt[a] # 0}
    /\ pager \in [pc : {"reading", "done"}, cursor : [createdAt : 0..now, id : Rows \union {0}]]
    /\ seen \in [Rows -> 0..Cardinality(Rows)]
    /\ steady \subseteq listed

\* Whoever follows the cursors to the end has got every row that stayed in the list, and no
\* row twice, whatever is inserted, deleted, hidden or of the same date meanwhile ("using _id
\* as a tie-breaker prevents paging duplicates/misses", findPostsForSearch).
EachOnceInPages ==
    /\ \A a \in Rows : seen[a] <= 1
    /\ pager.pc = "done" => \A a \in steady : seen[a] = 1
=============================================================================
