------------------------------- MODULE Listings -------------------------------
(***************************************************************************)
(* The paginated listings (GET /domains, /domains/{id}/scans, /assets):    *)
(* each request counts the rows that match and then reads one page of them *)
(* by offset, newest first, in two statements.  A client walks through the *)
(* pages until one is short, while other transactions commit.              *)
(*                                                                         *)
(* created_at is the start time of the inserting transaction: rows of one  *)
(* transaction share it, and transactions may commit in another order than *)
(* they started.  Rows with the same created_at come in an order that may  *)
(* differ from query to query.                                             *)
(***************************************************************************)
EXTENDS Naturals, FiniteSets

CONSTANTS
  Limit,      \* rows on a page: the limit asked for, clamped to 1..max_page_size
  MaxTime,    \* bound: values of created_at
  MaxBatch,   \* rows one transaction inserts: 1 for domains and scans
  MaxChanges  \* bound: transactions that commit during one walk

ASSUME PagesAssumption ==
  /\ Limit \in Nat \ {0}
  /\ MaxTime \in Nat
  /\ MaxBatch \in Nat \ {0}
  /\ MaxChanges \in Nat

VARIABLES
  rows,      \* the rows that match the listing's filter
  pc,        \* where the client's walk is
  page,      \* the page it asks for
  total,     \* the total it was told last
  (* history of the walk *)
  wanted,    \* rows that have been there since the walk began
  seen,      \* rows it has been shown
  repeats,   \* how many rows it has been shown again
  inserted,  \* how many rows came during the walk
  removed    \* how many rows went during the walk

walkVars == <<pc, page, total, wanted, seen, repeats, inserted, removed>>
vars == <<rows, walkVars>>

\* A row is named <<created_at, i>>.
Rows == (1..MaxTime) \X (1..MaxBatch)
CreatedAt(time) == {r \in rows : r[1] = time}

\* Every variable stays in its range, and a walk that is over has been through
\* every page but the last.
TypeOK ==
  /\ rows \subseteq Rows
  /\ pc \in {"idle", "count", "select", "done"}
  /\ page \in 1..(Cardinality(Rows) + MaxBatch * MaxChanges + 1)
  /\ total \in 0..Cardinality(Rows)
  /\ wanted \subseteq rows
  /\ seen \subseteq Rows
  /\ repeats \in Nat
  /\ inserted + removed \in 0..(MaxBatch * MaxChanges)

-----------------------------------------------------------------------------
(* Slips the properties must catch. They are no part of the specification. *)

\* offset = page * limit
SkipFirstPage(n) == (n * Limit + 1)..((n + 1) * Limit)

\* offset = (page - 1) * limit - 1
OverlapByOne(n) == ((n - 1) * Limit)..(n * Limit)

\* The offset is not passed on.
FirstPageAlways(n) == 1..Limit

-----------------------------------------------------------------------------
(* One page *)

\* .order_by(created_at.desc()): the positions the rows of one time share.
Positions(time) ==
  LET newer == Cardinality({r \in rows : r[1] > time})
  IN (newer + 1)..(newer + Cardinality(CreatedAt(time)))

\* .offset((page - 1) * limit).limit(limit)
PageRange(n) == ((n - 1) * Limit + 1)..(n * Limit)

\* The sets of rows the query may answer with.
PossiblePages(n) ==
  {S \in SUBSET rows : \A time \in 1..MaxTime :
     Cardinality(S \cap CreatedAt(time)) = Cardinality(Positions(time) \cap PageRange(n))}

\* Another slip: total = len(items)
CountPage ==
  /\ pc = "count"
  /\ total' \in {Cardinality(S) : S \in PossiblePages(page)}
  /\ pc' = "select"
  /\ UNCHANGED <<rows, page, wanted, seen, repeats, inserted, removed>>

-----------------------------------------------------------------------------
(* The client *)

Init ==
  /\ rows = {}
  /\ pc = "idle"
  /\ page = 1
  /\ total = 0
  /\ wanted = {}
  /\ seen = {}
  /\ repeats = 0
  /\ inserted = 0
  /\ removed = 0

StartWalk ==
  /\ pc = "idle"
  /\ pc' = "count"
  /\ wanted' = rows
  /\ UNCHANGED <<rows, page, total, seen, repeats, inserted, removed>>

\* select(func.count())
CountRows ==
  /\ pc = "count"
  /\ total' = Cardinality(rows)
  /\ pc' = "select"
  /\ UNCHANGED <<rows, page, wanted, seen, repeats, inserted, removed>>

\* The page is read in a second statement. The client asks for the next one
\* unless this one is short.
ReadPage ==
  /\ pc = "select"
  /\ \E items \in PossiblePages(page) :
       /\ seen' = seen \cup items
       /\ repeats' = repeats + Cardinality(items \cap seen)
       /\ IF Cardinality(items) < Limit
          THEN pc' = "done" /\ UNCHANGED page
          ELSE pc' = "count" /\ page' = page + 1
  /\ UNCHANGED <<rows, total, wanted, inserted, removed>>

ForgetWalk ==
  /\ pc = "done"
  /\ pc' = "idle"
  /\ page' = 1
  /\ total' = 0
  /\ wanted' = {}
  /\ seen' = {}
  /\ repeats' = 0
  /\ inserted' = 0
  /\ removed' = 0
  /\ UNCHANGED rows

-----------------------------------------------------------------------------
(* Other transactions *)

\* Only changes during a walk are counted, and bounded.
Walking == pc \in {"count", "select"}
MayChange(n) == pc = "idle" \/ (Walking /\ inserted + removed + n <= MaxChanges * MaxBatch)
Counted(n) == IF Walking THEN n ELSE 0

\* A transaction that started at this time commits its rows. (Or the status of a
\* domain comes to match the filter.)
InsertRows(time, n) ==
  /\ CreatedAt(time) = {}
  /\ MayChange(n)
  /\ rows' = rows \cup {<<time, i>> : i \in 1..n}
  /\ inserted' = inserted + Counted(n)
  /\ UNCHANGED <<pc, page, total, wanted, seen, repeats, removed>>

\* A row is deleted, or does not match the filter any more. (The rows a cascade
\* deletes go one by one here, which can only show a client more.)
RemoveRow(r) ==
  /\ r \in rows
  /\ MayChange(1)
  /\ rows' = rows \ {r}
  /\ wanted' = wanted \ {r}
  /\ removed' = removed + Counted(1)
  /\ UNCHANGED <<pc, page, total, seen, repeats, inserted>>

Next ==
  \/ StartWalk
  \/ CountRows
  \/ ReadPage
  \/ ForgetWalk
  \/ \E time \in 1..MaxTime, n \in 1..MaxBatch : InsertRows(time, n)
  \/ \E r \in Rows : RemoveRow(r)

Spec == Init /\ [][Next]_vars

-----------------------------------------------------------------------------

\* A client that walks through all pages misses at most one row for every row
\* that was removed meanwhile, and none if none was: every row that is there from
\* beginning to end is shown, whatever is inserted and in whatever order it
\* commits.
MissedAtMostRemoved == pc = "done" => Cardinality(wanted \ seen) <= removed

\* If nothing changes the total is what the client has seen in the end.
QuietTotalIsSeen ==
  (pc = "done" /\ inserted + removed = 0) => total = Cardinality(seen)

\* It is shown a row again at most once for every row that came meanwhile.
RepeatedAtMostInserted == repeats <= inserted
-----------------------------------------------------------------------------
(* Why they hold. With one row per transaction a row has one place in the      *)
(* listing, its rank, and the walk has passed the rows up to its offset.       *)

NotOlder(r) == {q \in rows : q[1] >= r[1]}
Rank(r) == Cardinality(NotOlder(r))
Offset == (page - 1) * Limit
Passed == {r \in rows : Rank(r) <= Offset}

\* Before a walk nothing is remembered of the one before.
IdleForgets ==
  pc = "idle" => /\ wanted = {} /\ seen = {}
                 /\ page = 1 /\ total = 0
                 /\ repeats = 0 /\ inserted = 0 /\ removed = 0

\* A row that goes pulls at most one row that was not shown over the offset, and
\* no row that comes does.
PassedUnseen == (wanted \cap Passed) \ seen
FewPassedUnseen == Walking => Cardinality(PassedUnseen) <= removed

\* A row that comes pushes at most one row that was shown back behind the offset,
\* or is one that was shown before: it may be shown again.
SeenAhead == {r \in seen \cap rows : Rank(r) > Offset}
FewSeenAhead == Walking => repeats + Cardinality(SeenAhead) <= inserted

\* The offset only runs ahead of the rows by those that went.
OffsetWithinRows == Walking => Offset <= Cardinality(rows) + removed

\* As long as nothing changes the walk has been shown what it has passed.
QuietWalk ==
  (Walking /\ inserted + removed = 0) => /\ seen = Passed
                                         /\ pc = "select" => total = Cardinality(rows)

\* The invariant of a walk through rows that come one per transaction.
WalkInvariant ==
  /\ TypeOK
  /\ inserted \in Nat /\ removed \in Nat
  /\ IdleForgets
  /\ FewPassedUnseen
  /\ FewSeenAhead
  /\ OffsetWithinRows
  /\ QuietWalk
  /\ MissedAtMostRemoved
  /\ RepeatedAtMostInserted
  /\ QuietTotalIsSeen

=============================================================================
