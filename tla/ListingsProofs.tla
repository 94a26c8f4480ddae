---------------------------- MODULE ListingsProofs ----------------------------
(***************************************************************************)
(* Theorems about Listings where every transaction inserts one row, as for *)
(* domains and scans: any page size, any number of times and of changes.   *)
(***************************************************************************)
EXTENDS Listings, FiniteSetTheorems, TLAPS

\* No two rows share a creation time.
OneRowPerTransaction == MaxBatch = 1

-----------------------------------------------------------------------------
(* Ranks *)

\* The rank of a row among the rows of S.
RankIn(S, r) == Cardinality({q \in S : q[1] >= r[1]})

\* The rows are finitely many, and so is every part of them.
LEMMA FiniteRows ==
  ASSUME NEW S \in SUBSET Rows
  PROVE  IsFiniteSet(S) /\ Cardinality(S) \in Nat /\ Cardinality(S) <= Cardinality(Rows)
<1>1. IsFiniteSet(1..MaxTime) /\ IsFiniteSet(1..MaxBatch)
  BY PagesAssumption, FS_Interval
<1>2. IsFiniteSet(Rows)
  BY <1>1, FS_Product DEF Rows
<1> QED
  BY <1>2, FS_Subset, FS_CardinalityType

\* One more element makes a set at most one larger.
LEMMA OneMore ==
  ASSUME NEW S, NEW T, NEW x, IsFiniteSet(S), T \subseteq S \cup {x}
  PROVE  IsFiniteSet(T) /\ Cardinality(T) \in Nat /\ Cardinality(T) <= Cardinality(S) + 1
<1>1. IsFiniteSet(S \cup {x}) /\ Cardinality(S \cup {x}) <= Cardinality(S) + 1
  <2>1. Cardinality(S) \in Nat
    BY FS_CardinalityType
  <2> QED
    BY <2>1, FS_AddElement
<1>2. IsFiniteSet(T) /\ Cardinality(T) <= Cardinality(S \cup {x})
  BY <1>1, FS_Subset
<1> QED
  BY <1>1, <1>2, FS_CardinalityType

\* A row is known by its time.
LEMMA TimeNamesRow ==
  ASSUME OneRowPerTransaction, NEW r \in Rows
  PROVE  /\ r[1] \in 1..MaxTime /\ r[1] \in Nat
         /\ r = <<r[1], 1>>
         /\ \A q \in Rows : q[1] = r[1] => q = r
BY PagesAssumption DEF Rows, OneRowPerTransaction

\* A rank is a number from one to the number of rows.
LEMMA RankRange ==
  ASSUME OneRowPerTransaction, NEW S \in SUBSET Rows, NEW r \in S
  PROVE  RankIn(S, r) \in 1..Cardinality(S)
<1> DEFINE T == {q \in S : q[1] >= r[1]}
<1>1. T \in SUBSET S /\ IsFiniteSet(S) /\ Cardinality(S) \in Nat
  BY FiniteRows
<1>2. IsFiniteSet(T) /\ Cardinality(T) \in Nat /\ Cardinality(T) <= Cardinality(S)
  BY <1>1, FS_Subset, FS_CardinalityType
<1>3. r \in T
  BY TimeNamesRow
<1>4. Cardinality(T) # 0
  BY <1>2, <1>3, FS_EmptySet
<1> QED
  BY <1>1, <1>2, <1>4 DEF RankIn

\* The older row comes later.
LEMMA RankStrict ==
  ASSUME OneRowPerTransaction, NEW S \in SUBSET Rows, NEW r \in S, NEW q \in S, r[1] > q[1]
  PROVE  RankIn(S, r) < RankIn(S, q)
<1> DEFINE A == {x \in S : x[1] >= r[1]}
           B == {x \in S : x[1] >= q[1]}
<1>1. \A x \in S : x[1] \in Nat
  BY TimeNamesRow
<1>2. A \in SUBSET B /\ q \in B /\ q \notin A
  BY <1>1
<1>3. IsFiniteSet(B)
  BY FiniteRows
<1>4. Cardinality(A) \in Nat /\ Cardinality(B) \in Nat /\ Cardinality(A) <= Cardinality(B)
  BY <1>2, <1>3, FS_Subset, FS_CardinalityType
<1>5. Cardinality(A) # Cardinality(B)
  BY <1>2, <1>3, FS_Subset
<1> QED
  BY <1>4, <1>5 DEF RankIn

\* The order of ranks is the order of times, newest first.
LEMMA RankOrder ==
  ASSUME OneRowPerTransaction, NEW S \in SUBSET Rows, NEW r \in S, NEW q \in S
  PROVE  /\ RankIn(S, r) < RankIn(S, q) <=> r[1] > q[1]
         /\ RankIn(S, r) = RankIn(S, q) => r = q
<1>1. r[1] \in Nat /\ q[1] \in Nat /\ (r[1] = q[1] => r = q)
  BY TimeNamesRow
<1>2. RankIn(S, r) \in Int /\ RankIn(S, q) \in Int
  <2>1. Cardinality(S) \in Nat
    BY FiniteRows
  <2> QED
    BY <2>1, RankRange
<1>3. r[1] > q[1] => RankIn(S, r) < RankIn(S, q)
  BY RankStrict
<1>4. q[1] > r[1] => RankIn(S, q) < RankIn(S, r)
  BY RankStrict
<1> QED
  BY <1>1, <1>2, <1>3, <1>4

\* Every place is taken by one row.
LEMMA RankBijection ==
  ASSUME OneRowPerTransaction, NEW S \in SUBSET Rows
  PROVE  [r \in S |-> RankIn(S, r)] \in Bijection(S, 1..Cardinality(S))
<1> DEFINE n == Cardinality(S)
           f == [r \in S |-> RankIn(S, r)]
<1>1. IsFiniteSet(S) /\ n \in Nat
  BY FiniteRows
<1>2. f \in Injection(S, 1..n)
  <2>1. f \in [S -> 1..n]
    BY RankRange
  <2>2. \A r, q \in S : f[r] = f[q] => r = q
    BY RankOrder
  <2> QED
    BY <2>1, <2>2 DEF Injection, IsInjective
<1>3. IsFiniteSet(1..n) /\ Cardinality(1..n) = n
  BY <1>1, FS_Interval
<1>4. f \in Surjection(S, 1..n)
  BY <1>2, <1>3, FS_Injection
<1> QED
  BY <1>2, <1>4 DEF Bijection

\* There is a row at every place.
LEMMA RowAtPlace ==
  ASSUME OneRowPerTransaction, NEW S \in SUBSET Rows, NEW k \in 1..Cardinality(S)
  PROVE  \E r \in S : RankIn(S, r) = k
<1>1. [r \in S |-> RankIn(S, r)] \in Surjection(S, 1..Cardinality(S))
  BY RankBijection DEF Bijection
<1> QED
  BY <1>1 DEF Surjection

\* A new row moves the older ones on by one place.
LEMMA RankAfterInsert ==
  ASSUME OneRowPerTransaction, NEW S \in SUBSET Rows, NEW y \in Rows, y \notin S, NEW r \in S
  PROVE  RankIn(S \cup {y}, r) = IF y[1] > r[1] THEN RankIn(S, r) + 1 ELSE RankIn(S, r)
<1> DEFINE A == {q \in S : q[1] >= r[1]}
           B == {q \in S \cup {y} : q[1] >= r[1]}
<1>1. /\ y[1] \in Nat /\ r[1] \in Nat
      /\ y[1] = r[1] => y = r
  BY TimeNamesRow
<1>2. IsFiniteSet(A) /\ y \notin A
  BY FiniteRows
<1>3. CASE y[1] > r[1]
  <2>1. B = A \cup {y}
    BY <1>1, <1>3
  <2>2. Cardinality(B) = Cardinality(A) + 1
    BY <2>1, <1>2, FS_AddElement
  <2> QED
    BY <2>2, <1>3 DEF RankIn
<1>4. CASE ~(y[1] > r[1])
  <2>1. B = A
    BY <1>1, <1>4
  <2> QED
    BY <2>1, <1>4 DEF RankIn
<1> QED
  BY <1>3, <1>4

\* A row that goes lets the older ones move up by one place.
LEMMA RankAfterRemove ==
  ASSUME OneRowPerTransaction, NEW S \in SUBSET Rows, NEW x \in S, NEW r \in S \ {x}
  PROVE  RankIn(S, r) = IF x[1] > r[1] THEN RankIn(S \ {x}, r) + 1 ELSE RankIn(S \ {x}, r)
<1>1. S \ {x} \in SUBSET Rows /\ x \in Rows /\ x \notin S \ {x} /\ (S \ {x}) \cup {x} = S
  OBVIOUS
<1> QED
  BY <1>1, RankAfterInsert

-----------------------------------------------------------------------------
(* Pages *)

\* What the invariant speaks of, in terms of ranks among the rows there are.
LEMMA RankAmongRows == \A r : Rank(r) = RankIn(rows, r)
  BY DEF Rank, NotOlder, RankIn

\* The offset of a page is a number, and that of the next is Limit further.
LEMMA NextOffset ==
  ASSUME NEW n \in Nat \ {0}
  PROVE  /\ (n - 1) * Limit \in Nat
         /\ n * Limit = (n - 1) * Limit + Limit
         /\ ((n + 1) - 1) * Limit = n * Limit
         /\ n - 1 <= (n - 1) * Limit
         /\ Limit \in Nat /\ Limit > 0
BY PagesAssumption

\* The rows of one time are one row, whose place is its rank.
LEMMA OnePlacePerRow ==
  ASSUME OneRowPerTransaction, rows \in SUBSET Rows, NEW r \in rows
  PROVE  CreatedAt(r[1]) = {r} /\ Positions(r[1]) = {Rank(r)}
<1> DEFINE newer == {q \in rows : q[1] > r[1]}
<1>1. CreatedAt(r[1]) = {r}
  BY TimeNamesRow DEF CreatedAt
<1>2. NotOlder(r) = newer \cup {r} /\ r \notin newer
  BY TimeNamesRow DEF NotOlder
<1>3. IsFiniteSet(newer) /\ Cardinality(newer) \in Nat
  BY FiniteRows
<1>4. Rank(r) = Cardinality(newer) + 1
  BY <1>2, <1>3, FS_AddElement DEF Rank
<1>5. Cardinality(CreatedAt(r[1])) = 1
  BY <1>1, FS_Singleton
<1>6. Positions(r[1]) = (Cardinality(newer) + 1)..(Cardinality(newer) + 1)
  BY <1>5 DEF Positions
<1> QED
  BY <1>1, <1>3, <1>4, <1>6

\* The query answers with the rows whose ranks are on the page, and no others.
LEMMA PageContents ==
  ASSUME OneRowPerTransaction, rows \in SUBSET Rows,
         NEW n \in Nat \ {0}, NEW items \in PossiblePages(n)
  PROVE  items = {r \in rows : Rank(r) \in PageRange(n)}
<1>1. items \subseteq rows
  BY DEF PossiblePages
<1>2. ASSUME NEW r \in rows
      PROVE  r \in items <=> Rank(r) \in PageRange(n)
  <2>1. r[1] \in 1..MaxTime
    BY TimeNamesRow
  <2>2. Cardinality(items \cap {r}) = Cardinality({Rank(r)} \cap PageRange(n))
    BY <2>1, OnePlacePerRow DEF PossiblePages
  <2>3. /\ IsFiniteSet({}) /\ Cardinality({}) = 0
        /\ \A x : IsFiniteSet({x}) /\ Cardinality({x}) = 1
    BY FS_EmptySet, FS_Singleton
  <2>4. Cardinality(items \cap {r}) = IF r \in items THEN 1 ELSE 0
    <3>1. items \cap {r} = IF r \in items THEN {r} ELSE {}
      OBVIOUS
    <3> QED
      BY <3>1, <2>3
  <2>5. Cardinality({Rank(r)} \cap PageRange(n)) = IF Rank(r) \in PageRange(n) THEN 1 ELSE 0
    <3>1. {Rank(r)} \cap PageRange(n) = IF Rank(r) \in PageRange(n) THEN {Rank(r)} ELSE {}
      OBVIOUS
    <3> QED
      BY <3>1, <2>3
  <2> QED
    BY <2>2, <2>4, <2>5
<1> QED
  BY <1>1, <1>2

\* A page is short when the rows end on it, and only then.
LEMMA PageLength ==
  ASSUME OneRowPerTransaction, rows \in SUBSET Rows,
         NEW n \in Nat \ {0}, NEW items \in PossiblePages(n)
  PROVE  /\ Cardinality(items) \in Nat
         /\ Cardinality(items) < Limit <=> Cardinality(rows) < n * Limit
<1> DEFINE size == Cardinality(rows)
           lo == (n - 1) * Limit
           hi == IF size < n * Limit THEN size ELSE n * Limit
           f == [r \in items |-> Rank(r)]
<1>1. /\ lo \in Nat /\ n * Limit = lo + Limit
      /\ Limit \in Nat /\ Limit > 0
      /\ size \in Nat /\ hi \in Nat
  BY NextOffset, FiniteRows
<1>2. items = {r \in rows : Rank(r) \in (lo + 1)..(n * Limit)}
  BY PageContents DEF PageRange
<1>3. IsFiniteSet(items) /\ Cardinality(items) \in Nat
  BY <1>2, FiniteRows
<1>4. \A r \in rows : Rank(r) \in 1..size
  BY RankRange, RankAmongRows
<1>5. f \in Bijection(items, (lo + 1)..hi)
  <2>1. f \in [items -> (lo + 1)..hi]
    BY <1>1, <1>2, <1>4
  <2>2. \A r, q \in items : f[r] = f[q] => r = q
    BY <1>2, RankOrder, RankAmongRows
  <2>3. \A k \in (lo + 1)..hi : \E r \in items : f[r] = k
    <3> TAKE k \in (lo + 1)..hi
    <3>1. k \in 1..size
      BY <1>1
    <3>2. PICK r \in rows : Rank(r) = k
      BY <3>1, RowAtPlace, RankAmongRows
    <3>3. r \in items
      BY <3>2, <1>1, <1>2
    <3> QED
      BY <3>2, <3>3
  <2> QED
    BY <2>1, <2>2, <2>3 DEF Bijection, Injection, IsInjective, Surjection
<1>6. Cardinality(items) = Cardinality((lo + 1)..hi)
  BY <1>3, <1>5, FS_Bijection DEF ExistsBijection
<1>7. Cardinality((lo + 1)..hi) = IF lo + 1 > hi THEN 0 ELSE hi - (lo + 1) + 1
  <2>1. lo + 1 \in Int /\ hi \in Int
    BY <1>1
  <2> HIDE DEF lo, hi
  <2> QED
    BY <2>1, FS_Interval
<1> QED
  BY <1>1, <1>3, <1>6, <1>7

-----------------------------------------------------------------------------
(* The steps *)

\* What is counted is finite, and every number of the walk is a natural one.
LEMMA WalkCounts ==
  ASSUME OneRowPerTransaction, WalkInvariant
  PROVE  /\ rows \in SUBSET Rows /\ IsFiniteSet(rows) /\ Cardinality(rows) \in Nat
         /\ page \in Nat \ {0} /\ Offset \in Nat
         /\ repeats \in Nat /\ inserted \in Nat /\ removed \in Nat
         /\ IsFiniteSet(PassedUnseen) /\ Cardinality(PassedUnseen) \in Nat
         /\ IsFiniteSet(SeenAhead) /\ Cardinality(SeenAhead) \in Nat
         /\ \A r \in rows : Rank(r) \in 1..Cardinality(rows) /\ Rank(r) \in Nat
<1>1. rows \in SUBSET Rows
  BY DEF WalkInvariant, TypeOK
<1>2. IsFiniteSet(rows) /\ Cardinality(rows) \in Nat
  BY <1>1, FiniteRows
<1>3. page \in Nat \ {0}
  <2>1. Cardinality(Rows) + MaxBatch * MaxChanges + 1 \in Nat
    BY FiniteRows, PagesAssumption
  <2> QED
    BY <2>1 DEF WalkInvariant, TypeOK
<1>4. Offset \in Nat
  BY <1>3, NextOffset DEF Offset
<1>5. repeats \in Nat /\ inserted \in Nat /\ removed \in Nat
  BY DEF WalkInvariant, TypeOK
<1>6. PassedUnseen \in SUBSET rows /\ SeenAhead \in SUBSET rows
  BY DEF WalkInvariant, TypeOK, PassedUnseen, SeenAhead
<1>7. /\ IsFiniteSet(PassedUnseen) /\ Cardinality(PassedUnseen) \in Nat
      /\ IsFiniteSet(SeenAhead) /\ Cardinality(SeenAhead) \in Nat
  BY <1>1, <1>6, FiniteRows
<1>8. \A r \in rows : Rank(r) \in 1..Cardinality(rows)
  BY <1>1, RankRange, RankAmongRows
<1> QED
  BY <1>1, <1>2, <1>3, <1>4, <1>5, <1>7, <1>8

\* The start: every row is wanted, none was passed and none was shown.
LEMMA StartKeeps ==
  ASSUME OneRowPerTransaction, WalkInvariant, StartWalk
  PROVE  WalkInvariant'
<1> USE DEF StartWalk
<1>1. /\ wanted = {} /\ seen = {} /\ page = 1 /\ total = 0
      /\ repeats = 0 /\ inserted = 0 /\ removed = 0
  BY DEF WalkInvariant, IdleForgets
<1>2. TypeOK'
  BY DEF WalkInvariant, TypeOK
<1>3. /\ rows' = rows /\ page' = page
      /\ \A r : Rank(r)' = Rank(r)
      /\ Offset' = 0
  BY <1>1, PagesAssumption DEF Rank, NotOlder, Offset
<1>4. \A r \in rows : Rank(r) \in Nat /\ Rank(r) > 0
  BY WalkCounts
<1>5. PassedUnseen' = {} /\ SeenAhead' = {} /\ Passed' = {}
  BY <1>1, <1>3, <1>4 DEF PassedUnseen, SeenAhead, Passed
<1>6. Cardinality({}) = 0 /\ Cardinality(rows) \in Nat
  BY FS_EmptySet, WalkCounts
<1> QED
  BY <1>1, <1>2, <1>3, <1>5, <1>6
     DEF WalkInvariant, IdleForgets, FewPassedUnseen, FewSeenAhead, OffsetWithinRows,
         QuietWalk, MissedAtMostRemoved, RepeatedAtMostInserted, QuietTotalIsSeen, Walking

\* Counting changes the total only.
LEMMA CountKeeps ==
  ASSUME OneRowPerTransaction, WalkInvariant, CountRows
  PROVE  WalkInvariant'
<1> USE DEF CountRows
<1>1. /\ \A r : Rank(r)' = Rank(r)
      /\ Offset' = Offset
  BY DEF Rank, NotOlder, Offset
<1>2. PassedUnseen' = PassedUnseen /\ SeenAhead' = SeenAhead /\ Passed' = Passed
  BY <1>1 DEF PassedUnseen, SeenAhead, Passed
<1>3. TypeOK'
  <2>1. Cardinality(rows) \in 0..Cardinality(Rows)
    BY WalkCounts, FiniteRows
  <2> QED
    BY <2>1 DEF WalkInvariant, TypeOK
<1> QED
  BY <1>1, <1>2, <1>3
     DEF WalkInvariant, IdleForgets, FewPassedUnseen, FewSeenAhead, OffsetWithinRows,
         QuietWalk, MissedAtMostRemoved, RepeatedAtMostInserted, QuietTotalIsSeen, Walking

\* A client that gives up its walk is where it began.
LEMMA ForgetKeeps ==
  ASSUME OneRowPerTransaction, WalkInvariant, ForgetWalk
  PROVE  WalkInvariant'
<1> USE DEF ForgetWalk
<1>1. TypeOK'
  <2>1. Cardinality(Rows) \in Nat /\ MaxBatch * MaxChanges \in Nat
    BY FiniteRows, PagesAssumption
  <2> QED
    BY <2>1 DEF WalkInvariant, TypeOK
<1> QED
  BY <1>1
     DEF WalkInvariant, IdleForgets, FewPassedUnseen, FewSeenAhead, OffsetWithinRows,
         QuietWalk, MissedAtMostRemoved, RepeatedAtMostInserted, QuietTotalIsSeen, Walking

\* A page shows the rows just behind the offset.  Those it repeats were shown and
\* lay ahead.
LEMMA PageShows ==
  ASSUME OneRowPerTransaction, WalkInvariant, pc = "select", NEW items \in PossiblePages(page)
  PROVE  /\ items = {r \in rows : Offset < Rank(r) /\ Rank(r) <= Offset + Limit}
         /\ items \cap seen \subseteq SeenAhead
         /\ Cardinality(items \cap seen) \in Nat
         /\ Cardinality(items \cap seen) <= Cardinality(SeenAhead)
         /\ repeats + Cardinality(items \cap seen) <= inserted
<1>1. PageRange(page) = (Offset + 1)..(Offset + Limit)
  BY WalkCounts, NextOffset DEF PageRange, Offset
<1>2. items = {r \in rows : Offset < Rank(r) /\ Rank(r) <= Offset + Limit}
  <2>1. items = {r \in rows : Rank(r) \in (Offset + 1)..(Offset + Limit)}
    BY <1>1, WalkCounts, PageContents
  <2> QED
    BY <2>1, WalkCounts, PagesAssumption
<1>3. items \cap seen \subseteq SeenAhead
  BY <1>2, WalkCounts DEF SeenAhead
<1>4. /\ Cardinality(items \cap seen) \in Nat
      /\ Cardinality(items \cap seen) <= Cardinality(SeenAhead)
  BY <1>3, WalkCounts, FS_Subset, FS_CardinalityType
<1>5. repeats + Cardinality(SeenAhead) <= inserted
  BY DEF WalkInvariant, FewSeenAhead, Walking
<1> QED
  BY <1>2, <1>3, <1>4, <1>5, WalkCounts

\* A full page carries the offset over rows it shows; behind a short one there are
\* no rows.
LEMMA ReadKeeps ==
  ASSUME OneRowPerTransaction, WalkInvariant, ReadPage
  PROVE  WalkInvariant'
<1>1. PICK items \in PossiblePages(page) :
        /\ seen' = seen \cup items
        /\ repeats' = repeats + Cardinality(items \cap seen)
        /\ IF Cardinality(items) < Limit
           THEN pc' = "done" /\ UNCHANGED page
           ELSE pc' = "count" /\ page' = page + 1
  BY DEF ReadPage
<1>2. pc = "select" /\ UNCHANGED <<rows, total, wanted, inserted, removed>> /\ Walking
  BY DEF ReadPage, Walking
<1>3. /\ items = {r \in rows : Offset < Rank(r) /\ Rank(r) <= Offset + Limit}
      /\ items \cap seen \subseteq SeenAhead
      /\ Cardinality(items \cap seen) \in Nat
      /\ repeats' <= inserted
  BY <1>1, <1>2, PageShows
<1>4. \A r : Rank(r)' = Rank(r)
  BY <1>2 DEF Rank, NotOlder
<1>5. /\ Limit \in Nat /\ Limit > 0
      /\ page * Limit = Offset + Limit
      /\ ((page + 1) - 1) * Limit = Offset + Limit
  BY WalkCounts, NextOffset DEF Offset
<1>6. Cardinality(items) < Limit <=> Cardinality(rows) < Offset + Limit
  BY <1>5, WalkCounts, PageLength
<1>7. /\ Cardinality(PassedUnseen) <= removed
      /\ repeats + Cardinality(SeenAhead) <= inserted
      /\ inserted + removed = 0 => seen = Passed /\ total = Cardinality(rows)
  BY <1>2 DEF WalkInvariant, FewPassedUnseen, FewSeenAhead, QuietWalk
<1>8. /\ seen' \subseteq Rows /\ repeats' \in Nat
      /\ wanted' \subseteq rows' /\ rows' \subseteq Rows
      /\ total' \in 0..Cardinality(Rows)
      /\ inserted' + removed' \in 0..(MaxBatch * MaxChanges)
  BY <1>1, <1>2, <1>3, WalkCounts DEF WalkInvariant, TypeOK
<1>9. CASE Cardinality(items) < Limit
  <2>1. pc' = "done" /\ page' = page
    BY <1>1, <1>9
  <2>2. \A r \in rows : Rank(r) <= Offset + Limit
    BY <1>5, <1>6, <1>9, WalkCounts
  <2>3. wanted \ seen' \subseteq PassedUnseen
    <3>1. \A r \in rows : r \in items \/ Rank(r) <= Offset
      BY <1>3, <2>2, WalkCounts
    <3> QED
      BY <1>1, <3>1 DEF PassedUnseen, Passed, WalkInvariant, TypeOK
  <2>4. MissedAtMostRemoved'
    <3>1. /\ Cardinality(wanted \ seen') \in Nat
          /\ Cardinality(wanted \ seen') <= Cardinality(PassedUnseen)
      BY <2>3, WalkCounts, FS_Subset, FS_CardinalityType
    <3> QED
      BY <3>1, <1>2, <1>7, WalkCounts DEF MissedAtMostRemoved
  <2>5. QuietTotalIsSeen'
    <3>1. ASSUME inserted + removed = 0
          PROVE  seen' = rows
      <4>1. seen = {r \in rows : Rank(r) <= Offset}
        BY <1>7, <3>1 DEF Passed
      <4>2. \A r \in rows : r \in items \/ r \in seen
        BY <1>3, <2>2, <4>1, WalkCounts
      <4> QED
        BY <1>1, <1>3, <4>1, <4>2
    <3> QED
      BY <3>1, <1>2, <1>7 DEF QuietTotalIsSeen
  <2>6. TypeOK'
    BY <1>8, <2>1 DEF WalkInvariant, TypeOK
  <2> QED
    BY <2>1, <2>4, <2>5, <2>6, <1>2, <1>3
       DEF WalkInvariant, IdleForgets, FewPassedUnseen, FewSeenAhead, OffsetWithinRows,
           QuietWalk, RepeatedAtMostInserted, Walking
<1>10. CASE ~(Cardinality(items) < Limit)
  <2>1. pc' = "count" /\ page' = page + 1 /\ Offset' = Offset + Limit
    BY <1>1, <1>5, <1>10 DEF Offset
  <2>2. FewPassedUnseen'
    <3>1. PassedUnseen' \subseteq PassedUnseen
      BY <1>1, <1>2, <1>3, <1>4, <2>1, WalkCounts DEF PassedUnseen, Passed
    <3>2. /\ Cardinality(PassedUnseen') \in Nat
          /\ Cardinality(PassedUnseen') <= Cardinality(PassedUnseen)
      BY <3>1, WalkCounts, FS_Subset, FS_CardinalityType
    <3> QED
      BY <3>2, <1>2, <1>7, WalkCounts DEF FewPassedUnseen
  <2>3. FewSeenAhead'
    <3>1. SeenAhead' = SeenAhead \ (items \cap seen)
      BY <1>1, <1>2, <1>3, <1>4, <1>5, <2>1, WalkCounts DEF SeenAhead
    <3>2. SeenAhead \cap (items \cap seen) = items \cap seen
      BY <1>3
    <3>3. Cardinality(SeenAhead') = Cardinality(SeenAhead) - Cardinality(items \cap seen)
      <4> DEFINE again == items \cap seen
      <4>1. IsFiniteSet(SeenAhead)
        BY WalkCounts
      <4> HIDE DEF again
      <4>2. Cardinality(SeenAhead \ again) = Cardinality(SeenAhead) - Cardinality(SeenAhead \cap again)
        BY <4>1, FS_Difference
      <4> QED
        BY <4>2, <3>1, <3>2 DEF again
    <3> QED
      BY <3>3, <1>1, <1>2, <1>3, <1>7, WalkCounts DEF FewSeenAhead
  <2>4. Offset + Limit <= Cardinality(rows) /\ OffsetWithinRows'
    BY <1>2, <1>5, <1>6, <1>10, <2>1, WalkCounts DEF OffsetWithinRows
  <2>5. QuietWalk'
    <3>1. ASSUME inserted + removed = 0
          PROVE  seen' = Passed'
      <4>1. seen = {r \in rows : Rank(r) <= Offset}
        BY <1>7, <3>1 DEF Passed
      <4>2. Passed' = {r \in rows : Rank(r) <= Offset + Limit}
        BY <1>2, <1>4, <2>1 DEF Passed
      <4> QED
        BY <1>1, <1>3, <1>5, <4>1, <4>2, WalkCounts
    <3> QED
      BY <3>1, <1>2, <2>1 DEF QuietWalk
  <2>6. TypeOK'
    <3>1. page - 1 <= Offset
      BY WalkCounts, NextOffset DEF Offset
    <3>2. /\ Cardinality(rows) <= Cardinality(Rows)
          /\ Cardinality(Rows) \in Nat /\ MaxBatch * MaxChanges \in Nat
      BY WalkCounts, FiniteRows, PagesAssumption
    <3>3. page' \in 1..(Cardinality(Rows) + MaxBatch * MaxChanges + 1)
      BY <3>1, <3>2, <1>5, <2>1, <2>4, WalkCounts
    <3> QED
      BY <1>8, <2>1, <3>3 DEF TypeOK
  <2> QED
    BY <2>1, <2>2, <2>3, <2>4, <2>5, <2>6, <1>2, <1>3, WalkCounts
       DEF WalkInvariant, IdleForgets, MissedAtMostRemoved, RepeatedAtMostInserted,
           QuietTotalIsSeen
<1> QED
  BY <1>9, <1>10

\* A row that comes pushes the older ones back: none of the passed rows was
\* unseen before and now counts, and at most one row that was shown lies ahead again.
LEMMA InsertKeeps ==
  ASSUME OneRowPerTransaction, WalkInvariant,
         NEW time \in 1..MaxTime, NEW n \in 1..MaxBatch, InsertRows(time, n)
  PROVE  WalkInvariant'
<1> DEFINE y == <<time, 1>>
<1>1. /\ n = 1 /\ rows' = rows \cup {y}
      /\ y \in Rows /\ y \notin rows /\ y[1] \in Nat
  BY PagesAssumption DEF OneRowPerTransaction, InsertRows, CreatedAt, Rows
<1>2. /\ UNCHANGED <<pc, page, total, wanted, seen, repeats, removed>>
      /\ MayChange(1)
      /\ inserted' = inserted + Counted(1)
      /\ Offset' = Offset
  BY <1>1 DEF InsertRows, Offset
<1>3. Cardinality(rows') = Cardinality(rows) + 1
  BY <1>1, WalkCounts, FS_AddElement
<1>4. TypeOK'
  <2>1. MaxBatch * MaxChanges = MaxChanges * MaxBatch /\ MaxBatch * MaxChanges \in Nat
    BY PagesAssumption
  <2>2. inserted' + removed' \in 0..(MaxBatch * MaxChanges)
    BY <1>2, <2>1, WalkCounts DEF WalkInvariant, TypeOK, Counted, MayChange, Walking
  <2> QED
    BY <1>1, <1>2, <2>2 DEF WalkInvariant, TypeOK
<1>5. inserted' \in Nat
  BY <1>2, WalkCounts DEF Counted
<1>6. CASE pc = "idle"
  BY <1>2, <1>4, <1>5, <1>6
     DEF WalkInvariant, IdleForgets, FewPassedUnseen, FewSeenAhead, OffsetWithinRows,
         QuietWalk, MissedAtMostRemoved, RepeatedAtMostInserted, QuietTotalIsSeen, Walking,
         Counted
<1>7. CASE Walking
  <2>1. Walking' /\ inserted' = inserted + 1 /\ inserted' + removed' > 0
    BY <1>2, <1>7, WalkCounts DEF Counted, Walking
  <2>2. \A r \in rows :
          /\ Rank(r)' = IF y[1] > r[1] THEN Rank(r) + 1 ELSE Rank(r)
          /\ Rank(r)' \in Nat /\ Rank(r) \in Nat /\ Rank(r)' >= Rank(r)
    <3> TAKE r \in rows
    <3>1. Rank(r)' = RankIn(rows', r) /\ Rank(r) = RankIn(rows, r)
      BY DEF Rank, NotOlder, RankIn
    <3>2. Rank(r)' = IF y[1] > r[1] THEN Rank(r) + 1 ELSE Rank(r)
      BY <1>1, <3>1, WalkCounts, RankAfterInsert
    <3> QED
      BY <3>2, WalkCounts
  <2>3. FewPassedUnseen'
    <3>1. PassedUnseen' \subseteq PassedUnseen
      BY <1>2, <2>2, WalkCounts DEF PassedUnseen, Passed, WalkInvariant, TypeOK
    <3>2. /\ Cardinality(PassedUnseen') \in Nat
          /\ Cardinality(PassedUnseen') <= Cardinality(PassedUnseen)
      BY <3>1, WalkCounts, FS_Subset, FS_CardinalityType
    <3>3. Cardinality(PassedUnseen) <= removed
      BY <1>7 DEF WalkInvariant, FewPassedUnseen
    <3> QED
      BY <3>2, <3>3, <1>2, WalkCounts DEF FewPassedUnseen
  <2>4. FewSeenAhead'
    <3>1. \E z : SeenAhead' \subseteq SeenAhead \cup {z}
      <4>1. rows' \in SUBSET Rows
        BY <1>4 DEF TypeOK
      <4>2. \A r \in rows' : Rank(r)' = RankIn(rows', r) /\ Rank(r)' \in Nat
        <5>1. Cardinality(rows') \in Nat
          BY <1>3, WalkCounts
        <5>2. \A r \in rows' : Rank(r)' = RankIn(rows', r)
          BY DEF Rank, NotOlder, RankIn
        <5> QED
          BY <4>1, <5>1, <5>2, RankRange
      <4>3. CASE Rank(y)' > Offset
        <5>1. ASSUME NEW r \in SeenAhead', r # y
              PROVE  r \in SeenAhead
          <6>1. r \in rows /\ r \in seen /\ Rank(r)' > Offset
            BY <1>1, <1>2, <5>1 DEF SeenAhead
          <6>2. CASE y[1] > r[1]
            <7>1. Rank(y)' < Rank(r)'
              BY <1>1, <4>1, <4>2, <6>1, <6>2, RankOrder
            <7> QED
              BY <2>2, <4>2, <4>3, <6>1, <7>1, <1>1, WalkCounts DEF SeenAhead
          <6>3. CASE ~(y[1] > r[1])
            BY <2>2, <6>1, <6>3 DEF SeenAhead
          <6> QED
            BY <6>2, <6>3
        <5> QED
          BY <5>1
      <4>4. CASE ~(Rank(y)' > Offset)
        <5>1. \A r \in SeenAhead' \ SeenAhead : r \in rows' /\ Rank(r)' = Offset + 1
          <6> TAKE r \in SeenAhead' \ SeenAhead
          <6>1. r \in seen /\ Rank(r)' > Offset /\ r \in rows
            BY <1>1, <1>2, <4>4 DEF SeenAhead
          <6>2. ~(Rank(r) > Offset)
            BY <6>1 DEF SeenAhead
          <6> QED
            BY <1>1, <2>2, <6>1, <6>2, WalkCounts
        <5>2. \A r, q \in SeenAhead' \ SeenAhead : r = q
          BY <4>1, <4>2, <5>1, RankOrder
        <5> QED
          BY <5>2
      <4> QED
        BY <4>3, <4>4
    <3>2. Cardinality(SeenAhead') \in Nat /\ Cardinality(SeenAhead') <= Cardinality(SeenAhead) + 1
      BY <3>1, WalkCounts, OneMore
    <3>3. repeats + Cardinality(SeenAhead) <= inserted
      BY <1>7 DEF WalkInvariant, FewSeenAhead
    <3> QED
      BY <1>2, <2>1, <3>2, <3>3, WalkCounts DEF FewSeenAhead
  <2>5. OffsetWithinRows'
    BY <1>2, <1>3, <1>7, WalkCounts DEF WalkInvariant, OffsetWithinRows
  <2>6. RepeatedAtMostInserted'
    BY <1>2, <2>1, WalkCounts DEF WalkInvariant, RepeatedAtMostInserted
  <2> QED
    BY <1>2, <1>4, <1>5, <1>7, <2>1, <2>3, <2>4, <2>5, <2>6
       DEF WalkInvariant, IdleForgets, QuietWalk, MissedAtMostRemoved, QuietTotalIsSeen, Walking
<1> QED
  BY <1>2, <1>6, <1>7 DEF MayChange

\* A row that goes lets the older ones move up: at most one of them, not shown
\* yet, is passed now, and none that was shown comes to lie ahead.
LEMMA RemoveKeeps ==
  ASSUME OneRowPerTransaction, WalkInvariant, NEW x \in Rows, RemoveRow(x)
  PROVE  WalkInvariant'
<1>1. /\ x \in rows /\ rows' = rows \ {x} /\ wanted' = wanted \ {x}
      /\ UNCHANGED <<pc, page, total, seen, repeats, inserted>>
      /\ MayChange(1)
      /\ removed' = removed + Counted(1)
      /\ Offset' = Offset
      /\ rows' \in SUBSET Rows
  BY WalkCounts DEF RemoveRow, Offset
<1>2. Cardinality(rows') = Cardinality(rows) - 1
  BY <1>1, WalkCounts, FS_RemoveElement
<1>3. TypeOK'
  <2>1. MaxBatch * MaxChanges = MaxChanges * MaxBatch /\ MaxBatch * MaxChanges \in Nat
    BY PagesAssumption
  <2>2. inserted' + removed' \in 0..(MaxBatch * MaxChanges)
    BY <1>1, <2>1, WalkCounts DEF WalkInvariant, TypeOK, Counted, MayChange, Walking
  <2> QED
    BY <1>1, <2>2 DEF WalkInvariant, TypeOK
<1>4. removed' \in Nat
  BY <1>1, WalkCounts DEF Counted
<1>5. CASE pc = "idle"
  BY <1>1, <1>3, <1>4, <1>5
     DEF WalkInvariant, IdleForgets, FewPassedUnseen, FewSeenAhead, OffsetWithinRows,
         QuietWalk, MissedAtMostRemoved, RepeatedAtMostInserted, QuietTotalIsSeen, Walking,
         Counted
<1>6. CASE Walking
  <2>1. Walking' /\ removed' = removed + 1 /\ inserted' + removed' > 0
    BY <1>1, <1>6, WalkCounts DEF Counted, Walking
  <2>2. \A r \in rows' :
          /\ Rank(r) = IF x[1] > r[1] THEN Rank(r)' + 1 ELSE Rank(r)'
          /\ Rank(r)' = RankIn(rows', r) /\ Rank(r)' \in Nat /\ Rank(r) \in Nat
    <3> TAKE r \in rows'
    <3>1. Rank(r)' = RankIn(rows', r) /\ Rank(r) = RankIn(rows, r)
      BY DEF Rank, NotOlder, RankIn
    <3>2. Rank(r) = IF x[1] > r[1] THEN Rank(r)' + 1 ELSE Rank(r)'
      BY <1>1, <3>1, WalkCounts, RankAfterRemove
    <3>3. Cardinality(rows') \in Nat
      BY <1>1, FiniteRows
    <3>4. Rank(r)' \in Nat
      BY <1>1, <3>1, <3>3, RankRange
    <3> QED
      BY <1>1, <3>1, <3>2, <3>4, WalkCounts
  <2>3. FewPassedUnseen'
    <3>1. \E z : PassedUnseen' \subseteq PassedUnseen \cup {z}
      <4>1. \A r \in PassedUnseen' \ PassedUnseen : r \in rows' /\ Rank(r)' = Offset
        <5> TAKE r \in PassedUnseen' \ PassedUnseen
        <5>1. r \in rows' /\ r \in wanted /\ r \notin seen /\ Rank(r)' <= Offset
          BY <1>1 DEF PassedUnseen, Passed
        <5>2. ~(Rank(r) <= Offset)
          BY <1>1, <5>1 DEF PassedUnseen, Passed
        <5> QED
          BY <2>2, <5>1, <5>2, WalkCounts
      <4>2. \A r, q \in PassedUnseen' \ PassedUnseen : r = q
        BY <1>1, <2>2, <4>1, RankOrder
      <4> QED
        BY <4>2
    <3>2. /\ Cardinality(PassedUnseen') \in Nat
          /\ Cardinality(PassedUnseen') <= Cardinality(PassedUnseen) + 1
      BY <3>1, WalkCounts, OneMore
    <3>3. Cardinality(PassedUnseen) <= removed
      BY <1>6 DEF WalkInvariant, FewPassedUnseen
    <3> QED
      BY <2>1, <3>2, <3>3, WalkCounts DEF FewPassedUnseen
  <2>4. FewSeenAhead'
    <3>1. SeenAhead' \subseteq SeenAhead
      BY <1>1, <2>2, WalkCounts DEF SeenAhead
    <3>2. Cardinality(SeenAhead') \in Nat /\ Cardinality(SeenAhead') <= Cardinality(SeenAhead)
      BY <3>1, WalkCounts, FS_Subset, FS_CardinalityType
    <3>3. repeats + Cardinality(SeenAhead) <= inserted
      BY <1>6 DEF WalkInvariant, FewSeenAhead
    <3> QED
      BY <1>1, <3>2, <3>3, WalkCounts DEF FewSeenAhead
  <2>5. OffsetWithinRows'
    BY <1>1, <1>2, <1>6, <2>1, WalkCounts DEF WalkInvariant, OffsetWithinRows
  <2> QED
    BY <1>1, <1>3, <1>4, <1>6, <2>1, <2>3, <2>4, <2>5
       DEF WalkInvariant, IdleForgets, QuietWalk, MissedAtMostRemoved,
           RepeatedAtMostInserted, QuietTotalIsSeen, Walking
<1> QED
  BY <1>1, <1>5, <1>6 DEF MayChange

-----------------------------------------------------------------------------
(* The theorems *)

\* The invariant of a walk holds in every state: the walk has missed at most as
\* many of the rows behind it as went meanwhile, and what lies ahead of it and was
\* shown is at most what came.
THEOREM WalkInvariantHolds ==
  ASSUME OneRowPerTransaction
  PROVE  Spec => []WalkInvariant
<1>1. Init => WalkInvariant
  <2> SUFFICES ASSUME Init PROVE WalkInvariant
    OBVIOUS
  <2> USE DEF Init
  <2>1. Cardinality(Rows) \in Nat /\ MaxBatch * MaxChanges \in Nat
    BY FiniteRows, PagesAssumption
  <2>2. TypeOK
    BY <2>1 DEF TypeOK
  <2> QED
    BY <2>2
       DEF WalkInvariant, IdleForgets, FewPassedUnseen, FewSeenAhead, OffsetWithinRows,
           QuietWalk, MissedAtMostRemoved, RepeatedAtMostInserted, QuietTotalIsSeen, Walking
<1>2. WalkInvariant /\ [Next]_vars => WalkInvariant'
  <2> SUFFICES ASSUME WalkInvariant, [Next]_vars
               PROVE  WalkInvariant'
    OBVIOUS
  <2>1. CASE StartWalk
    BY <2>1, StartKeeps
  <2>2. CASE CountRows
    BY <2>2, CountKeeps
  <2>3. CASE ReadPage
    BY <2>3, ReadKeeps
  <2>4. CASE ForgetWalk
    BY <2>4, ForgetKeeps
  <2>5. ASSUME NEW time \in 1..MaxTime, NEW n \in 1..MaxBatch, InsertRows(time, n)
        PROVE  WalkInvariant'
    BY <2>5, InsertKeeps
  <2>6. ASSUME NEW r \in Rows, RemoveRow(r)
        PROVE  WalkInvariant'
    BY <2>6, RemoveKeeps
  <2>7. CASE UNCHANGED vars
    BY <2>7
       DEF vars, walkVars, WalkInvariant, TypeOK, IdleForgets, FewPassedUnseen, FewSeenAhead,
           OffsetWithinRows, QuietWalk, MissedAtMostRemoved, RepeatedAtMostInserted,
           QuietTotalIsSeen, Walking, PassedUnseen, SeenAhead, Passed, Offset, Rank, NotOlder
  <2> QED
    BY <2>1, <2>2, <2>3, <2>4, <2>5, <2>6, <2>7 DEF Next
<1> QED
  BY <1>1, <1>2, PTL DEF Spec

\* Every variable of a walk stays in its range: in particular a walk ends after at
\* most as many pages as there can be rows and changes.
THEOREM TypeCorrect ==
  ASSUME OneRowPerTransaction
  PROVE  Spec => []TypeOK
<1>1. WalkInvariant => TypeOK
  BY DEF WalkInvariant
<1> QED
  BY <1>1, WalkInvariantHolds, PTL

\* A client that walks through all pages misses at most one row for every row that
\* was removed meanwhile, whatever is inserted: an insertion never hides a row.
THEOREM MissedHolds ==
  ASSUME OneRowPerTransaction
  PROVE  Spec => []MissedAtMostRemoved
<1>1. WalkInvariant => MissedAtMostRemoved
  BY DEF WalkInvariant
<1> QED
  BY <1>1, WalkInvariantHolds, PTL

\* It is shown a row again at most once for every row that came meanwhile, however
\* many are removed.
THEOREM RepeatedHolds ==
  ASSUME OneRowPerTransaction
  PROVE  Spec => []RepeatedAtMostInserted
<1>1. WalkInvariant => RepeatedAtMostInserted
  BY DEF WalkInvariant
<1> QED
  BY <1>1, WalkInvariantHolds, PTL

\* If nothing changes the total a client is told is the number of rows it is shown.
THEOREM QuietTotalHolds ==
  ASSUME OneRowPerTransaction
  PROVE  Spec => []QuietTotalIsSeen
<1>1. WalkInvariant => QuietTotalIsSeen
  BY DEF WalkInvariant
<1> QED
  BY <1>1, WalkInvariantHolds, PTL

=============================================================================
