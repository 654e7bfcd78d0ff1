----------------------------- MODULE ListingProofs -----------------------------
(***************************************************************************)
(* What a client that walks a list page by page gets, for every number of  *)
(* rows, every page size and every number of insertions and deletions      *)
(* between two pages.  The argument is one of positions: the rows of a     *)
(* query with an order stand at the positions 0, 1, 2 ..., one at each, so *)
(* an insertion or a deletion moves at most one row across the offset that *)
(* the client has reached.                                                 *)
(***************************************************************************)
EXTENDS Listing, FiniteSetTheorems, TLAPS

(***************************************************************************)
(* Sizes of sets of rows.                                                  *)
(***************************************************************************)
LEMMA Sized ==
    \A S \in SUBSET (1..MaxId) : IsFiniteSet(S) /\ Cardinality(S) \in 0..MaxId
<1>1. MaxId \in Nat /\ IsFiniteSet(1..MaxId) /\ Cardinality(1..MaxId) = MaxId
  BY ListingAssumption, FS_Interval
<1> TAKE S \in SUBSET (1..MaxId)
<1>2. IsFiniteSet(S) /\ Cardinality(S) <= MaxId
  BY <1>1, FS_Subset
<1>3. Cardinality(S) \in Nat
  BY <1>2, FS_CardinalityType
<1> QED BY <1>1, <1>2, <1>3

LEMMA Smaller ==
    ASSUME NEW S \in SUBSET (1..MaxId), NEW T \in SUBSET S
    PROVE  Cardinality(T) <= Cardinality(S)
BY Sized, FS_Subset

(* A set with at most one element that another lacks.                      *)
LEMMA OneMore ==
    ASSUME NEW S \in SUBSET (1..MaxId), NEW T \in SUBSET (1..MaxId),
           \A q, r \in T : q \notin S /\ r \notin S => q = r
    PROVE  Cardinality(T) <= Cardinality(S) + 1
<1>1. Cardinality(S) \in Nat /\ Cardinality(T) \in Nat /\ IsFiniteSet(S)
  BY Sized
<1>2. CASE T \subseteq S
  BY <1>1, <1>2, Smaller
<1>3. CASE ~(T \subseteq S)
  <2>1. PICK q \in T : q \notin S
    BY <1>3
  <2>2. T \in SUBSET (S \cup {q})
    BY <2>1
  <2>3. IsFiniteSet(S \cup {q}) /\ Cardinality(S \cup {q}) = Cardinality(S) + 1
    BY <1>1, <2>1, FS_AddElement
  <2>4. Cardinality(T) <= Cardinality(S \cup {q})
    BY <2>2, <2>3, FS_Subset
  <2> QED BY <2>3, <2>4
<1> QED BY <1>2, <1>3

(* Two disjoint parts of a set.                                            *)
LEMMA Parts ==
    ASSUME NEW S \in SUBSET (1..MaxId), NEW T \in SUBSET S, NEW U \in SUBSET S, T \cap U = {}
    PROVE  Cardinality(T) + Cardinality(U) <= Cardinality(S)
<1>1. /\ IsFiniteSet(S) /\ IsFiniteSet(T) /\ IsFiniteSet(U)
      /\ Cardinality(S) \in Nat /\ Cardinality(T) \in Nat /\ Cardinality(U) \in Nat
  BY Sized
<1>2. Cardinality(T \cup U) = Cardinality(T) + Cardinality(U) - Cardinality(T \cap U)
  BY <1>1, FS_Union
<1>3. Cardinality(T \cap U) = 0
  BY FS_EmptySet
<1>4. Cardinality(T \cup U) <= Cardinality(S)
  BY <1>1, FS_Subset
<1> QED BY <1>1, <1>2, <1>3, <1>4

---------------------------------------------------------------------------
(* Positions                                                               *)

LEMMA RowsInRange ==
    ASSUME TypeOK
    PROVE  /\ nextId \in Nat /\ nextId <= MaxId + 1 /\ Initial < nextId
           /\ \A r \in alive \cup shown : r \in 1..MaxId /\ r < nextId
           /\ \A r : Ahead(r) \subseteq alive /\ r \notin Ahead(r)
           /\ \A r : Position(r) \in Nat
<1>1. nextId \in Nat /\ nextId <= MaxId + 1 /\ Initial < nextId
  BY ListingAssumption DEF TypeOK
<1>2. \A r \in alive \cup shown : r \in 1..MaxId /\ r < nextId
  BY <1>1, ListingAssumption DEF TypeOK
<1>3. \A r : Ahead(r) \subseteq alive
  BY DEF Ahead
<1>4. \A r : r \notin Ahead(r)
  BY <1>2 DEF Ahead
<1>5. \A r : Position(r) \in Nat
  BY <1>2, <1>3, Sized DEF Position
<1> QED BY <1>1, <1>2, <1>3, <1>4, <1>5

LEMMA Before ==
    ASSUME TypeOK, NEW q \in alive, NEW r \in alive, q \in Ahead(r)
    PROVE  Position(q) < Position(r)
<1>1. \A n \in alive : n \in Nat
  BY RowsInRange
<1>2. Ahead(q) \cup {q} \subseteq Ahead(r)
  BY <1>1 DEF Ahead
<1>3. Ahead(q) \in SUBSET (1..MaxId) /\ Ahead(r) \in SUBSET (1..MaxId) /\ q \notin Ahead(q)
  BY RowsInRange
<1>4. Cardinality(Ahead(q) \cup {q}) = Cardinality(Ahead(q)) + 1
  BY <1>3, Sized, FS_AddElement
<1>5. Cardinality(Ahead(q) \cup {q}) <= Cardinality(Ahead(r))
  BY <1>2, <1>3, Smaller
<1>6. Position(q) \in Nat /\ Position(r) \in Nat
  BY RowsInRange
<1> QED BY <1>4, <1>5, <1>6 DEF Position

(* No two rows stand at the same position.                                 *)
LEMMA PositionsDiffer ==
    ASSUME TypeOK, NEW q \in alive, NEW r \in alive, Position(q) = Position(r)
    PROVE  q = r
<1>1. q \in Nat /\ r \in Nat /\ Position(q) \in Nat
  BY RowsInRange
<1>2. q # r => q \in Ahead(r) \/ r \in Ahead(q)
  BY <1>1 DEF Ahead
<1> QED BY <1>1, <1>2, Before

LEMMA PositionsBounded ==
    ASSUME TypeOK, NEW r \in alive
    PROVE  Position(r) \in 0..(Cardinality(alive) - 1)
<1>1. alive \in SUBSET (1..MaxId) /\ Ahead(r) \in SUBSET (alive \ {r})
  BY RowsInRange
<1>2. IsFiniteSet(alive) /\ Cardinality(alive) \in Nat
  BY <1>1, Sized
<1>3. IsFiniteSet(alive \ {r}) /\ Cardinality(alive \ {r}) = Cardinality(alive) - 1
  BY <1>2, FS_RemoveElement
<1>4. Cardinality(Ahead(r)) <= Cardinality(alive \ {r})
  BY <1>1, <1>3, FS_Subset
<1>5. Position(r) \in Nat
  BY RowsInRange
<1> QED BY <1>2, <1>3, <1>4, <1>5 DEF Position

(* There is a row at every position.                                       *)
LEMMA PositionsFilled ==
    ASSUME TypeOK, NEW k \in 0..(Cardinality(alive) - 1)
    PROVE  \E r \in alive : Position(r) = k
<1> DEFINE n == Cardinality(alive)
           f == [r \in alive |-> Position(r)]
<1>1. n \in Nat
  BY RowsInRange, Sized
<1>2. f \in [alive -> 0..(n - 1)]
  BY PositionsBounded
<1>3. \A q, r \in alive : f[q] = f[r] => q = r
  BY PositionsDiffer
<1>4. f \in Injection(alive, 0..(n - 1))
  BY <1>2, <1>3 DEF Injection, IsInjective
<1>5. IsFiniteSet(0..(n - 1)) /\ Cardinality(0..(n - 1)) = n
  BY <1>1, FS_Interval
<1>6. f \in Surjection(alive, 0..(n - 1))
  BY <1>4, <1>5, FS_Injection
<1>7. \E r \in alive : f[r] = k
  BY <1>6 DEF Surjection
<1> QED BY <1>7

(* The page at an offset holds no more rows than its size, and as many     *)
(* when there is a row behind it.                                          *)
PageAt(offset) == {r \in alive : Position(r) \in offset..(offset + size - 1)}

LEMMA PageSize ==
    ASSUME TypeOK, NEW offset \in Nat
    PROVE  /\ PageAt(offset) \subseteq alive /\ Cardinality(PageAt(offset)) \in 0..MaxId
           /\ Cardinality(PageAt(offset)) <= size
           /\ Cardinality(PageAt(offset)) # size => \A r \in alive : Position(r) < offset + size
<1> DEFINE got == PageAt(offset)
           span == offset..(offset + size - 1)
           g == [r \in got |-> Position(r)]
<1>1. size \in Nat \ {0}
  BY ListingAssumption DEF TypeOK
<1>2. got \subseteq alive /\ got \in SUBSET (1..MaxId)
  BY RowsInRange DEF PageAt
<1>3. g \in [got -> span]
  BY DEF PageAt
<1>4. \A q, r \in got : g[q] = g[r] => q = r
  BY <1>2, PositionsDiffer
<1>5. g \in Injection(got, span)
  BY <1>3, <1>4 DEF Injection, IsInjective
<1>6. IsFiniteSet(span) /\ Cardinality(span) = size
  BY <1>1, FS_Interval
<1>7. Cardinality(got) <= size /\ (Cardinality(got) = size <=> g \in Surjection(got, span))
  BY <1>5, <1>6, FS_Injection
<1>8. ASSUME NEW r \in alive, ~(Position(r) < offset + size) PROVE g \in Surjection(got, span)
  <2>1. Position(r) \in 0..(Cardinality(alive) - 1) /\ Cardinality(alive) \in Nat
    BY PositionsBounded, RowsInRange, Sized
  <2>2. ASSUME NEW k \in span PROVE \E q \in got : g[q] = k
    <3>1. k \in 0..(Cardinality(alive) - 1)
      BY <1>1, <1>8, <2>1
    <3>2. PICK q \in alive : Position(q) = k
      BY <3>1, PositionsFilled
    <3> QED BY <3>2 DEF PageAt
  <2> QED BY <1>3, <2>2 DEF Surjection
<1> QED BY <1>2, <1>7, <1>8, Sized

---------------------------------------------------------------------------
(* Handlers: the walk begins at offset 0; the page that a handler names    *)
(* next, when it names one, begins where the last one ended.  ListTenants, *)
(* asked for page 0, names the page that it has just answered, and so does *)
(* a client of ListScrapingJobs that counts from 0.                        *)

LEMMA PageTurns ==
    ASSUME NEW z \in Sizes, NEW p \in 0..MaxPage, NEW n \in 0..MaxId
    PROVE  /\ z \in Nat \ {0} /\ p \in Pages /\ p + 1 \in Pages /\ 0 \in Pages /\ 1 \in Pages
           /\ p * z \in Nat /\ (p + 1) * z = p * z + z
           /\ p # 0 => (p - 1) * z \in Nat /\ ((p + 1) - 1) * z = (p - 1) * z + z
BY ListingAssumption DEF Pages

(* What the code makes of a page and of a number of rows.                  *)
NextFrom(h, z, p, n) ==
    /\ h.next[p][z][n] = 0 => n # z
    /\ h.next[p][z][n] # 0 =>
          /\ h.next[p][z][n] \in Pages
          /\ \/ h.offset[h.next[p][z][n]][z] = h.offset[p][z] + z /\ h.next[p][z][n] # 0
             \/ /\ h.name \in {"ListTenants", "ListScrapingJobs"} /\ p = 0 /\ h.next[p][z][n] = 1
                /\ h.offset[p][z] = 0 /\ h.offset[h.next[p][z][n]][z] = 0

LEMMA FromZeroTurns ==
    ASSUME NEW z \in Sizes, NEW p \in 0..MaxPage, NEW n \in 0..MaxId
    PROVE  /\ AsAsked[p][z][n] = IF n = z THEN p + 1 ELSE 0
           /\ FromZero[p][z] \in Nat /\ FromZero[0][z] = 0
           /\ FromZero[p + 1][z] = FromZero[p][z] + z
<1>1. /\ FromZero[p][z] = p * z /\ FromZero[p + 1][z] = (p + 1) * z /\ FromZero[0][z] = 0 * z
      /\ AsAsked[p][z][n] = IF n = z THEN p + 1 ELSE 0
  BY PageTurns DEF FromZero, AsAsked
<1> QED BY <1>1, PageTurns

LEMMA FromOneTurns ==
    ASSUME NEW z \in Sizes, NEW p \in 0..MaxPage, NEW n \in 0..MaxId
    PROVE  /\ WhenFull[p][z][n] = IF n = z THEN AtLeast(p, 1) + 1 ELSE 0
           /\ AtLeast(p, 1) + 1 \in Pages
           /\ FromOne[p][z] \in Nat /\ FromOne[0][z] = 0 /\ FromOne[1][z] = 0
           /\ FromOne[AtLeast(p, 1) + 1][z] = FromOne[p][z] + z
<1>1. /\ \A q \in Pages : FromOne[q][z] = (AtLeast(q, 1) - 1) * z
      /\ WhenFull[p][z][n] = IF n = z THEN AtLeast(p, 1) + 1 ELSE 0
  BY PageTurns DEF FromOne, WhenFull
<1>2. CASE p = 0
  <2>1. AtLeast(p, 1) = 1 /\ AtLeast(p, 1) + 1 = 2
    BY <1>2 DEF AtLeast
  <2>2. 0 \in Pages /\ 1 \in Pages /\ 2 \in Pages /\ (1 - 1) * z = 0 /\ (2 - 1) * z = z
    BY ListingAssumption DEF Pages
  <2>3. AtLeast(1, 1) = 1 /\ AtLeast(2, 1) = 2 /\ AtLeast(0, 1) = 1
    BY DEF AtLeast
  <2>4. FromOne[0][z] = 0 /\ FromOne[1][z] = 0 /\ FromOne[2][z] = z
    BY <1>1, <2>2, <2>3
  <2>5. FromOne[p][z] = 0 /\ FromOne[AtLeast(p, 1) + 1][z] = z /\ z \in Nat
    BY <1>2, <2>1, <2>4, PageTurns
  <2>6. AtLeast(p, 1) + 1 \in Pages
    BY <2>1, <2>2
  <2>7. FromOne[AtLeast(p, 1) + 1][z] = FromOne[p][z] + z
    BY <2>5
  <2> QED BY <1>1, <2>4, <2>5, <2>6, <2>7
<1> QED BY <1>1, <1>2, PageTurns DEF AtLeast

(* Every handler turns its pages one of these two ways, or states no order.*)
LEMMA HandlersTurn ==
    ASSUME TypeOK, Ordered, page <= MaxPage, NEW n \in 0..MaxId
    PROVE  Reached \in Nat /\ NextFrom(handler, size, page, n)
<1>1. size \in Sizes /\ page \in 0..MaxPage
  BY ListingAssumption DEF TypeOK, Pages
<1>2. CASE handler.offset = FromZero /\ handler.next = AsAsked
  <2>1. page + 1 \in Pages /\ page + 1 # 0
    BY <1>1, PageTurns
  <2> QED BY <1>1, <1>2, <2>1, FromZeroTurns DEF Reached, NextFrom
<1>3. CASE handler.offset = FromOne /\ handler.next = WhenFull
  <2>1. AtLeast(page, 1) + 1 # 0
    BY <1>1 DEF AtLeast
  <2> QED BY <1>1, <1>3, <2>1, FromOneTurns DEF Reached, NextFrom
<1>4. CASE handler.offset = FromOne /\ handler.next = AsAsked
           /\ handler.name \in {"ListTenants", "ListScrapingJobs"}
  <2>1. page + 1 \in Pages /\ page + 1 # 0
    BY <1>1, PageTurns
  <2>2. AsAsked[page][size][n] = IF n = size THEN page + 1 ELSE 0
    BY <1>1, FromZeroTurns
  <2>3. CASE page = 0
    BY <1>1, <1>4, <2>1, <2>2, <2>3, FromOneTurns DEF Reached, NextFrom
  <2>4. CASE page # 0
    <3>1. AtLeast(page, 1) = page
      BY <1>1, <2>4 DEF AtLeast
    <3> QED BY <1>1, <1>4, <2>1, <2>2, <3>1, FromOneTurns DEF Reached, NextFrom
  <2> QED BY <2>3, <2>4
<1>5. \/ handler.offset = FromZero /\ handler.next = AsAsked
      \/ handler.offset = FromOne /\ handler.next = WhenFull
      \/ handler.offset = FromOne /\ handler.next = AsAsked
           /\ handler.name \in {"ListTenants", "ListScrapingJobs"}
  BY DEF TypeOK, Ordered, Handlers, Lister, ListOrganizations, ListTenants, ListTenantAPIKeys,
         ListAPIKeys, ListLeads, ListWorkflows, ListWorkspaces, ListWebhooks, ListScrapingJobs,
         dbListTenantApiKeys, dbListWorkspaces, dbListWebhooks
<1> QED BY <1>2, <1>3, <1>4, <1>5

(* The pages a handler without an order names are pages, too.              *)
LEMMA NextIsPage ==
    ASSUME TypeOK, page <= MaxPage, NEW n \in 0..MaxId
    PROVE  handler.next[page][size][n] \in Pages \cup {0}
<1>1. size \in Sizes /\ page \in 0..MaxPage
  BY ListingAssumption DEF TypeOK, Pages
<1>2. /\ AsAsked[page][size][n] \in Pages \cup {0} /\ WhenFull[page][size][n] \in Pages \cup {0}
  BY <1>1, PageTurns, FromZeroTurns, FromOneTurns
<1>3. Always[page][size][n] = page + 1 /\ page + 1 \in Pages
  BY <1>1, PageTurns DEF Always
<1>4. handler.next \in {AsAsked, WhenFull, Always}
  BY DEF TypeOK, Handlers, Lister, ListOrganizations, ListTenants, ListTenantAPIKeys,
         ListAPIKeys, ListLeads, ListWorkflows, ListWorkspaces, ListWebhooks, ListScrapingJobs
<1> QED BY <1>2, <1>3, <1>4

LEMMA FirstPage ==
    ASSUME TypeOK
    PROVE  /\ first \in {0, 1}
           /\ Ordered => handler.offset[first][size] \in {0, PageBefore}
<1>1. size \in Sizes /\ 0 \in 0..MaxPage /\ 0 \in 0..MaxId
  BY ListingAssumption DEF TypeOK
<1>2. /\ FromZero[0][size] = 0 /\ FromZero[0 + 1][size] = FromZero[0][size] + size
      /\ FromOne[0][size] = 0 /\ FromOne[1][size] = 0
  BY <1>1, FromZeroTurns, FromOneTurns
<1>3. FromZero[1][size] = size
  BY <1>1, <1>2, ListingAssumption
<1>4. /\ first \in {0, 1}
      /\ Ordered => \/ handler.name = "ListOrganizations" /\ handler.offset = FromZero
                    \/ handler.offset = FromOne
  BY DEF TypeOK, Ordered, Handlers, Lister, ListOrganizations, ListTenants, ListTenantAPIKeys,
         ListAPIKeys, ListLeads, ListWorkflows, ListWorkspaces, ListWebhooks, ListScrapingJobs,
         dbListTenantApiKeys, dbListWorkspaces, dbListWebhooks
<1> QED BY <1>2, <1>3, <1>4 DEF PageBefore

---------------------------------------------------------------------------
(* Step by step                                                            *)

LEMMA TypeStep == TypeOK /\ [Next]_vars => TypeOK'
<1> SUFFICES ASSUME TypeOK, [Next]_vars PROVE TypeOK'
  OBVIOUS
<1>1. nextId \in Nat /\ MaxId \in Nat /\ Initial \in Nat
  BY RowsInRange, ListingAssumption
<1>2. ASSUME ReadPage PROVE TypeOK'
  <2>1. PICK got \in Selected(handler.offset[page][size]) :
           /\ shown' = shown \cup got
           /\ repeated' = repeated + Cardinality(got \cap shown)
           /\ LET next == handler.next[page][size][Cardinality(got)]
              IN  IF next = 0 THEN walking' = FALSE /\ UNCHANGED page
                              ELSE page' = next /\ UNCHANGED walking
    BY <1>2 DEF ReadPage
  <2>2. got \subseteq alive
    BY <2>1 DEF Selected
  <2>3. got \in SUBSET (1..MaxId) /\ got \cap shown \in SUBSET (1..MaxId)
    BY <2>2, RowsInRange
  <2>4. Cardinality(got) \in 0..MaxId /\ Cardinality(got \cap shown) \in Nat
    BY <2>3, Sized
  <2>5. handler.next[page][size][Cardinality(got)] \in Pages \cup {0}
    BY <1>2, <2>4, NextIsPage DEF ReadPage
  <2>6. page' \in Pages /\ walking' \in BOOLEAN
    BY <2>1, <2>5 DEF TypeOK
  <2>7. shown' \subseteq 1..(nextId - 1) /\ repeated' \in Nat
    BY <2>1, <2>2, <2>4 DEF TypeOK
  <2>8. UNCHANGED <<handler, size, first, alive, nextId, inserted, erased>>
    BY <1>2 DEF ReadPage
  <2> QED BY <2>6, <2>7, <2>8 DEF TypeOK
<1>3. CASE InsertRow
  BY <1>1, <1>3 DEF InsertRow, TypeOK
<1>4. ASSUME NEW r \in alive, DeleteRow(r) PROVE TypeOK'
  BY <1>4 DEF DeleteRow, TypeOK
<1>5. CASE UNCHANGED vars
  BY <1>5 DEF vars, TypeOK
<1> QED BY <1>2, <1>3, <1>4, <1>5 DEF Next, Over

(* What a deletion and an insertion do to the positions.                   *)
LEMMA DeleteMoves ==
    ASSUME TypeOK, NEW r \in alive, DeleteRow(r), NEW q \in alive, q # r
    PROVE  Position(q)' \in {Position(q), Position(q) - 1}
<1>1. Ahead(q)' = Ahead(q) \ {r}
  BY DEF DeleteRow, Ahead
<1>2. IsFiniteSet(Ahead(q)) /\ Cardinality(Ahead(q)) \in Nat
  BY RowsInRange, Sized
<1>3. Cardinality(Ahead(q) \ {r}) \in {Cardinality(Ahead(q)), Cardinality(Ahead(q)) - 1}
  BY <1>2, FS_RemoveElement
<1> QED BY <1>1, <1>3 DEF Position

LEMMA InsertMoves ==
    ASSUME TypeOK, InsertRow, NEW q \in alive
    PROVE  Position(q)' \in {Position(q), Position(q) + 1}
<1>1. nextId \notin alive /\ nextId \in Nat /\ q < nextId /\ q \in Nat
  BY RowsInRange
<1>2. Ahead(q)' \in {Ahead(q), Ahead(q) \cup {nextId}}
  BY <1>1 DEF InsertRow, Ahead
<1>3. IsFiniteSet(Ahead(q)) /\ Cardinality(Ahead(q)) \in Nat
  BY RowsInRange, Sized
<1>4. Cardinality(Ahead(q) \cup {nextId}) \in {Cardinality(Ahead(q)), Cardinality(Ahead(q)) + 1}
  BY <1>3, FS_AddElement
<1> QED BY <1>2, <1>4 DEF Position

LEMMA SetsTyped ==
    ASSUME TypeOK
    PROVE  /\ Skipped \in SUBSET (1..MaxId) /\ Again \in SUBSET (1..MaxId)
           /\ Cardinality(Skipped) \in Nat /\ Cardinality(Again) \in Nat
           /\ PageTwice \in Nat /\ PageBefore \in Nat /\ size \in Nat /\ repeated \in Nat /\ inserted \in Nat /\ erased \in Nat
<1>1. Skipped \in SUBSET (1..MaxId) /\ Again \in SUBSET (1..MaxId)
  BY RowsInRange DEF Skipped, Again
<1>2. size \in Nat
  BY ListingAssumption DEF TypeOK
<1> QED BY <1>1, <1>2, Sized DEF TypeOK, PageTwice, PageBefore

(* The page may be asked for, or the walk has gone beyond the bound.       *)
LEMMA ReachedTyped ==
    ASSUME TypeOK, Ordered PROVE Reached \in Nat
<1>1. size \in Sizes /\ page \in Pages
  BY DEF TypeOK
<1>2. size \in Nat \ {0} /\ page \in Nat
  BY <1>1, ListingAssumption DEF Pages
<1>3. FromZero[page][size] = page * size /\ page * size \in Nat
  BY <1>1, <1>2 DEF FromZero
<1>4. FromOne[page][size] = (AtLeast(page, 1) - 1) * size /\ AtLeast(page, 1) - 1 \in Nat
  BY <1>1, <1>2 DEF FromOne, AtLeast
<1>5. FromOne[page][size] \in Nat
  BY <1>2, <1>4
<1>6. handler.offset \in {FromZero, FromOne}
  BY DEF TypeOK, Handlers, Lister, ListOrganizations, ListTenants, ListTenantAPIKeys,
         ListAPIKeys, ListLeads, ListWorkflows, ListWorkspaces, ListWebhooks, ListScrapingJobs
<1> QED BY <1>3, <1>5, <1>6 DEF Reached

LEMMA DeleteStep ==
    ASSUME ListingInv, NEW r \in alive, DeleteRow(r)
    PROVE  WalkInv'
<1> SUFFICES ASSUME walking, Ordered PROVE WalkInv'
  BY DEF WalkInv, DeleteRow, Ordered
<1>1. TypeOK /\ TypeOK'
  BY TypeStep DEF ListingInv, Next
<1>2. /\ Cardinality(Skipped) <= erased + PageBefore
      /\ repeated + Cardinality(Again) <= inserted + PageTwice
      /\ page = 0 => first = 0 /\ shown = {} /\ repeated = 0
  BY DEF ListingInv, WalkInv
<1>3. UNCHANGED <<handler, size, first, page, walking, shown, repeated, inserted>> /\ erased' = erased + 1
      /\ Reached' = Reached /\ PageTwice' = PageTwice /\ PageBefore' = PageBefore
      /\ alive' = alive \ {r}
  BY DEF DeleteRow, Reached, PageTwice, PageBefore
<1>4. Reached \in Nat
  BY <1>1, ReachedTyped
<1>5. \A q \in alive' : Position(q)' \in {Position(q), Position(q) - 1} /\ Position(q) \in Nat
  BY <1>1, <1>3, DeleteMoves, RowsInRange
<1>6. Cardinality(Skipped') <= Cardinality(Skipped) + 1
  <2>1. ASSUME NEW q \in Skipped', q \notin Skipped PROVE q \in alive /\ Position(q) = Reached
    <3>1. q \in alive /\ q \in alive' /\ q \in 1..Initial /\ q \notin shown /\ Position(q)' < Reached
      BY <1>3, <2>1 DEF Skipped
    <3>2. ~(Position(q) < Reached)
      BY <2>1, <3>1 DEF Skipped
    <3> QED BY <1>4, <1>5, <3>1, <3>2
  <2>2. \A p, q \in Skipped' : p \notin Skipped /\ q \notin Skipped => p = q
    BY <1>1, <2>1, PositionsDiffer
  <2>3. Skipped \in SUBSET (1..MaxId) /\ Skipped' \in SUBSET (1..MaxId)
    BY <1>1, <1>3, SetsTyped, RowsInRange DEF Skipped
  <2> QED BY <2>2, <2>3, OneMore
<1>7. Cardinality(Again') <= Cardinality(Again)
  <2>1. Again' \subseteq Again
    BY <1>3, <1>4, <1>5 DEF Again
  <2> QED BY <1>1, <2>1, SetsTyped, Smaller
<1>8. Cardinality(Skipped') \in Nat /\ Cardinality(Again') \in Nat
  <2>1. Skipped' \in SUBSET (1..MaxId) /\ Again' \in SUBSET (1..MaxId)
    BY <1>1, <1>3, RowsInRange DEF Skipped, Again
  <2> QED BY <2>1, Sized
<1> QED BY <1>1, <1>2, <1>3, <1>6, <1>7, <1>8, SetsTyped DEF WalkInv

LEMMA InsertStep ==
    ASSUME ListingInv, InsertRow
    PROVE  WalkInv'
<1> SUFFICES ASSUME walking, Ordered PROVE WalkInv'
  BY DEF WalkInv, InsertRow, Ordered
<1>1. TypeOK /\ TypeOK'
  BY TypeStep DEF ListingInv, Next
<1>2. /\ Cardinality(Skipped) <= erased + PageBefore
      /\ repeated + Cardinality(Again) <= inserted + PageTwice
      /\ page = 0 => first = 0 /\ shown = {} /\ repeated = 0
  BY DEF ListingInv, WalkInv
<1>3. UNCHANGED <<handler, size, first, page, walking, shown, repeated, erased>> /\ inserted' = inserted + 1
      /\ Reached' = Reached /\ PageTwice' = PageTwice /\ PageBefore' = PageBefore
      /\ alive' = alive \cup {nextId}
  BY DEF InsertRow, Reached, PageTwice, PageBefore
<1>4. Reached \in Nat
  BY <1>1, ReachedTyped
<1>5. \A q \in alive : Position(q)' \in {Position(q), Position(q) + 1} /\ Position(q) \in Nat
  BY <1>1, InsertMoves, RowsInRange
<1>6. nextId \notin shown /\ nextId \notin 1..Initial
  BY <1>1, RowsInRange, ListingAssumption
<1>7. Cardinality(Skipped') <= Cardinality(Skipped)
  <2>1. Skipped' \subseteq Skipped
    BY <1>3, <1>4, <1>5, <1>6 DEF Skipped
  <2> QED BY <1>1, <2>1, SetsTyped, Smaller
<1>8. Cardinality(Again') <= Cardinality(Again) + 1
  <2>1. ASSUME NEW q \in Again', q \notin Again PROVE q \in alive /\ Position(q) + 1 = Reached
    <3>1. q \in alive /\ q \in shown /\ Position(q)' >= Reached
      BY <1>3, <1>6, <2>1 DEF Again
    <3>2. ~(Position(q) >= Reached)
      BY <2>1, <3>1 DEF Again
    <3> QED BY <1>4, <1>5, <3>1, <3>2
  <2>2. \A p, q \in Again' : p \notin Again /\ q \notin Again => p = q
    <3>1. \A p, q \in alive : Position(p) + 1 = Reached /\ Position(q) + 1 = Reached => Position(p) = Position(q)
      BY <1>5
    <3> QED BY <1>1, <2>1, <3>1, PositionsDiffer
  <2>3. Again \in SUBSET (1..MaxId) /\ Again' \in SUBSET (1..MaxId)
    BY <1>1, <1>3, SetsTyped, RowsInRange DEF Again
  <2> QED BY <2>2, <2>3, OneMore
<1>9. Cardinality(Skipped') \in Nat /\ Cardinality(Again') \in Nat
  <2>1. Skipped' \in SUBSET (1..MaxId) /\ Again' \in SUBSET (1..MaxId)
    BY <1>1, <1>3, <1>6, RowsInRange DEF Skipped, Again
  <2> QED BY <2>1, Sized
<1> QED BY <1>1, <1>2, <1>3, <1>7, <1>8, <1>9, SetsTyped DEF WalkInv

LEMMA ReadStep ==
    ASSUME ListingInv, ReadPage, Ordered
    PROVE  WalkInv' /\ MissedBounded' /\ RepeatsBounded'
<1>1. TypeOK /\ TypeOK'
  BY TypeStep DEF ListingInv, Next
<1>2. PICK got \in Selected(Reached) :
         /\ shown' = shown \cup got
         /\ repeated' = repeated + Cardinality(got \cap shown)
         /\ IF handler.next[page][size][Cardinality(got)] = 0
              THEN walking' = FALSE /\ UNCHANGED page
              ELSE page' = handler.next[page][size][Cardinality(got)] /\ UNCHANGED walking
  BY DEF ReadPage, Reached
<1>3. /\ UNCHANGED <<handler, size, first, alive, nextId, inserted, erased>>
      /\ walking /\ page <= MaxPage /\ Ordered'
      /\ PageTwice' = PageTwice /\ PageBefore' = PageBefore
      /\ \A q : Position(q)' = Position(q)
  BY DEF ReadPage, PageTwice, PageBefore, Ordered, Position, Ahead
<1>4. /\ Cardinality(Skipped) <= erased + PageBefore
      /\ repeated + Cardinality(Again) <= inserted + PageTwice
      /\ page = 0 => first = 0 /\ shown = {} /\ repeated = 0
  BY <1>3 DEF ListingInv, WalkInv
<1>5. got = PageAt(Reached)
  BY DEF Selected, Ordered, PageAt, Position
<1>6. Reached \in Nat
  BY <1>1, ReachedTyped
<1>7. /\ got \subseteq alive /\ Cardinality(got) \in 0..MaxId /\ Cardinality(got) <= size
      /\ Cardinality(got) # size => \A q \in alive : Position(q) < Reached + size
  BY <1>1, <1>5, <1>6, PageSize
<1>8. NextFrom(handler, size, page, Cardinality(got))
  BY <1>1, <1>3, <1>7, HandlersTurn
<1>9. /\ \A q \in got : q \in alive /\ Position(q) >= Reached /\ Position(q) < Reached + size
      /\ \A q \in alive : Position(q) \in Nat
                          /\ (Position(q) >= Reached /\ Position(q) < Reached + size => q \in got)
      /\ size \in Nat
  BY <1>1, <1>5, <1>6, RowsInRange, SetsTyped DEF PageAt
<1>10. /\ got \cap shown \in SUBSET Again /\ Again \in SUBSET (1..MaxId)
       /\ Cardinality(got \cap shown) \in Nat
  <2>1. got \cap shown \in SUBSET Again /\ Again \in SUBSET (1..MaxId)
    BY <1>1, <1>9, SetsTyped DEF Again
  <2> QED BY <2>1, Sized
<1>11. Cardinality(got \cap shown) <= Cardinality(Again)
  BY <1>10, Smaller
<1>12. RepeatsBounded'
  <2>1. Cardinality(Again) \in Nat /\ repeated \in Nat
    BY <1>1, SetsTyped
  <2>2. repeated' <= repeated + Cardinality(Again)
    BY <1>2, <1>10, <1>11, <2>1
  <2>3. repeated' <= inserted + PageTwice
    BY <1>1, <1>2, <1>4, <1>10, <2>1, <2>2, SetsTyped
  <2> QED BY <1>3, <2>3 DEF RepeatsBounded
<1>13. CASE handler.next[page][size][Cardinality(got)] = 0
  <2>1. walking' = FALSE /\ \A q \in alive : Position(q) < Reached + size
    BY <1>2, <1>7, <1>8, <1>13 DEF NextFrom
  <2>2. (alive' \cap 1..Initial) \ shown' \in SUBSET Skipped
    BY <1>2, <1>3, <1>6, <1>9, <2>1 DEF Skipped
  <2>3. Cardinality((alive' \cap 1..Initial) \ shown') <= Cardinality(Skipped)
    BY <1>1, <2>2, SetsTyped, Smaller
  <2>4. Cardinality((alive' \cap 1..Initial) \ shown') \in Nat
    BY <1>1, <2>2, SetsTyped, Sized
  <2>5. MissedBounded'
    BY <1>1, <1>3, <1>4, <2>3, <2>4, SetsTyped DEF MissedBounded
  <2> QED BY <1>12, <2>1, <2>5 DEF WalkInv
<1>14. CASE handler.next[page][size][Cardinality(got)] # 0
  <2>1. page' = handler.next[page][size][Cardinality(got)] /\ walking' = walking
    BY <1>2, <1>14
  <2>2. \/ Reached' = Reached + size /\ page' # 0
        \/ handler.name \in {"ListTenants", "ListScrapingJobs"} /\ page = 0 /\ page' = 1 /\ Reached = 0 /\ Reached' = 0
    BY <1>3, <1>8, <1>14, <2>1 DEF NextFrom, Reached
  <2>3. MissedBounded'
    BY <1>3, <2>1 DEF MissedBounded
  <2>4. Skipped' \in SUBSET (1..MaxId) /\ Again' \in SUBSET (1..MaxId)
    BY <1>1, <1>2, <1>3, <1>7, RowsInRange DEF Skipped, Again
  <2>5. Cardinality(Skipped') \in Nat /\ Cardinality(Again') \in Nat
    BY <2>4, Sized
  <2>6. Skipped' \in SUBSET Skipped
    BY <1>2, <1>3, <1>6, <1>9, <2>2 DEF Skipped
  <2>7. Cardinality(Skipped') <= erased' + PageBefore'
    BY <1>1, <1>3, <1>4, <2>5, <2>6, SetsTyped, Smaller
  <2>8. repeated' + Cardinality(Again') <= inserted' + PageTwice'
    <3>1. CASE Reached' = Reached + size
      <4>1. Again' \in SUBSET Again /\ (got \cap shown) \cap Again' = {}
        BY <1>2, <1>3, <1>6, <1>9, <3>1 DEF Again
      <4>2. Cardinality(got \cap shown) + Cardinality(Again') <= Cardinality(Again)
        BY <1>10, <4>1, Parts
      <4> QED BY <1>1, <1>2, <1>3, <1>4, <1>10, <2>5, <4>2, SetsTyped
    <3>2. CASE handler.name \in {"ListTenants", "ListScrapingJobs"} /\ page = 0 /\ Reached' = 0
      <4>1. first = 0 /\ shown = {} /\ repeated = 0
        BY <1>4, <3>2
      <4>2. repeated' = 0
        <5>1. Cardinality(got \cap shown) = 0
          BY <4>1, FS_EmptySet
        <5> QED BY <1>2, <4>1, <5>1
      <4>3. Again' \in SUBSET got
        BY <1>2, <4>1 DEF Again
      <4>4. Cardinality(Again') <= size
        BY <1>1, <1>7, <1>9, <2>5, <4>3, Smaller, RowsInRange
      <4> QED BY <1>1, <1>3, <2>5, <3>2, <4>1, <4>2, <4>4, SetsTyped DEF PageTwice
    <3> QED BY <2>2, <3>1, <3>2
  <2>9. ~(page' = 0)
    BY <2>2
  <2> QED BY <1>12, <2>3, <2>7, <2>8, <2>9 DEF WalkInv
<1> QED BY <1>13, <1>14

LEMMA InvStep == ListingInv /\ [Next]_vars => ListingInv'
<1> SUFFICES ASSUME ListingInv, [Next]_vars PROVE ListingInv'
  OBVIOUS
<1>1. TypeOK' /\ TypeOK /\ WalkInv /\ MissedBounded /\ RepeatsBounded
  BY TypeStep DEF ListingInv
<1>2. CASE ReadPage
  <2>1. CASE Ordered
    BY <1>1, <1>2, <2>1, ReadStep DEF ListingInv
  <2>2. CASE ~Ordered
    BY <1>1, <1>2, <2>2 DEF ListingInv, ReadPage, WalkInv, MissedBounded, RepeatsBounded, Ordered
  <2> QED BY <2>1, <2>2
<1>3. ASSUME InsertRow \/ \E r \in alive : DeleteRow(r) PROVE ListingInv'
  <2>1. WalkInv'
    BY <1>3, InsertStep, DeleteStep
  <2>2. UNCHANGED <<repeated, handler, size, first>> /\ inserted' \in {inserted, inserted + 1}
    BY <1>3 DEF InsertRow, DeleteRow
  <2>3. MissedBounded'
    <3>1. walking /\ walking' = walking
      BY <1>3 DEF InsertRow, DeleteRow
    <3> QED BY <3>1 DEF MissedBounded
  <2>4. RepeatsBounded'
    BY <1>1, <2>2, SetsTyped DEF RepeatsBounded, PageTwice, Ordered
  <2> QED BY <1>1, <2>1, <2>3, <2>4 DEF ListingInv
<1>4. CASE UNCHANGED vars
  BY <1>1, <1>4 DEF vars, ListingInv, WalkInv, MissedBounded, RepeatsBounded, Ordered, Skipped, Again,
                    Position, Ahead, Reached, PageTwice, PageBefore
<1> QED BY <1>2, <1>3, <1>4 DEF Next, Over

LEMMA InvInit == Init => ListingInv
<1> SUFFICES ASSUME Init PROVE ListingInv
  OBVIOUS
<1>1. TypeOK
  <2>1. handler \in Handlers /\ first \in handler.firsts /\ handler.firsts \subseteq {0, 1}
    BY DEF Init, Handlers, Lister, ListOrganizations, ListTenants, ListTenantAPIKeys,
         ListAPIKeys, ListLeads, ListWorkflows, ListWorkspaces, ListWebhooks, ListScrapingJobs
  <2>2. page \in Pages
    BY <2>1, ListingAssumption DEF Init, Pages
  <2> QED BY <2>1, <2>2, ListingAssumption DEF Init, TypeOK
<1>2. WalkInv
  <2> SUFFICES ASSUME Ordered PROVE WalkInv
    BY DEF WalkInv
  <2>1. Reached \in {0, PageBefore} /\ PageBefore \in {0, size} /\ size \in Nat
    BY <1>1, FirstPage, SetsTyped DEF Init, Reached, PageBefore
  <2>2. Skipped \in SUBSET PageAt(0) /\ (Reached = 0 => Skipped = {})
    BY <1>1, <2>1, RowsInRange DEF Skipped, PageAt
  <2>3. PageAt(0) \in SUBSET (1..MaxId) /\ Cardinality(PageAt(0)) <= size
    BY <1>1, PageSize, RowsInRange
  <2>4. Cardinality(Skipped) <= PageBefore
    <3>1. CASE Reached = 0
      BY <2>1, <2>2, <3>1, FS_EmptySet
    <3>2. CASE PageBefore = size
      BY <1>1, <2>1, <2>2, <2>3, <3>2, Sized, SetsTyped, Smaller
    <3> QED BY <2>1, <3>1, <3>2
  <2>5. Again = {}
    BY DEF Init, Again
  <2>6. Cardinality(Again) = 0
    BY <2>5, FS_EmptySet
  <2> QED BY <1>1, <2>4, <2>6, SetsTyped DEF Init, WalkInv
<1>3. MissedBounded /\ RepeatsBounded
  BY <1>1, SetsTyped DEF Init, MissedBounded, RepeatsBounded
<1> QED BY <1>1, <1>2, <1>3 DEF ListingInv

---------------------------------------------------------------------------
(* At every moment of every walk the rows that the client has been led     *)
(* past unseen are no more than the deletions so far, and the rows it has  *)
(* seen and is going to be given again no more than the insertions, but    *)
(* for the page that ListOrganizations has before page 1 and for the one   *)
(* that is both page 0 and page 1 elsewhere.                               *)
THEOREM ListingInvariant == Spec => []ListingInv
BY InvInit, InvStep, PTL DEF Spec

(* A client that has walked to the end has missed, of the rows that were   *)
(* there before it began and still are, at most one for each row deleted   *)
(* meanwhile, and a page if it asked ListOrganizations for page 1 first:   *)
(* whatever the page size, and for every handler whose query states an     *)
(* order.                                                                  *)
THEOREM FewMissed == Spec => []MissedBounded
BY ListingInvariant, PTL DEF ListingInv

(* It is given a row twice at most once for each row inserted meanwhile,   *)
(* and the rows of one page more by ListTenants and ListScrapingJobs when  *)
(* it counts from page 0.                                                  *)
THEOREM FewRepeated == Spec => []RepeatsBounded
BY ListingInvariant, PTL DEF ListingInv
===============================================================================
