-------------------------------- MODULE Listing --------------------------------
(***************************************************************************)
(* The list handlers of pkg/grpc and the list functions of                 *)
(* internal/database under them: a client reads a table page by page while *)
(* other requests insert and delete rows.  A page is an offset into the    *)
(* rows as they are when it is read; the server keeps nothing between two  *)
(* pages.  Rows are numbers in the order of creation, which is the order   *)
(* of their primary keys and of created_at.                                *)
(***************************************************************************)
EXTENDS Naturals, FiniteSets

CONSTANTS
    MaxId,      \* bound: ids ever created
    Initial,    \* rows before the walk: 1..Initial
    Sizes,      \* page sizes a client may ask for
    MaxPage     \* bound: the last page a client asks for

ASSUME ListingAssumption ==
    MaxId \in Nat /\ Initial \in 0..MaxId /\ Sizes \subseteq 1..MaxId /\ MaxPage \in Nat \ {0}

VARIABLES
    handler,    \* the handler the client calls
    size,       \* its page size
    alive,      \* the rows
    nextId,
    first,      \* the page number the client began with
    page,       \* the page number the client asks for next
    walking,
    shown,      \* the rows it has been given
    repeated,   \* history: how often it was given a row it had
    inserted,   \* history: rows inserted during the walk
    erased      \* history: rows deleted during the walk
vars == <<handler, size, first, alive, nextId, page, walking, shown, repeated, inserted, erased>>

AtLeast(n, m) == IF n < m THEN m ELSE n
Pages == 0..(MaxPage + 1)

---------------------------------------------------------------------------
(* The queries: the order of the rows, "any" where the code states none.   *)
dbListOrganizations == "desc"
dbListTenants       == "desc"
dbListTenantApiKeys == "any"
dbListAPIKeys       == "asc"
dbListLeads         == "desc"
dbListWorkflows     == "asc"
dbListWorkspaces    == "any"        \* left to generated code
dbListWebhooks      == "any"
dbListScrapingJobs  == "desc"       \* by created_at

(* Offsets of a page and the answer's NextPageNumber, 0 for the last page. *)
FromZero == [p \in Pages |-> [z \in Sizes |-> p * z]]
FromNext == [p \in Pages |-> [z \in Sizes |-> AtLeast(p, 1) * z]]   \* off by one page
FromOverlap == [p \in Pages |-> [z \in Sizes |-> (AtLeast(p, 1) - 1) * (z - 1)]]
FromOne  == [p \in Pages |-> [z \in Sizes |-> (AtLeast(p, 1) - 1) * z]]
WhenAny  == [p \in Pages |-> [z \in Sizes |-> [n \in 0..MaxId |-> AtLeast(p, 1) + 1]]]
WhenFull == [p \in Pages |-> [z \in Sizes |-> [n \in 0..MaxId |->
               IF n = z THEN AtLeast(p, 1) + 1 ELSE 0]]]
AsAsked  == [p \in Pages |-> [z \in Sizes |-> [n \in 0..MaxId |-> IF n = z THEN p + 1 ELSE 0]]]
Always   == [p \in Pages |-> [z \in Sizes |-> [n \in 0..MaxId |-> p + 1]]]

(* A handler: the order of its query, the pages a client may take for the  *)
(* first (0 is what a request without a number asks for; ListWorkflows and *)
(* ListWorkspaces answer InvalidArgument to it), the offset and the next   *)
(* page.  ListWebhooks and ListScrapingJobs name no next page: the client  *)
(* counts pages itself until one is short.                                 *)
Lister(name, order, firsts, offset, next) ==
    [name |-> name, order |-> order, firsts |-> firsts, offset |-> offset, next |-> next]

ListOrganizations == Lister("ListOrganizations", dbListOrganizations, {0, 1}, FromZero, AsAsked)
ListTenants       == Lister("ListTenants", dbListTenants, {0, 1}, FromOne, AsAsked)
ListTenantAPIKeys == Lister("ListTenantAPIKeys", dbListTenantApiKeys, {0, 1}, FromOne, WhenFull)
ListAPIKeys       == Lister("ListAPIKeys", dbListAPIKeys, {0, 1}, FromOne, WhenFull)
ListLeads         == Lister("ListLeads", dbListLeads, {0, 1}, FromOne, WhenFull)
ListWorkflows     == Lister("ListWorkflows", dbListWorkflows, {1}, FromOne, WhenFull)
ListWorkspaces    == Lister("ListWorkspaces", dbListWorkspaces, {1}, FromOne, Always)
ListWebhooks      == Lister("ListWebhooks", dbListWebhooks, {0, 1}, FromOne, AsAsked)
ListScrapingJobs  == Lister("ListScrapingJobs", dbListScrapingJobs, {0, 1}, FromOne, AsAsked)

Handlers == {ListOrganizations, ListTenants, ListTenantAPIKeys, ListAPIKeys, ListLeads,
             ListWorkflows, ListWorkspaces, ListWebhooks, ListScrapingJobs}

---------------------------------------------------------------------------
Ahead(r) == {q \in alive : IF handler.order = "asc" THEN q < r ELSE q > r}

(* What LIMIT and OFFSET select; without an order, some rows of that many. *)
Selected(offset) ==
    IF handler.order = "any"
      THEN {S \in SUBSET alive :
              Cardinality(S) = IF offset > Cardinality(alive) THEN 0
                               ELSE IF Cardinality(alive) - offset < size
                                      THEN Cardinality(alive) - offset ELSE size}
      ELSE {{r \in alive : Cardinality(Ahead(r)) \in offset..(offset + size - 1)}}

Init ==
    /\ handler \in Handlers
    /\ size \in Sizes
    /\ alive = 1..Initial
    /\ nextId = Initial + 1
    /\ first \in handler.firsts
    /\ page = first
    /\ walking = TRUE
    /\ shown = {}
    /\ repeated = 0 /\ inserted = 0 /\ erased = 0

ReadPage ==
    /\ walking
    /\ page <= MaxPage
    /\ \E got \in Selected(handler.offset[page][size]) :
         /\ shown' = shown \cup got
         /\ repeated' = repeated + Cardinality(got \cap shown)
         /\ LET next == handler.next[page][size][Cardinality(got)]
            IN  IF next = 0 THEN walking' = FALSE /\ UNCHANGED page
                            ELSE page' = next /\ UNCHANGED walking
    /\ UNCHANGED <<handler, size, first, alive, nextId, inserted, erased>>

InsertRow ==
    /\ walking
    /\ nextId <= MaxId
    /\ alive' = alive \cup {nextId}
    /\ nextId' = nextId + 1
    /\ inserted' = inserted + 1
    /\ UNCHANGED <<handler, size, first, page, walking, shown, repeated, erased>>

DeleteRow(r) ==
    /\ walking
    /\ alive' = alive \ {r}
    /\ erased' = erased + 1
    /\ UNCHANGED <<handler, size, first, nextId, page, walking, shown, repeated, inserted>>

Over == /\ ~walking \/ page > MaxPage
        /\ UNCHANGED vars

Next == ReadPage \/ InsertRow \/ (\E r \in alive : DeleteRow(r)) \/ Over

(* The client asks for the next page, however long it takes.               *)
Spec == Init /\ [][Next]_vars /\ WF_vars(ReadPage)

---------------------------------------------------------------------------
(* The walk keeps its bookkeeping.                                         *)
TypeOK ==
    /\ handler \in Handlers /\ size \in Sizes /\ first \in handler.firsts
    /\ nextId \in (Initial + 1)..(MaxId + 1)
    /\ alive \subseteq 1..(nextId - 1) /\ shown \subseteq 1..(nextId - 1)
    /\ page \in Pages /\ walking \in BOOLEAN
    /\ repeated \in Nat /\ inserted \in Nat /\ erased \in Nat

(* Every row that was there before the walk began and still is has been    *)
(* listed, but for one row for each row deleted during the walk (offsets   *)
(* are counted from the rows that are left) and, where ListOrganizations   *)
(* is asked for page 1 first, for the page before it.  For the queries     *)
(* with an order.                                                          *)
Ordered == handler.order # "any"
PageBefore == IF handler.name = "ListOrganizations" /\ first = 1 THEN size ELSE 0
MissedBounded ==
    ~walking /\ Ordered => Cardinality((alive \cap 1..Initial) \ shown) <= erased + PageBefore

(* A row is listed again at most once for each row inserted meanwhile, and *)
(* once more where page 0 is page 1 and page 1 comes after it: in          *)
(* ListTenants and ListScrapingJobs, asked for page 0 first.               *)
PageTwice ==
    IF handler.name \in {"ListTenants", "ListScrapingJobs"} /\ first = 0 THEN size ELSE 0
RepeatsBounded == Ordered => repeated <= inserted + PageTwice

(* Does not hold.  grpc_list_organizations_api_test.go:33 takes page 1 for *)
(* the first page, as every other list handler does: with nothing deleted, *)
(* a walk begun there would show every row that was there.                 *)
FirstPageIsFirst ==
    ~walking /\ Ordered /\ first = 1 /\ erased = 0 => alive \cap 1..Initial \subseteq shown

(* Why: the walk has reached an offset.  A deletion moves at most one row  *)
(* across it that the client has not seen, an insertion at most one back   *)
(* across it that the client has.                                          *)
Position(r) == Cardinality(Ahead(r))
Reached == handler.offset[page][size]
Skipped == {r \in alive \cap 1..Initial : Position(r) < Reached} \ shown
Again == {r \in alive \cap shown : Position(r) >= Reached}
WalkInv ==
    walking /\ Ordered =>
       /\ Cardinality(Skipped) <= erased + PageBefore
       /\ repeated + Cardinality(Again) <= inserted + PageTwice
       /\ page = 0 => first = 0 /\ shown = {} /\ repeated = 0
ListingInv == TypeOK /\ WalkInv /\ MissedBounded /\ RepeatsBounded

(* A client that follows the page numbers comes to an end, except with     *)
(* ListWorkspaces, which names a next page for ever.                       *)
WalkEnds == handler.name # "ListWorkspaces" ~> ~walking
===============================================================================
