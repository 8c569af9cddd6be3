----------------------------- MODULE SkuBrowse -----------------------------
(***************************************************************************)
(* GET /sku-dashboard/browse: a client walks through the products page by  *)
(* page while a sync creates products, lists them in channels and changes  *)
(* their stock.  Every page is a query of its own; the cursor is the sku   *)
(* that the page before ended with.                                        *)
(*                                                                         *)
(* Products are numbered in the order of their skus.  A client may ask for *)
(* one channel and one state of the stock; the search for a text is like a *)
(* channel, as long as titles stay, and left out.                          *)
(***************************************************************************)
EXTENDS Integers, FiniteSets

CONSTANTS Skus,        \* bound: products there may be
          FirstStock,  \* available of the products at the start, or NoProduct
          Levels,      \* bound: the amounts of stock
          Take,        \* 1000: products a query returns
          PageLimit,   \* limit of the query
          MaxWrites    \* bound: what syncs write during a walk

Sku == 1 .. Skus
NoProduct == -1
NoCursor == 0
StockStatus == {"ALL", "OUT_OF_STOCK", "LOW_STOCK", "IN_STOCK"}

VARIABLES
  available,  \* the sum of the product's stock rows
  listed,     \* the products with a row for the channel
  writes,
  walk        \* the client: its query, the cursor, how often it was shown a product
              \* (2: more than once); "due" matched at the start, and "moved" says
              \* that a stock has changed since

BrowseConstants ==
  /\ Skus \in Nat /\ Take \in Nat /\ PageLimit \in Nat \ {0} /\ MaxWrites \in Nat
  /\ Levels \subseteq Nat
  /\ FirstStock \subseteq [Sku -> Levels \cup {NoProduct}]

BrowseTypeOK ==
  /\ available \in [Sku -> Levels \cup {0, NoProduct}]
  /\ listed \subseteq Sku
  /\ writes \in 0 .. MaxWrites
  /\ walk \in [pc : {"idle", "open", "over"}, inChannel : BOOLEAN, stockStatus : StockStatus,
               cursor : Sku \cup {NoCursor}, shown : [Sku -> 0 .. 2],
               due : SUBSET Sku, moved : BOOLEAN]

BrowseInit ==
  /\ available \in FirstStock
  /\ listed = {}
  /\ writes = 0
  /\ walk = [pc |-> "idle", inChannel |-> FALSE, stockStatus |-> "ALL", cursor |-> NoCursor,
             shown |-> [s \in Sku |-> 0], due |-> {}, moved |-> FALSE]

-----------------------------------------------------------------------------
(* What a sync writes.                                                     *)

Exists(s) == available[s] # NoProduct
Write == writes < MaxWrites /\ writes' = writes + 1

\* The product comes first, its stock and channels later.
UpsertProduct(s) ==
  /\ Write /\ ~Exists(s)
  /\ available' = [available EXCEPT ![s] = 0]
  /\ UNCHANGED <<listed, walk>>

UpsertStock(s, n) ==
  /\ Write /\ Exists(s) /\ available[s] # n
  /\ available' = [available EXCEPT ![s] = n]
  /\ walk' = [walk EXCEPT !.moved = @ \/ walk.pc = "open"]
  /\ UNCHANGED listed

\* Rows of a channel are never deleted.
UpsertChannel(s) ==
  /\ Write /\ Exists(s) /\ s \notin listed
  /\ listed' = listed \cup {s}
  /\ UNCHANGED <<available, walk>>

-----------------------------------------------------------------------------
(* A page.                                                                 *)

FirstOf(S, n) == {s \in S : Cardinality({q \in S : q < s}) < n}

Where(inChannel) == {s \in Sku : Exists(s) /\ (inChannel => s \in listed)}

HasStatus(s, status) ==
  \/ status = "ALL"
  \/ status = "OUT_OF_STOCK" /\ available[s] = 0
  \/ status = "LOW_STOCK" /\ available[s] \in 1 .. 50
  \/ status = "IN_STOCK" /\ available[s] > 50

Filtered(query) ==
  {s \in FirstOf(Where(query.inChannel), Take) : HasStatus(s, query.stockStatus)}

\* A cursor that is not among the products any more means the beginning.
Mut_Rest(query) == {s \in Filtered(query) : s >= query.cursor}
Rest(query) ==
  IF query.cursor \in Filtered(query) THEN {s \in Filtered(query) : s > query.cursor}
  ELSE Filtered(query)

Page(query) == FirstOf(Rest(query), PageLimit)

NextCursor(query) ==
  IF Cardinality(Rest(query)) > PageLimit
  THEN CHOOSE s \in Page(query) : \A q \in Page(query) : q <= s
  ELSE NoCursor

browseSkus(query) ==
  /\ walk' = [query EXCEPT
                !.pc = IF NextCursor(query) = NoCursor THEN "over" ELSE "open",
                !.cursor = NextCursor(query),
                !.shown = [s \in Sku |-> IF s \in Page(query) /\ @[s] < 2 THEN @[s] + 1
                                         ELSE @[s]]]
  /\ UNCHANGED <<available, listed, writes>>

FirstPage ==
  /\ walk.pc = "idle"
  /\ \E inChannel \in BOOLEAN, status \in StockStatus :
       LET query == [walk EXCEPT !.inChannel = inChannel, !.stockStatus = status]
       IN browseSkus([query EXCEPT !.due = Filtered(query)])

NextPage == walk.pc = "open" /\ browseSkus(walk)

BrowseNext ==
  \/ \E s \in Sku : \/ UpsertProduct(s) \/ UpsertChannel(s)
                    \/ \E n \in Levels : UpsertStock(s, n)
  \/ FirstPage \/ NextPage

-----------------------------------------------------------------------------

\* Whoever follows the cursor to the end has seen every product that matched at
\* the beginning, and none twice, whatever was created or listed meanwhile: if
\* no more than Take match, and no stock has moved or the query does not ask
\* for it (prisma-sku-dashboard.repository.ts:42-98).
WalkShowsAll ==
  (walk.stockStatus = "ALL" \/ ~walk.moved) /\ Cardinality(Where(walk.inChannel)) <= Take
  => /\ \A s \in Sku : walk.shown[s] <= 1
     /\ walk.pc = "over" => \A s \in walk.due : walk.shown[s] = 1
=============================================================================
