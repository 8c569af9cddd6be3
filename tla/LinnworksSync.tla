--------------------------- MODULE LinnworksSync ---------------------------
(***************************************************************************)
(* The synchronisation with Linnworks: RunLinnworksDailySyncService with   *)
(* the catalogue, the sales and the writes of PrismaSkuDashboardRepository *)
(* for one product.  A run is started by the daily job, by a manual job or *)
(* by a request that does not queue: nothing keeps runs apart.             *)
(*                                                                         *)
(* A step is an awaited call and what follows up to the next; any call may *)
(* throw or be the last one of its process, and one that writes may do so  *)
(* before or after the write.  What LinnworksClient returns is what        *)
(* Linnworks has (LinnworksClient has the rest).  Runs of the model belong *)
(* to one day: they see the same orders, at the same distance from their   *)
(* end.                                                                    *)
(***************************************************************************)
EXTENDS Integers, SequencesExt

CONSTANTS Runs,         \* bound: runs that are started
          MaxInFlight,  \* bound: runs at work at the same time
          MaxMishaps,   \* bound: calls that throw, processes that die
          MaxChanges,   \* bound: how often the stock changes at Linnworks
          Rows,         \* the rows of the catalogue, stock and then listings:
                        \* does a unique key hold for it (no part of it null)?
          Orders,       \* processed orders, as natural numbers
          FirstTimes,   \* when they may have been processed, in ticks after periodStart
          Span,         \* periodEnd: 365 days
          Chunk,        \* the longest search: 90 days
          Periods,      \* WINDOWS
          PageSize      \* linnworks_orders_page_size: 200

Run == 1 .. Runs

ASSUME SyncAssumption ==
  /\ Runs \in Nat /\ MaxInFlight \in Nat /\ MaxMishaps \in Nat /\ MaxChanges \in Nat
  /\ Rows \in Seq(BOOLEAN) /\ Rows # <<>>
  /\ Orders \subseteq Nat /\ IsFiniteSet(Orders)
  /\ Span \in Nat \ {0} /\ Chunk \in Nat \ {0} /\ PageSize \in Nat \ {0}
  /\ FirstTimes \subseteq [Orders -> 0 .. Span]
  /\ Periods \subseteq 0 .. Span

VARIABLES
  times,     \* when each order was processed
  quantity,  \* the stock at Linnworks, by the number of its changes
  table,     \* ProductStock and ProductChannel: the quantities of the rows with
             \* the key of each row of the catalogue, in the order of creation
  metrics,   \* ProductSalesMetric
  log,       \* SkuSyncLog, a row for each run
  run,
  met,       \* history: the pairs of runs that were at work at the same time
  mishaps

syncVars == <<times, quantity, table, metrics, log, run, met, mishaps>>

Place == 1 .. Len(Rows)
Steps == {"createLog", "stock", "channels", "products", "find", "write", "search",
          "items", "delete", "insert", "succeed", "fail"}
RunState ==
  [pc : {"idle", "completed", "threw", "died"} \cup Steps,
   seen : 0 .. MaxChanges,             \* the quantities it has read
   place : 1 .. Len(Rows) + 1,         \* the row it writes
   existing : Nat,                     \* the row it has found, 0 if none
   from : 0 .. Span, page : Nat,       \* its search of orders
   found : SUBSET Orders,
   left : SUBSET Periods]              \* metrics to be written

Metric == [run : Run, period : Periods, units : Nat]

SyncTypeOK ==
  /\ times \in FirstTimes
  /\ quantity \in 0 .. MaxChanges
  /\ table \in [Place -> Seq(0 .. MaxChanges)]
  /\ metrics \subseteq Metric
  /\ log \in [Run -> {"none", "running", "success", "failed"}]
  /\ run \in [Run -> RunState]
  /\ met \subseteq SUBSET Run /\ mishaps \in 0 .. MaxMishaps

Idle == [pc |-> "idle", seen |-> 0, place |-> 1, existing |-> 0, from |-> 0, page |-> 1,
         found |-> {}, left |-> {}]

SyncInit ==
  /\ times \in FirstTimes
  /\ quantity = 0
  /\ table = [i \in Place |-> <<>>]
  /\ metrics = {}
  /\ log = [r \in Run |-> "none"]
  /\ run = [r \in Run |-> Idle]
  /\ met = {} /\ mishaps = 0

At(r, step) == run[r].pc = step
InFlight == {r \in Run : run[r].pc \in Steps}
Proceed(r, step) == run' = [run EXCEPT ![r].pc = step]

world == <<times, quantity, met>>
database == <<table, metrics, log>>

\* Where an exception leads: the first call is before the try, the last one
\* in the catch.
Mut_Catch(step) == IF step \in {"createLog", "fail"} THEN "threw"
                   ELSE IF step \in {"find", "write"} THEN "search" ELSE "fail"
Catch(step) == IF step \in {"createLog", "fail"} THEN "threw" ELSE "fail"

Throw(r) == Proceed(r, Catch(run[r].pc))

\* A call throws, or the process dies.
MishapOf(r) ==
  /\ mishaps < MaxMishaps /\ mishaps' = mishaps + 1
  /\ Throw(r) \/ Proceed(r, "died")

\* The answer to a write, after which the state of the run is next.
Answer(r, next) ==
  \/ run' = [run EXCEPT ![r] = next] /\ UNCHANGED mishaps
  \/ MishapOf(r)

-----------------------------------------------------------------------------
(* RunLinnworksDailySyncService.execute                                    *)

StartRun(r) ==
  /\ At(r, "idle") /\ \A q \in 1 .. r - 1 : ~At(q, "idle")
  /\ Cardinality(InFlight) < MaxInFlight
  /\ Proceed(r, "createLog")
  /\ met' = met \cup {{q, r} : q \in InFlight}
  /\ UNCHANGED <<times, quantity, mishaps, database>>

CreateSyncLog(r) ==
  /\ At(r, "createLog")
  /\ log' = [log EXCEPT ![r] = "running"]
  /\ Answer(r, [run[r] EXCEPT !.pc = "stock"])
  /\ UNCHANGED <<table, metrics, world>>

UpdateSyncLog(r) ==
  /\ \/ /\ At(r, "succeed") /\ log' = [log EXCEPT ![r] = "success"]
        /\ Answer(r, [run[r] EXCEPT !.pc = "completed"])
     \/ /\ At(r, "fail") /\ log' = [log EXCEPT ![r] = "failed"]
        /\ Answer(r, [run[r] EXCEPT !.pc = "threw"])
  /\ UNCHANGED <<table, metrics, world>>

-----------------------------------------------------------------------------
(* SyncLinnworksCatalogService.execute: pages of stock, their listings, and *)
(* then the writes, row by row.                                            *)

\* What may be answered: nothing between the run and Linnworks keeps an answer.
Mut_StockNow == 0 .. quantity
StockNow == {quantity}

FetchStockItems(r) ==
  /\ At(r, "stock")
  /\ \E n \in StockNow : run' = [run EXCEPT ![r].pc = "channels", ![r].seen = n]
  /\ UNCHANGED <<world, mishaps, database>>

FetchChannelSkus(r) ==
  /\ At(r, "channels") /\ Proceed(r, "products")
  /\ UNCHANGED <<world, mishaps, database>>

\* The product is there, or is now; the ids of the products follow.
UpsertProducts(r) ==
  /\ At(r, "products") /\ Proceed(r, "find")
  /\ UNCHANGED <<world, mishaps, database>>

RowsAt(r) == table[run[r].place]

\* findFirst, by the key of the row
FindRow(r) ==
  /\ At(r, "find")
  /\ \E k \in IF RowsAt(r) = <<>> THEN {0} ELSE DOMAIN RowsAt(r) :
       run' = [run EXCEPT ![r].existing = k, ![r].pc = "write"]
  /\ UNCHANGED <<world, mishaps, database>>

NextRow(r) ==
  Answer(r, [run[r] EXCEPT !.place = @ + 1, !.existing = 0,
                           !.pc = IF run[r].place < Len(Rows) THEN "find" ELSE "search"])

\* The database refuses a second row unless a part of the key is null.
Mut_MayCreate(r) == TRUE
MayCreate(r) == RowsAt(r) = <<>> \/ ~Rows[run[r].place]

WriteRow(r) ==
  /\ At(r, "write")
  /\ \/ /\ run[r].existing # 0
        /\ table' = [table EXCEPT ![run[r].place][run[r].existing] = run[r].seen]
        /\ NextRow(r)
     \/ /\ run[r].existing = 0 /\ MayCreate(r)
        /\ table' = [table EXCEPT ![run[r].place] = Append(@, run[r].seen)]
        /\ NextRow(r)
     \/ /\ run[r].existing = 0 /\ ~MayCreate(r)
        /\ Throw(r)
        /\ UNCHANGED <<table, mishaps>>
  /\ UNCHANGED <<metrics, log, world>>

-----------------------------------------------------------------------------
(* SyncLinnworksSalesService.execute                                       *)

\* The orders of a search, and those on one of its pages.
Between(from, to) == {o \in Orders : times[o] \in from .. to}
TotalPages(hits) == (Cardinality(hits) + PageSize - 1) \div PageSize
OnPage(hits, page) ==
  {o \in hits : Cardinality({p \in hits : p < o}) \in (page - 1) * PageSize .. page * PageSize - 1}

SearchEnd(from) == Min({Span, from + Chunk - 1})

Mut_NextSearch(from) == from + Chunk
NextSearch(from) == Min({Span, from + Chunk})

Hits(r) == Between(run[r].from, SearchEnd(run[r].from))
WithPage(r) == run[r].found \cup OnPage(Hits(r), run[r].page)

SearchPage(r) ==
  /\ At(r, "search") /\ run[r].page < TotalPages(Hits(r))
  /\ run' = [run EXCEPT ![r].found = WithPage(r), ![r].page = @ + 1]
  /\ UNCHANGED <<world, mishaps, database>>

\* A search without hits has TotalPages 0, and its first page is empty.
SearchLastPage(r) ==
  /\ At(r, "search") /\ run[r].page >= TotalPages(Hits(r))
  /\ LET from == NextSearch(run[r].from)
     IN  run' = [run EXCEPT ![r].found = WithPage(r), ![r].page = 1, ![r].from = from,
                            ![r].pc = IF from < Span THEN "search" ELSE "items"]
  /\ UNCHANGED <<world, mishaps, database>>

\* aggregateMetrics: an item of an order counts in every period it falls into.
Sold(orders, period) == Cardinality({o \in orders : times[o] >= Span - period})

\* The items of the orders come in batches; there is one of each order.
FetchOrderItems(r) ==
  /\ At(r, "items")
  /\ LET left == {p \in Periods : Sold(run[r].found, p) > 0}
     IN  run' = [run EXCEPT ![r].left = left,
                            ![r].pc = IF left = {} THEN "succeed" ELSE "delete"]
  /\ UNCHANGED <<world, mishaps, database>>

\* The metrics are written in any fixed order.
Period(r) == CHOOSE p \in run[r].left : TRUE

\* replaceSalesMetrics: periodEnd is the time at which the run began to search,
\* to the millisecond, so the rows of another run are not those of the period.
Mut_SameMetric(m, r) == m.period = Period(r)
SameMetric(m, r) == m.run = r /\ m.period = Period(r)

DeleteMetric(r) ==
  /\ At(r, "delete")
  /\ metrics' = {m \in metrics : ~SameMetric(m, r)}
  /\ Answer(r, [run[r] EXCEPT !.pc = "insert"])
  /\ UNCHANGED <<table, log, world>>

InsertMetric(r) ==
  /\ At(r, "insert")
  /\ metrics' = metrics \cup
       {[run |-> r, period |-> Period(r), units |-> Sold(run[r].found, Period(r))]}
  /\ Answer(r, [run[r] EXCEPT !.left = @ \ {Period(r)},
                              !.pc = IF run[r].left = {Period(r)} THEN "succeed" ELSE "delete"])
  /\ UNCHANGED <<table, log, world>>

-----------------------------------------------------------------------------

\* A call has not been answered, and has not written anything.
Mishap(r) ==
  /\ r \in InFlight
  /\ MishapOf(r)
  /\ UNCHANGED <<world, database>>

StockChanges ==
  /\ quantity < MaxChanges /\ quantity' = quantity + 1
  /\ UNCHANGED <<times, met, mishaps, run, database>>

RunStep(r) ==
  \/ CreateSyncLog(r) \/ UpdateSyncLog(r)
  \/ FetchStockItems(r) \/ FetchChannelSkus(r) \/ UpsertProducts(r)
  \/ FindRow(r) \/ WriteRow(r)
  \/ SearchPage(r) \/ SearchLastPage(r) \/ FetchOrderItems(r) \/ DeleteMetric(r) \/ InsertMetric(r)

SyncNext ==
  \/ \E r \in Run : StartRun(r) \/ RunStep(r) \/ Mishap(r)
  \/ StockChanges

SyncSpec == SyncInit /\ [][SyncNext]_syncVars

-----------------------------------------------------------------------------

\* The log says SUCCESS of every run that was answered COMPLETED, and only of
\* runs that have written all rows; it says FAILED of runs that ended without
\* an answer or with an exception.  One exception does not leave SUCCESS for a
\* caller who got it (run-linnworks-daily-sync.service.ts:29-73).
LogTellsOutcome ==
  \A r \in Run :
    /\ At(r, "completed") => log[r] = "success"
    /\ log[r] = "success" => \A i \in Place : table[i] # <<>>
    /\ log[r] = "failed" => run[r].pc \in {"threw", "died"}
    /\ At(r, "threw") /\ log[r] = "success" => mishaps > 1

\* A successful run counts every order once in each period that has it,
\* though it is searched in pieces, page by page, beside other runs
\* (sync-linnworks-sales.service.ts:67-93, 118-167).
MetricsComplete ==
  \A r \in Run :
    log[r] = "success"
    => {m \in metrics : m.run = r}
       = {[run |-> r, period |-> p, units |-> Sold(Orders, p)] :
            p \in {p \in Periods : Sold(Orders, p) > 0}}

\* Stock or a listing has two rows only if a part of its key is null and two
\* runs have met (prisma-sku-dashboard.repository.ts:279-309, 323-354).
OneRowPerPlace ==
  \A i \in Place : Len(table[i]) > 1 => met # {} /\ ~Rows[i]

\* A newer quantity is replaced by an older one only by a run that was at work at
\* the same time as the run that had read the newer one: a sync puts right what
\* those before it have left, and two that overlap may leave the older quantity,
\* as each writes what it has read at its beginning and neither looks at what is
\* there (sync-linnworks-catalog.service.ts:45-66,
\* prisma-sku-dashboard.repository.ts:266-309).
StockMovesForward ==
  [][\A i \in Place : \A k \in DOMAIN table[i] :
       table'[i][k] < table[i][k]
       => \E pair \in met : {run[r].seen : r \in pair} = {table'[i][k], table[i][k]}]_syncVars
=============================================================================
