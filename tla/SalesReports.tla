---------------------------- MODULE SalesReports ----------------------------
(***************************************************************************)
(* What the dashboard and the alerts make of the metrics of one product    *)
(* and channel, which syncs have left in the database.  Each sync counts   *)
(* the orders of some windows that end when it begins (LinnworksSync has   *)
(* its parts); it takes time, so a report is always later than the last    *)
(* window's end.                                                           *)
(***************************************************************************)
EXTENDS Integers, FiniteSets, FiniteSetsExt

CONSTANTS LastDay,     \* bound: the time until which the product is watched
          WINDOWS,     \* lengths of the windows of a sync
          PeriodDays,  \* lengths a dashboard may be asked for
          AlertDays    \* 30

Day == 0 .. LastDay

VARIABLES today,
          sales,         \* when orders of the product were processed
          synced,        \* history: those of them that a sync has found
          syncs,         \* history: when the windows of syncs ended
          salesMetrics   \* the rows of ProductSalesMetric

ReportConstants ==
  /\ LastDay \in Nat /\ AlertDays \in WINDOWS
  /\ WINDOWS \subseteq Nat \ {0} /\ IsFiniteSet(WINDOWS)
  /\ PeriodDays \subseteq Nat \ {0}

ReportsTypeOK ==
  /\ today \in Day
  /\ sales \subseteq Day
  /\ synced \subseteq sales /\ syncs \subseteq Day
  /\ \A m \in salesMetrics : m.periodEnd \in Day /\ m.periodEnd - m.periodStart \in WINDOWS
                             /\ m.unitsSold \in 1 .. LastDay + 1

ReportsInit ==
  today = 0 /\ sales = {} /\ synced = {} /\ syncs = {} /\ salesMetrics = {}

-----------------------------------------------------------------------------

Pass == today < LastDay /\ today' = today + 1

Sell ==
  /\ today \notin sales
  /\ sales' = sales \cup {today}
  /\ UNCHANGED <<today, synced, syncs, salesMetrics>>

\* The rows of one sync.
Since(day) == {o \in sales : o >= day}
Aggregated ==
  {[periodStart |-> today - days, periodEnd |-> today,
    unitsSold |-> Cardinality(Since(today - days))] :
     days \in {d \in WINDOWS : Since(today - d) # {}}}

\* Rows of earlier syncs have other ends and stay.
Sync ==
  /\ Pass
  /\ salesMetrics' = salesMetrics \cup Aggregated
  /\ synced' = synced \cup UNION {Since(today - days) : days \in WINDOWS}
  /\ syncs' = syncs \cup {today}
  /\ UNCHANGED sales

DayPasses == Pass /\ UNCHANGED <<sales, synced, syncs, salesMetrics>>

ReportsNext == Sell \/ Sync \/ DayPasses

-----------------------------------------------------------------------------
(* The reports.                                                            *)

Units(rows) == MapThenSumSet(LAMBDA m : m.unitsSold, rows)

\* The rows of a dashboard of so many days.
Mut_InPeriod(days) == {m \in salesMetrics : m.periodEnd >= today - days /\ m.periodEnd <= today}
InPeriod(days) ==
  {m \in salesMetrics : m.periodStart >= today - days /\ m.periodEnd <= today}

salesVelocity(days) == Units(InPeriod(days))

\* The rows by which a product with stock is called dead or not.
AlertRows == {m \in salesMetrics : m.periodEnd >= today - AlertDays}

InventoryAlert(available) ==
  IF available = 0 THEN "OUT_OF_STOCK"
  ELSE IF available <= 10 THEN "CRITICAL_LOW"
  ELSE IF Units(AlertRows) = 0 THEN "DEAD_STOCK"
  ELSE "none"

-----------------------------------------------------------------------------

\* What is synced of the sales of some days.
Found(from, to) == {o \in synced : from <= o /\ o <= to}
FitsInto(e, d, days) == e - d >= today - days

\* How far the reports are from the sales that are synced.  A product that is
\* called dead has had no sale in the 30 days; but one that has had none is only
\* called so when the longest window of the syncs of these days is without sales
\* as well: a sale of last year keeps it off the list, although line 222 says "no
\* synced sales in 30 days".  A dashboard shows no less than any window that lies
\* within its period has, and of no other days; it counts an order once for each
\* such window of each sync (prisma-sku-dashboard.repository.ts:105-110, 165-231).
ReportsCountSales ==
  /\ InventoryAlert(11) = "DEAD_STOCK" => Found(today - AlertDays, today) = {}
  /\ InventoryAlert(11) # "DEAD_STOCK"
     => \E d \in WINDOWS : Found(today - AlertDays - d, today) # {}
  /\ \A days \in PeriodDays :
       /\ \A e \in syncs, d \in WINDOWS :
            FitsInto(e, d, days) => Cardinality(Found(e - d, e)) <= salesVelocity(days)
       /\ salesVelocity(days)
            <= Cardinality(InPeriod(days)) * Cardinality(Found(today - days, today))
=============================================================================
