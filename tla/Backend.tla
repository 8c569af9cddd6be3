------------------------------ MODULE Backend ------------------------------
(***************************************************************************)
(* Parts of the backend that know of each other only what each promises.   *)
(* LinnworksClient promises that a call is answered or throws, which is    *)
(* all that LinnworksSync knows of it; and it reads nothing that a run     *)
(* writes.  SkuBrowse, SalesReports, ProductDetails and Catalogue each     *)
(* know of a sync what their tables show of it, and AccountStore takes     *)
(* from UnitOfWork that a transaction is one step.  So a behaviour is      *)
(* about one part: the product of all would show nothing more.             *)
(***************************************************************************)
EXTENDS LinnworksSync, UnitOfWork

CONSTANTS Call, Limit, Window, Retries, Ttl, Margin,            \* see LinnworksClient
          Skus, FirstStock, Levels, Take, PageLimit, MaxWrites, \* see SkuBrowse
          LastDay, WINDOWS, PeriodDays, AlertDays,              \* see SalesReports
          Edits, Syncs, Fields,                                 \* see ProductDetails
          Items, Changes                                        \* see Catalogue

VARIABLES session, stamps, call, sent,                       \* see LinnworksClient
          available, listed, writes, walk,                   \* see SkuBrowse
          today, sales, synced, syncs, salesMetrics,         \* see SalesReports
          product, edit, upsert,                             \* see ProductDetails
          item, changes, sku, stockRows, channelRows, shown, \* see Catalogue
          part

Client == INSTANCE LinnworksClient
Browse == INSTANCE SkuBrowse
Reports == INSTANCE SalesReports
Details == INSTANCE ProductDetails
Goods == INSTANCE Catalogue

ASSUME PartsAssumption ==
  /\ Client!ClientConstants /\ Browse!BrowseConstants /\ Reports!ReportConstants
  /\ Details!DetailConstants /\ Goods!CatalogueConstants /\ UnitConstants

Parts == {"client", "sync", "browse", "reports", "details", "goods", "account"}

clientVars == <<session, stamps, call, sent>>
browseVars == <<available, listed, writes, walk>>
reportVars == <<today, sales, synced, syncs, salesMetrics>>
detailVars == <<product, edit, upsert>>
goodsVars == <<item, changes, sku, stockRows, channelRows, shown>>
tableVars == <<browseVars, reportVars, detailVars, goodsVars>>
vars == <<syncVars, clientVars, tableVars, unitVars, part>>

TypeOK ==
  /\ SyncTypeOK /\ Client!TypeOK /\ Browse!BrowseTypeOK /\ Reports!ReportsTypeOK
  /\ Details!DetailTypeOK /\ Goods!CatalogueTypeOK /\ UnitsTypeOK
  /\ part \in Parts

\* One choice of what a part may begin with is enough for the other parts.
Init ==
  /\ SyncInit /\ Client!Init /\ Browse!BrowseInit /\ Reports!ReportsInit
  /\ Details!DetailInit /\ Goods!CatalogueInit /\ UnitsInit
  /\ part \in Parts
  /\ part # "sync" => times = CHOOSE t \in FirstTimes : TRUE
  /\ part # "browse" => available = CHOOSE n \in FirstStock : TRUE
  /\ part # "details" => product = Details!NoProduct
  /\ part # "goods" => item = CHOOSE i \in Items : TRUE

ClientStep(c) ==
  part = "client" /\ Client!Step(c) /\ UNCHANGED <<syncVars, tableVars, unitVars, part>>

StartCall(c) ==
  part = "client" /\ Client!Start(c) /\ UNCHANGED <<syncVars, tableVars, unitVars, part>>

Tick == part = "client" /\ Client!Tick /\ UNCHANGED <<syncVars, tableVars, unitVars, part>>

BrowseNext ==
  /\ part = "browse" /\ Browse!BrowseNext
  /\ UNCHANGED <<reportVars, detailVars, goodsVars>>

ReportsNext ==
  /\ part = "reports" /\ Reports!ReportsNext
  /\ UNCHANGED <<browseVars, detailVars, goodsVars>>

DetailNext ==
  /\ part = "details" /\ Details!DetailNext
  /\ UNCHANGED <<browseVars, reportVars, goodsVars>>

CatalogueNext ==
  /\ part = "goods" /\ Goods!CatalogueNext
  /\ UNCHANGED <<browseVars, reportVars, detailVars>>

TablesNext ==
  /\ BrowseNext \/ ReportsNext \/ DetailNext \/ CatalogueNext
  /\ UNCHANGED <<syncVars, clientVars, unitVars, part>>

Next ==
  \/ Tick
  \/ \E c \in Call : StartCall(c) \/ ClientStep(c)
  \/ part = "sync" /\ SyncNext /\ UNCHANGED <<clientVars, tableVars, unitVars, part>>
  \/ TablesNext
  \/ part = "account" /\ UnitsNext /\ UNCHANGED <<syncVars, clientVars, tableVars, part>>

\* See LinnworksClient.
Fairness == WF_vars(Tick) /\ \A c \in Call : WF_vars(ClientStep(c))

Spec == Init /\ [][Next]_vars /\ Fairness

-----------------------------------------------------------------------------

\* No minute has more requests to Linnworks than the limit
\* (linnworks-client.ts:283-304).
RateKept == Client!RateKept

\* A call of the client is answered or throws (linnworks-client.ts:121-180).
CallsEnd == Client!CallsEnd

\* A walk through the pages shows every product once; see SkuBrowse
\* (prisma-sku-dashboard.repository.ts:42-98).
WalkShowsAll == Browse!WalkShowsAll

\* Alerts and dashboards are as near to the sales as their windows are long; see
\* SalesReports (prisma-sku-dashboard.repository.ts:100-119, 165-231).
ReportsCountSales == Reports!ReportsCountSales

\* Edits of different fields of a product do not undo each other; see
\* ProductDetails (prisma-sku-dashboard.repository.ts:252-265, 445-459).
EditsSurvive == Details!EditsSurvive

\* A sync shows every stock level and price in a row of its own; see Catalogue
\* (sync-linnworks-catalog.service.ts:120-187).
CatalogueShown == Goods!CatalogueShown
=============================================================================
