----------------------------- MODULE Catalogue -----------------------------
(***************************************************************************)
(* What SyncLinnworksCatalogService makes of an item of Linnworks: under   *)
(* which keys upsertStock and upsertChannels find or create the rows of    *)
(* its stock levels, prices and listings, and what they hold.  The item    *)
(* may change between syncs; nothing deletes a row.                        *)
(*                                                                         *)
(* A text is a name with the marks that the service looks for in it; NoText*)
(* is one that Linnworks left out.  Names that differ in case only are one *)
(* name here: the service looks for marks without regard to case, and MySQL*)
(* compares keys so (prisma-sku-dashboard.repository.ts:279-286, 323-331). *)
(* How a sync fails or meets another is LinnworksSync's; here it is one    *)
(* step.                                                                   *)
(***************************************************************************)
EXTENDS Integers, SequencesExt

CONSTANTS Items,    \* the forms the item takes at Linnworks
          Changes   \* bound: how often it changes

VARIABLES
  item,         \* the item at Linnworks
  changes,      \* how often it has changed
  sku,          \* Product: how its SKU is spelled, 0 before it is created
  stockRows,    \* ProductStock: available by key
  channelRows,  \* ProductChannel: price by key
  shown         \* history: the item of the last sync

catalogueVars == <<item, changes, sku, stockRows, channelRows, shown>>

Null == -1      \* a field that Linnworks left out
NoText == [name |-> "", marks |-> {}, asin |-> ""]
NoRows == [key \in {} |-> Null]
NoItem == [spelling |-> 0, levels |-> <<>>, prices |-> <<>>, listings |-> <<>>, retail |-> Null]

Text == [name : STRING, marks : SUBSET STRING, asin : STRING]
Level == [location : [name : Text, tag : Text, fulfillment : BOOLEAN, managed : BOOLEAN],
          quantity : Int, inOrders : Int, available : Int]
Price == [source : Text, sub : Text, price : Int]
Listing == [source : Text, sub : Text, channelSku : Text, sku : Text, asin : STRING]
Item == [spelling : Nat \ {0}, levels : Seq(Level), prices : Seq(Price),
         listings : Seq(Listing), retail : Int]

CatalogueConstants == Changes \in Nat /\ Items \subseteq Item

-----------------------------------------------------------------------------
(* Names and their marks                                                   *)

\* a || b
Either(a, b) == IF a # NoText THEN a ELSE b

\* a ?? b
OrElse(a, b) == IF a # Null THEN a ELSE b

\* "CA" is looked for first, wherever it stands.
inferCountry(text) ==
  IF "CA" \in text.marks THEN "CA"
  ELSE IF text.marks \cap {"UK", "GB"} # {} THEN "UK"
  ELSE IF "AU" \in text.marks THEN "AU"
  ELSE "US"

Shops == <<"AMAZON", "EBAY", "WALMART", "SHOPIFY", "DANDU", "DISTINCT">>

toSalesChannel(text) ==
  LET found == SelectSeq(Shops, LAMBDA s : s \in text.marks)
  IN  IF found = <<>> THEN "OTHER"
      ELSE IF Head(found) \in {"DANDU", "DISTINCT"} THEN "WEBSITE"
      ELSE Head(found)

inferLocationType(location) ==
  IF location.fulfillment THEN "FBA" ELSE IF location.managed THEN "WAREHOUSE" ELSE "FBM"

-----------------------------------------------------------------------------
(* toStockRows and toChannelRows                                           *)

NonNegative(n) == IF n < 0 THEN 0 ELSE n

LocationName(location) == Either(location.name, location.tag)

\* A location without a name and a tag has no warehouse either.
KeyOf(location, name) ==
  [country |-> inferCountry(name), locationType |-> inferLocationType(location),
   warehouse |-> name]
Mut_StockKey(level) == KeyOf(level.location, level.location.name)
StockKey(level) == KeyOf(level.location, LocationName(level.location))

Available(level) ==
  OrElse(level.available, NonNegative(OrElse(level.quantity, 0) - OrElse(level.inOrders, 0)))

StockRows(i) == [k \in DOMAIN i.levels |->
                   [key |-> StockKey(i.levels[k]), value |-> Available(i.levels[k])]]

\* A price is kept under its SubSource, which may be none.
PriceKey(p) ==
  [channel |-> toSalesChannel(p.source), country |-> inferCountry(Either(p.sub, p.source)),
   asin |-> "", listingId |-> p.sub]

ListingKey(l) ==
  LET listingId == Either(Either(l.channelSku, l.sku), l.sub)
  IN  [channel |-> toSalesChannel(l.source), country |-> inferCountry(Either(l.sub, l.source)),
       asin |-> IF l.asin # "" THEN l.asin ELSE listingId.asin, listingId |-> listingId]

PriceOf(i, p) == OrElse(p.price, i.retail)

\* The Map keeps the last of the prices, and of the listings, that have one key.
ChannelRows(i) ==
  [k \in DOMAIN i.prices |-> [key |-> PriceKey(i.prices[k]), value |-> PriceOf(i, i.prices[k])]]
  \o [k \in DOMAIN i.listings |-> [key |-> ListingKey(i.listings[k]), value |-> Null]]

-----------------------------------------------------------------------------

CatalogueTypeOK ==
  /\ item \in Items /\ shown \in Items \cup {NoItem}
  /\ changes \in 0 .. Changes
  /\ sku \in {i.spelling : i \in Items} \cup {0}
  /\ \A key \in DOMAIN stockRows : stockRows[key] \in Int
  /\ \A key \in DOMAIN channelRows : channelRows[key] \in Int

CatalogueInit ==
  /\ item \in Items /\ changes = 0
  /\ sku = 0 /\ stockRows = NoRows /\ channelRows = NoRows
  /\ shown = NoItem

ItemChanges ==
  /\ changes < Changes /\ changes' = changes + 1
  /\ item' \in Items
  /\ UNCHANGED <<sku, stockRows, channelRows, shown>>

\* One row after the other: found by its key and updated, or created.
Put(table, row) ==
  [key \in DOMAIN table \cup {row.key} |-> IF key = row.key THEN row.value ELSE table[key]]
Upsert(table, rows) == FoldLeft(Put, table, rows)

\* MySQL finds the product whatever the case of its SKU; productIdBySku finds
\* it by the SKU as the row spells it, and without it the row is skipped.
ProductId(spelling) == spelling = item.spelling

SyncCatalogue ==
  LET stored == IF sku = 0 THEN item.spelling ELSE sku
  IN  /\ sku' = stored
      /\ IF ProductId(stored)
         THEN /\ stockRows' = Upsert(stockRows, StockRows(item))
              /\ channelRows' = Upsert(channelRows, ChannelRows(item))
         ELSE UNCHANGED <<stockRows, channelRows>>
      /\ shown' = item
      /\ UNCHANGED <<item, changes>>

CatalogueNext == ItemChanges \/ SyncCatalogue

-----------------------------------------------------------------------------

\* A sync shows every stock level, and every price under its SubSource: the rows
\* are found by what the texts of Linnworks are taken for, and must not be those
\* of another place or listing.  Levels of places with one name share a row, and
\* so do prices with one SubSource; a listing that goes by the SubSource of a
\* price, and has no ASIN, takes the price away.  Nothing is written, although
\* the sync succeeds and counts the rows, when the SKU is spelled in another way
\* than the product's (sync-linnworks-catalog.service.ts:120-187,
\* prisma-sku-dashboard.repository.ts:272-359, 435-443).
SameName(l, m) == LocationName(l.location) = LocationName(m.location)
TakesPrice(l, p) == ListingKey(l).listingId = p.sub /\ ListingKey(l).asin = ""
CatalogueShown ==
  sku = shown.spelling /\ sku # 0 =>
    /\ \A j \in DOMAIN shown.levels :
         \/ stockRows[StockKey(shown.levels[j])] = Available(shown.levels[j])
         \/ \E k \in DOMAIN shown.levels \ {j} : SameName(shown.levels[k], shown.levels[j])
    /\ \A j \in DOMAIN shown.prices :
         \/ channelRows[PriceKey(shown.prices[j])] = PriceOf(shown, shown.prices[j])
         \/ \E k \in DOMAIN shown.prices \ {j} : shown.prices[k].sub = shown.prices[j].sub
         \/ \E k \in DOMAIN shown.listings : TakesPrice(shown.listings[k], shown.prices[j])
=============================================================================
