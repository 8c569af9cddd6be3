------------------------------ MODULE MCBackend ------------------------------
EXTENDS Backend

\* Two orders: on both sides of the end of a search, on two pages of one, and
\* at the two ends of the year.
OrderTimes == {<<2, 3>>, <<3, 3>>, <<0, 7>>}

\* Stock in a named warehouse, and in one without a name.
NamedAndNot == <<TRUE, FALSE>>

\* Four products to come, and four of which one is missing in the middle.
Stocks == {[s \in 1 .. 4 |-> -1], <<51, 50, -1, 51>>, <<51, -1, 0, 51>>}

-----------------------------------------------------------------------------
(* Items of Linnworks                                                      *)

\* NoText and Null of Catalogue.
Blank == [name |-> "", marks |-> {}, asin |-> ""]
Missing == -1

Text(name, marks) == [name |-> name, marks |-> marks, asin |-> ""]
Location(name, tag, fulfillment) ==
  [name |-> name, tag |-> tag, fulfillment |-> fulfillment, managed |-> TRUE]
Level(location, level, inOrders, free) ==
  [location |-> location, quantity |-> level, inOrders |-> inOrders, available |-> free]
Price(source, sub, price) == [source |-> source, sub |-> sub, price |-> price]
Listing(source, sub, channelSku, asin) ==
  [source |-> source, sub |-> sub, channelSku |-> channelSku, sku |-> Blank, asin |-> asin]

Amazon == Text("Amazon", {"AMAZON"})
Ebay == Text("eBay", {"EBAY"})
AmazonUK == Text("Amazon UK", {"AMAZON", "UK"})
AmazonCA == Text("Amazon Canada", {"AMAZON", "CA"})
Outlet == [name |-> "outlet B012345678", marks |-> {}, asin |-> "B012345678"]

\* Two stores without a name but with a tag, one without either, and a centre of
\* Amazon in Cardiff; stock that Linnworks has counted and stock that it has not.
SomeLevels ==
  <<Level(Location(Blank, Text("UK-1", {"UK"}), FALSE), 5, Missing, Missing),
    Level(Location(Blank, Text("UK-2", {"UK"}), FALSE), 5, 7, Missing),
    Level(Location(Text("Cardiff UK", {"CA", "UK"}), Blank, TRUE), Missing, 1, 3),
    Level(Location(Blank, Blank, FALSE), 2, 1, Missing)>>

\* The same SubSource in two shops of one channel; a source without a SubSource.
SomePrices == <<Price(Amazon, AmazonUK, 8), Price(Amazon, AmazonCA, Missing), Price(Ebay, Blank, 9)>>
TwicePriced == <<Price(Amazon, AmazonUK, 8), Price(AmazonUK, AmazonUK, 7)>>

\* A listing by its SKU at the channel, one with the ASIN in the text, and one
\* that has only the SubSource.
SomeListings == <<Listing(Amazon, AmazonUK, Text("X-1", {}), ""), Listing(Amazon, AmazonUK, Outlet, "")>>
Nameless == <<Listing(Amazon, AmazonUK, Blank, "")>>
ByAsin == <<Listing(Amazon, AmazonUK, Blank, "B000000001")>>

\* An item and what may become of it: the SKU spelled otherwise, other amounts,
\* prices and listings.
SomeItems ==
  [spelling : {1, 2}, levels : {SomeLevels, <<SomeLevels[2]>>},
   prices : {SomePrices, TwicePriced, <<>>}, listings : {SomeListings, Nameless, ByAsin},
   retail : {Missing, 6}]
=============================================================================
