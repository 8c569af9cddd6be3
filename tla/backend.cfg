SPECIFICATION Spec
CONSTANTS
  Runs = 2
  MaxInFlight = 2
  MaxMishaps = 1
  MaxChanges = 1
  Rows <- NamedAndNot
  Orders = {1, 2}
  FirstTimes <- OrderTimes
  Span = 7
  Chunk = 3
  Periods = {1, 7}
  PageSize = 1
  Call = {1, 2}
  Limit = 2
  Window = 2
  Retries = 1
  Ttl = 3
  Margin = 1
  Skus = 4
  FirstStock <- Stocks
  Levels = {0, 50, 51}
  Take = 3
  PageLimit = 1
  MaxWrites = 3
  LastDay = 6
  WINDOWS = {1, 2, 5}
  PeriodDays = {1, 2, 5}
  AlertDays = 2
  Edits = 3
  Syncs = 2
  Fields = {"cost", "weight"}
  Items <- SomeItems
  Changes = 1
  MaxUnits = 3
  MaxUnitMishaps = 2
INVARIANTS TypeOK RateKept LogTellsOutcome MetricsComplete OneRowPerPlace WalkShowsAll ReportsCountSales EditsSurvive CatalogueShown
PROPERTIES StockMovesForward CallsEnd WritesAreWhole
CHECK_DEADLOCK FALSE
