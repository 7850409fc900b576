SPECIFICATION LiveSpec
CONSTANTS
  r1 = r1
  r2 = r2
  Callers = {r1, r2}
  Urls <- MCUrls
  HostOf <- MCHostOf
  AllowedHosts = {"census", "ces", "roll", "arcgis"}
  Threshold = 1
  Cooldown = 1
  MinInterval = 1
  MaxRetries = 1
  MaxVersion = 2
  MaxChanges = 1
  NoUrl = NoUrl
  NoBody = NoBody
  Content <- MCContent
  NextPage <- MCNextPage
  PlansOf <- MCPlansOf
  Markets = {"houston", "dallas"}
  ValidAt = 13
  MaxPages = 2
  Alias <- MCAlias
  Initial <- MCInitial
  Before <- MCBefore
  NoForm = NoForm
  NoAddress = NoAddress
  MAX_BLOCK_SIZE = 4
  Null = Null
  Hole = Hole
  Unusable = Unusable
  NoYear = NoYear
  NoMarket = NoMarket
  MarketOfGeo <- MCMarketOfGeo
  MarketOfCounty <- MCMarketOfCounty
  PriorPopulation = 90
  NoInstant = NoInstant
  Forever = Forever
INVARIANTS BodiesAreCurrent SourcedIsObservedWhereReported RowOrderIsNothing MatchesAreFound
PROPERTIES FailingHostIsLeftAlone RunsEnd
CHECK_DEADLOCK FALSE
