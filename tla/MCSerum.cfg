CONSTANTS
  About = {"trading", "market"}
  Orders = {}
  Requests = {}
  All = "all"
  Ids = {"all"}
  Cap = 1
  Places = {"p1", "p2"}
  Settles = {"s1"}
  Keys = {1, 2, 3}
  None = 0
  MaxTokens = 2
  MarketRequests = {"a", "b"}
  Lots = {0, 1, 3, 20}
  Ticks = {0, 1, 20}
  Scale = 20
  BaseUnits = 10
  QuoteUnits = 100
  MaxRent = 14
SPECIFICATION MCSpec
INVARIANT SecondAccountOnlyByRace
INVARIANT MarketIsWhole
INVARIANT LotsAsAsked
INVARIANT OrphansExplained
PROPERTY FreeMoneyReturns
PROPERTY AnswerBecomesMarket
CHECK_DEADLOCK FALSE
