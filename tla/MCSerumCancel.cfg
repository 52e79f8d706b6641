CONSTANTS
  About = {"cancelling"}
  Orders = {o1, o2, o3}
  All = All
  Ids = {o1, unknown, All}
  Requests = {q1, q2}
  Cap = 2
  Places = {}
  Settles = {}
  Keys = {}
  None = 0
  MaxTokens = 0
  MarketRequests = {}
  Lots = {}
  Ticks = {}
  Scale = 1
  BaseUnits = 1
  QuoteUnits = 1
  MaxRent = 0
SPECIFICATION MCSpec
INVARIANT TypeOK
INVARIANT AnswerIsComplete
INVARIANT LeftoversAreExplained
PROPERTY CancelAnswered
