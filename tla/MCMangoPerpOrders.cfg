CONSTANTS
  About = {"orders"}
  Places = {"p"}
  Cancels = {"c"}
  Mine = {"a1", "a2"}
  First = "a1"
  Orders = {1, 2, 3}
  Asks <- MCAsks
  Fine = 2
  BaseUnit = 10
  BaseLot = 2
  QuoteLot = 1
  Slots = 2
  Limit = 1
  Failures = 1
  Accounts = {}
  Settlers = {}
  MaxPnl = 0
  MaxFees = 0
  MaxInstructions = 1
  MaxMoves = 0
SPECIFICATION MCSpec
INVARIANT WithinALot
INVARIANT RefusalExplained
INVARIANT NotFoundExplained
PROPERTY CancelAllEmpties
