CONSTANTS
  About = {"settling"}
  Accounts = {a, b, c, d}
  Settlers = {a, b}
  MaxPnl = 2
  MaxFees = 1
  MaxInstructions = 2
  MaxMoves = 1
  Places = {}
  Cancels = {}
  Mine = {"a1"}
  First = "a1"
  Orders = {}
  Asks = {}
  Fine = 1
  BaseUnit = 1
  BaseLot = 1
  QuoteLot = 1
  Slots = 1
  Limit = 1
  Failures = 0
SPECIFICATION MCSpec
SYMMETRY Bystanders
INVARIANT TypeOK
INVARIANT SettlesTheMost
INVARIANT FewestCounterparties
INVARIANT NeverAgainstItself
