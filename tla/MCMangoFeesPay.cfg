CONSTANTS
  About = {"settling"}
  Accounts = {a, b, c}
  Settlers = {a, b}
  MaxPnl = 1
  MaxFees = 2
  MaxInstructions = 2
  MaxMoves = 2
  Places = {}
  Cancels = {}
  Mine = {"a1"}
  First = "a1"
  Orders = {}
  Asks = {}
  Fine = 1
  BaseUnit = 1
  BaseLot = 1
  QuoteLot = 1
  Slots = 1
  Limit = 1
  Failures = 0
SPECIFICATION MCSpec
INVARIANT DoneWhenFeesPay
