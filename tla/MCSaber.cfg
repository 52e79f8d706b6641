CONSTANTS
  Mints = {"vault", "iou", "sbr", "lp", "sol"}
  Native = "sol"
  Requests = {"a", "b", "c", "h"}
  Calls <- MCCalls
  Kind <- MCKind
  Senders <- MCSenders
  MaxTokens = 1
  PoolMints = {"A", "B", "lp", "underlying", "sol"}
  PoolRequests = {"d", "wa", "wb", "sa", "sb"}
  PoolCalls <- MCPoolCalls
  PoolKind <- MCPoolKind
  Side <- MCSide
  Tagged = "A"
  Unit = 2
  Markets <- MCMarkets
  Quote <- MCQuote
  Amounts = {2, 3}
  Situations <- MCSituations
  MaxOwned = 3
  InFlight = 1
SPECIFICATION MCSpec
INVARIANT MinerAndVault
PROPERTY FarmRefusalExplained
PROPERTY DepositsConverge
PROPERTY WrappedByTheQuote
PROPERTY PoolRefusalExplained
