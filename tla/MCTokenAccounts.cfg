CONSTANTS
  base = base
  quote = quote
  sol = sol
  settle = settle
  place = place
  settleSol = settleSol
  Mints <- MCMints
  Native = sol
  Requests <- MCRequests
  Calls <- MCCalls
SPECIFICATION FairSpec
INVARIANT TypeOK
INVARIANT CreatesMatchObservation
PROPERTY FailureHasCause
PROPERTY RetriesConverge
PROPERTY ImplementsEnsure
