CONSTANTS
  base = base
  quote = quote
  sol = sol
  settle = settle
  place = place
  settleSol = settleSol
  Mints <- MCMints
  Native = sol
  Requests <- MCRequests
  Calls <- MCCalls
SPECIFICATION Spec
PROPERTY CreateOnlyMissing
