CONSTANTS
  q1 = q1
  q2 = q2
  usdc = usdc
  eth = eth
  sol = sol
  new = new
  Reserves = {usdc, eth, sol, new}
  Listed = {usdc, eth, sol}
  Native = {sol}
  Requests = {q1, q2}
  Caps = {1, 3, 8}
  Situations <- MCSituations
  Missing = Missing
SPECIFICATION Spec
INVARIANT RefreshedOnce
