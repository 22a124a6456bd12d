SPECIFICATION Spec
CONSTANTS
  d1 = d1
  d2 = d2
  w1 = w1
  o1 = o1
  a1 = a1
  Sources = {s1}
  Detectors = {d1}
  Workers = {w1}
  Operators = {o1}
  Admins = {}
  Callers <- AllCallers
  Groups <- Monitor
  Blocks = {b1, b2}
  NoBlock = NoBlock
  NoSource = NoSource
  MaxFaults = 0
  MaxDeaths = 0
  ForeignRules = {FALSE}
  Duration = 1
  ExpireLimit = 1
  MaxTime = 3
SYMMETRY RowSymmetry
INVARIANT ActiveHasRule
