\* A charger's session is never paid for.
CONSTANTS
  Sessions = {s1}
  Requests = {r1}
  Costs = {0, 2}
  HoldAmount = 3
  MaxEntries = 3
SPECIFICATION Spec
INVARIANTS
  StopCollectsCost
