\* Two requests at a time leave the lifecycle graph.
CONSTANTS
  Sessions = {s1}
  Requests = {r1, r2}
  Costs = {0, 2}
  HoldAmount = 3
  MaxEntries = 3
SPECIFICATION Spec
PROPERTIES
  ImplementsLifecycle
