\* One request at a time of the wallet or of the sessions, or two commands to a
\* charger; everything may still fail.
CONSTANTS
  Requests = {r1}
  Operations = {"TOP_UP", "DEDUCTION", "REFUND"}
  Amounts = {1, 2}
  MaxInt = 4
  MaxCharges = 3
  MaxRows = 4
  Sessions = {s1, s2}
  Costs = {0, 2}
  HoldAmount = 3
  MaxEntries = 3
  Points = {p1}
  Clients = {c1, c2}
  Connectors = {1}
  IdTags = {u1}
  RemoteStarts = {k1}
  RemoteStops = {k2}
  MaxAttempts = 3
  MaxClock = 1
  MaxTransactionId = 1
SPECIFICATION PromisesSpec
PROPERTIES
  ImplementsLedger
  ImplementsLifecycle
  CommandReturns
