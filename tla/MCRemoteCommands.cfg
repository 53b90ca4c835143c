CONSTANTS
  Points = {p1}
  Clients = {c1, c2}
  Connectors = {1}
  IdTags = {u1, u2}
  RemoteStarts = {k1, k2}
  RemoteStops = {}
  Requests = {r1, r2}
  MaxAttempts = 2
  MaxClock = 2
  MaxTransactionId = 2
SPECIFICATION Spec
SYMMETRY Symmetry
INVARIANTS TypeOK LinksAreSound StopFindsItsSession RegisteredIsOpen
PROPERTIES RecordsAreKept
