CONSTANTS
  Points = {p1}
  Clients = {c1, c2}
SPECIFICATION Spec
INVARIANTS ConnectedIsRegistered
