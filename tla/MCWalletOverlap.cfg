\* Two transactions that overlap lose an update.
CONSTANTS
  Requests = {r1, r2}
  Operations = {"TOP_UP"}
  Amounts = {1, 2}
  MaxInt = 4
  MaxCharges = 2
  MaxRows = 2
SPECIFICATION Spec
INVARIANTS
  ChainUnbroken
