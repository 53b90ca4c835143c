\* Two operations of a wallet at a time, three requests of a session, or one call
\* of a provider; with every failure.
CONSTANTS
  Requests = {r1, r2}
  Operations = {"TOP_UP", "DEDUCTION", "REFUND"}
  Amounts = {1, 2}
  MaxInt = 3
  MaxCharges = 2
  MaxRows = 3
  Sessions = {s1}
  Costs = {0, 2}
  HoldAmount = 3
  MaxEntries = 3
  Starters = {q1, q2, q3}
SPECIFICATION MoneySpec
SYMMETRY SlotSymmetry
INVARIANTS
  TypeOK
  BalanceInRange
  HistoryExplainsBalance
  CreditsArePaid
  ChargesAccounted
  PartsTypeOK
  ActiveIsBacked
  MoneyIsTracked
  ReturnedWasTaken

  
\* The call of a provider ends.
CHECK_DEADLOCK FALSE
