\* Two calls at a time on the payment of one session, with every failure.
CONSTANTS
  Sessions = {s1}
  Requests = {r1, r2}
  Amounts = {0, 1, 2}
  HoldAmount = 3
  MaxEntries = 4
SPECIFICATION Spec
SYMMETRY RequestSymmetry
INVARIANTS
  TypeOK
  RowsAreBacked
  RetriesTakeOnce
  MoneyIsSettled
