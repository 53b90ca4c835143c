\* Each service by itself, two requests of it at a time.
CONSTANTS
  Requests = {r1, r2}
  Emails = {e1, e2}
  Numbers = {p1}
  MaxCode = 1
  MaxRefresh = 3
  Tokens = {"t1"}
  MaxMethods = 3
  MaxReading = 2
  Base = 1
  Writers = {"u1", "u2"}
  Stations = {"s1"}
  Addressed = {"s1"}
  Mailing = TRUE
  MaxRows = 2
  Vehicles = {"v1"}
  Makes = {"TESLA", "NIO", "NISSAN"}
  Models = {"LEAF", "ZOE", "SPARK EV", "ID.4"}
  Years = {2020, 2021}
  Reporters = {"u1"}
  MaxReports = 3
  MaxHour = 2
  Reviews = {0, 3}
  Sessions = {0, 10}
  Recent = 2
  Sites = {"k1", "k2"}
  Evses = {"e1", "e2"}
  Facts = {"f1", "f2"}
  AppUsers = {"u1"}
  Resources = {"me"}
  Lifetimes = {0, 1}
  MaxVersion = 1
  MaxClock = 2
SPECIFICATION Spec
SYMMETRY SlotSymmetry
INVARIANTS
  TypeOK
  AccountsAreSafe
  ChoicesAreKept
  BilledAsMeasured
  
  
  
  AnswersAreTrue

  
\* Deletion, bounded rows and bounded tokens stop some of the parts.
CHECK_DEADLOCK FALSE
