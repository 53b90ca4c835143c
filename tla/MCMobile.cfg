\* Each part of the app by itself, with late, lost and failed answers.
CONSTANTS
  Stations = {"s1", "s2"}
  Fallback = {"s1"}
  Inputs = {"", "q"}
  Blank = {""}
  MaxMapRequests = 2
  MaxClock = 2
  NewUsers = {"u1"}
  Gateways = {"IDRAM", "APPLE_PAY"}
  Wirings = {TRUE, FALSE}
  MaxScreens = 3
  MaxFormRequests = 2
  Clients = {c1}
  Sessions = {s1, s2}
  MaxHandlers = 2
  MaxEvents = 3
  Users = {"u1", "u2"}
  Phones = {"p1"}
  Kinds = {"SESSION_STARTED"}
  Sends = {d1}
  MaxToken = 2
  MaxPushRequests = 2
SPECIFICATION Spec
INVARIANTS
  TypeOK
  ScreensAreCurrent
  
PROPERTIES
  WaitsEnd
