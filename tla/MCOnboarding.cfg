\* The app as it is wired: the client of the onboarding is given no token.
CONSTANTS
  Users = {"u1"}
  Gateways = {"IDRAM"}
  Wirings = {FALSE}
  MaxScreens = 5
  MaxRequests = 1
SPECIFICATION Spec
INVARIANTS SignedInIsAuthorized
