\* one connection whose RequestDisconnection is refused
CONSTANTS
  d1 = d1
  d2 = d2
  Dev = {d1, d2}
  MaxConn = 1
SPECIFICATION Spec
INVARIANTS ConnectedServiceHasConnection
