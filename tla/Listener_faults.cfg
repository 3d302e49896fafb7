\* the daemon exits or crashes at any moment; the owner calls anything
CONSTANTS
  d1 = d1
  d2 = d2
  d3 = d3
  NoDev = NoDev
  Dev = {d1, d2}
  Hci0Dev = {d1, d2}
  Use = {"stop", "disconnect", "destroy"}
  Faults = {"exit", "crash"}
  FdLimit = 5
  MaxCalls = 2
SPECIFICATION FairSpec
INVARIANTS SocketPointerSet ListenThreadInsideExport
PROPERTIES OwnerCallReturns
\* the process stops when an assertion fails or the Listener is destroyed
CHECK_DEADLOCK FALSE
