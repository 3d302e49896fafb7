\* disconnect(), stopListening and Release close the Socket while handlers run
CONSTANTS
  d1 = d1
  d2 = d2
  d3 = d3
  NoDev = NoDev
  Dev = {d1}
  Hci0Dev = {d1}
  Use = {"stop", "disconnect"}
  Faults = {"exit"}
  FdLimit = 8
  MaxCalls = 4
SPECIFICATION Spec
INVARIANTS QueuedDescriptorsOpen
PROPERTIES ClosesItsOwnOnly
\* the process stops when an assertion fails
CHECK_DEADLOCK FALSE
