\* main.cpp, and an owner that stops listening and starts again; the daemon stays
CONSTANTS
  d1 = d1
  d2 = d2
  d3 = d3
  NoDev = NoDev
  Dev = {d1, d2}
  Hci0Dev = {d1, d2}
  Use = {"stop"}
  Faults = {}
  FdLimit = 6
  MaxCalls = 3
SPECIFICATION FairSpec
INVARIANTS TypeOK NoAssertionFails SocketHoldsLatestLink
PROPERTIES SocketIsSlot CallsAreTaken
