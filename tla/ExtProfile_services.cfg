\* two devices, three connections
CONSTANTS
  d1 = d1
  d2 = d2
  Dev = {d1, d2}
  MaxConn = 3
SPECIFICATION FairSpec
INVARIANTS TypeOK ConnectionsAwaitSomething ConnectingHasAttempt DisconnectingHasRequest NothingWithoutProfile
PROPERTIES TransitionsEnd
