\* peers that send whole frames on one connection, and peers that send in
\* pieces, hang up and connect anew
CONSTANTS
  MaxLink = 2
  MaxFrame = 2
  Size = 2
  Manners = {"pieces", "hangup", "reconnect"}
SPECIFICATION FairSpec
INVARIANTS TypeOK PrintedBodyMatchesHeader RoundStartsAtHeader
PROPERTIES FramesAreRead
\* the process stops when the assertion of readData fails
CHECK_DEADLOCK FALSE
