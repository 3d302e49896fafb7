SPECIFICATION FairSpec
CONSTANTS
  Index = {"hci0", "hci1"}
  Commands <- MCCommands
  MaxReq = 3
  MaxNotify = 2
  MaxEvent = 2
  Uses <- MCUses
INVARIANTS TypeOK QueueMoves RequestsOwnedOnce TornDownWhole
PROPERTIES RequestsEnd
CHECK_DEADLOCK FALSE
