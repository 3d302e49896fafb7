\* two services, three calls
CONSTANTS
  NSvc = 2
  MaxCall = 3
  Uses = {{}, {"disconnectProfile"}, {"profiles"}}
SPECIFICATION FairSpec
INVARIANTS TypeOK PendingIsSound CallsAnsweredOnce
PROPERTIES HeldCallsAnswered
