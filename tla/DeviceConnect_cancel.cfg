\* a Connect that waits for discovery, then Disconnect
CONSTANTS
  NSvc = 1
  MaxCall = 2
  Uses = {{}}
SPECIFICATION Spec
INVARIANT CancelledConnectAnswered
