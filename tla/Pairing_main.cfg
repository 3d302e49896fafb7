\* one program with an agent, two devices, two calls, one PIN of a plugin
CONSTANTS
  c1 = c1
  Client = {c1}
  MaxAgent = 1
  NDev = 2
  MaxCall = 2
  MaxPin = 1
  Uses = {{"pins"}, {"busy"}, {"remove"}, {"remote"}, {"second"}}
SPECIFICATION FairSpec
INVARIANTS TypeOK CallbackHasData QuestionIsOut BondingAwaitsSomething PairAnsweredOnce
PROPERTIES PairingEnds
\* the daemon stops when a removal crashed it
CHECK_DEADLOCK FALSE
