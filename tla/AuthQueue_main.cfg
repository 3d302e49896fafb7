\* two programs with agents, two devices
CONSTANTS
  c1 = c1
  c2 = c2
  d1 = d1
  d2 = d2
  Client = {c1, c2}
  Dev = {d1, d2}
  MaxAgent = 3
  MaxReq = 2
  Uses = {{}, {"cancel", "remove"}, {"trust"}, {"bond"}}
SPECIFICATION FairSpec
INVARIANTS TypeOK AgentsAccounted QueueAdvances
PROPERTIES AnswerIsForAsked RequestsAnswered
CHECK_DEADLOCK FALSE
