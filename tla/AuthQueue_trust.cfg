\* a device becomes trusted while its service is being authorized
CONSTANTS
  c1 = c1
  c2 = c2
  d1 = d1
  d2 = d2
  Client = {c1}
  Dev = {d1, d2}
  MaxAgent = 1
  MaxReq = 3
  Uses = {{"trust"}}
SPECIFICATION Spec
PROPERTIES LetInIfAsked
CHECK_DEADLOCK FALSE
