CONSTANTS
  h1 = h1  h2 = h2
  NONE = NONE
  Conns = {h1}
  Requests <- OneClient
  MaxAsk = 2
  MayLeave = {}
SPECIFICATION Spec
INVARIANT DiscIsAcknowledged
CHECK_DEADLOCK FALSE
