CONSTANTS
  h1 = h1  h2 = h2
  NONE = NONE
  Conns = {h1, h2}
  Requests <- TwoClients
  MaxAsk = 1
  MayLeave = {h1}
SPECIFICATION FairSpec
INVARIANTS IndInv NoAnswerStranded
PROPERTIES AnswersAreWritten RequestsAreHandled
CHECK_DEADLOCK FALSE
