CONSTANTS
  c1 = c1
  NONE = NONE
  EmptyName <- EmptyText
  Conns = {c1}
  Users <- OneUser
  FileNames <- OneFile
  Bytes = {0, 97}
  Zero = 0
  BlockSize = 2
  ShortMod = 3
  MaxReq = 20
  MaxCmd <- FiveCommands
  ListingSize = 4
  MayCrash = FALSE
  MayFailWrite = FALSE
  Requests <- AllRequests
  InitFiles <- NoFiles
  NameBytes <- ThreeBytes
  Commands <- AllCommands
  InitLocal <- ShortRest
  ErrMsg <- Message
  NamesAsBytes <- OneName
SPECIFICATION ThreadsFairSpec
INVARIANTS ThreadsTypeOK InStepOrLost
PROPERTIES TornOnlyByBroadcast NothingInvented ImplementsSystem CommandsAnswered
CHECK_DEADLOCK FALSE
