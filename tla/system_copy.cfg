CONSTANTS
  c1 = c1
  c2 = c2
  u1 = u1
  u2 = u2
  f1 = f1
  f2 = f2
  a = a
  z = z
  NONE = NONE
  EmptyName = EmptyName
  Conns = {c1, c2}
  Users = {u1, u2}
  FileNames = {f1}
  Bytes = {a, z}
  Zero = z
  BlockSize = 2
  ShortMod = 8
  MaxReq = 20
  MaxCmd <- CopyMaxCmd
  ListingSize = 3
  MayCrash = FALSE
  MayFailWrite = FALSE
  Requests <- SystemRequests
  InitFiles <- ShortFile
  NameBytes <- OneName
  Commands <- CopyCommands
  InitLocal <- CopyLocal
SPECIFICATION SystemSpec
INVARIANTS Conversation UploadsOK DownloadsOK
PROPERTY ImplementsFileCopy
CHECK_DEADLOCK FALSE
