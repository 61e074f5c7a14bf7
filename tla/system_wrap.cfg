CONSTANTS
  c1 = c1
  c2 = c2
  u1 = u1
  u2 = u2
  f1 = f1
  f2 = f2
  a = a
  z = z
  NONE = NONE
  EmptyName = EmptyName
  Conns = {c1}
  Users = {u1, u2}
  FileNames = {f1, f2}
  Bytes = {a, z}
  Zero = z
  BlockSize = 2
  ShortMod = 4
  MaxReq = 20
  MaxCmd <- UploadMaxCmd
  ListingSize = 3
  MayCrash = FALSE
  MayFailWrite = FALSE
  Requests <- SystemRequests
  InitFiles <- NoFiles
  NameBytes <- OneName
  Commands <- UploadCommands
  InitLocal <- CopyLocal
SPECIFICATION SystemSpec
INVARIANT UploadsAreCopies
CHECK_DEADLOCK FALSE
