SPECIFICATION Spec
CONSTANTS
  c1 = c1  c2 = c2  c3 = c3  u1 = u1  u2 = u2  f1 = f1  f2 = f2  a = a  z = z
  Conns = {c1,c2,c3}
  Users = {u1,u2}
  FileNames = {f1}
  EmptyName = EmptyName
  Bytes = {a, z}
  Zero = z
  BlockSize = 2
  ShortMod = 4
  NONE = NONE
  Requests <- LoginRequests
  MaxReq = 1
  InitFiles <- NoFiles
  NameBytes <- OneName
  ListingSize = 2
  MayCrash = FALSE
  MayFailWrite = FALSE
INVARIANTS UniqueNames
CHECK_DEADLOCK FALSE
