SPECIFICATION Spec
CONSTANTS
  c1 = c1  c2 = c2  c3 = c3  u1 = u1  u2 = u2  f1 = f1  f2 = f2  a = a  z = z
  Conns = {c1}
  Users = {u1}
  FileNames = {f1,f2}
  EmptyName = EmptyName
  Bytes = {a, z}
  Zero = z
  BlockSize = 2
  ShortMod = 4
  NONE = NONE
  Requests <- AllRequests
  MaxReq = 4
  InitFiles <- ThreeBlocks
  NameBytes <- OneName
  ListingSize = 2
  MayCrash = TRUE
  MayFailWrite = TRUE
INVARIANTS ErrorsAnswered
CHECK_DEADLOCK FALSE
