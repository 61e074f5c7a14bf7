SPECIFICATION FairSpec
CONSTANTS
  c1 = c1  c2 = c2  c3 = c3  u1 = u1  u2 = u2  f1 = f1  f2 = f2  a = a  z = z
  Conns = {c1,c2}
  Users = {u1,u2}
  FileNames = {f1}
  EmptyName = EmptyName
  Bytes = {a, z}
  Zero = z
  BlockSize = 2
  ShortMod = 4
  NONE = NONE
  Requests <- FileRequests
  MaxReq = 3
  InitFiles <- OneByte
  NameBytes <- OneName
  ListingSize = 2
  MayCrash = FALSE
  MayFailWrite = FALSE
INVARIANTS NoCrossTalk EntryHasOwner OneReply BcastNeedsLogin IndInv
PROPERTIES HandlerReturns DiscCloses IdleClientsAreTold
CHECK_DEADLOCK FALSE
