SPECIFICATION FairSpec
CONSTANTS
  main = main
  bdinfo = bdinfo
  test = test
  None = None
  Tasks = {main, bdinfo, test}
  Main = main
  Order <- MCOrder
  Lens <- MCLens
  BannerLen = 3
  BufSize = 2
INVARIANTS
  MutualExclusion
  NoStaleCompletion
PROPERTIES
  BufferStableUnderDma
  LogImplemented
  TransferEnds
  WaitersServed
