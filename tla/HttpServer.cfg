SPECIFICATION FairSpec
CONSTANTS
  Clients = {c1, c2, c3}
  NoConnection = none
  MnPort = 1
  MxPort = 2
  MaxParallel = 1
  Backlog = 2
  Browser = browser
  LaunchPage = TRUE
INVARIANTS ChildrenCounted FirstUsablePort NoDescriptorLeak
PROPERTIES EventuallyTaken EventuallyBuried
