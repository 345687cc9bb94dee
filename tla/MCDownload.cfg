SPECIFICATION DownloadSpec
CONSTANTS
  h = h
  f1 = f1
  f2 = f2
 
INVARIANT RetryUsesFreshStream
 
PROPERTY BadBlockReplaced
INVARIANT AllDownloaded
PROPERTY StageFinishes
INVARIANT NumberFollowsChain
PROPERTY LeavesSyncing
