SPECIFICATION FairSpec
CONSTANTS
  N = 3
  Weight <- Weight3
  NumItcNodes = 3
  MaxBlockNumDiff = 1
  MaxViewIDDiff = 2
  MaxView = 2
  MaxProposals = 1
  Scenarios <- Steady
PROPERTY Progress
