SPECIFICATION Spec
CONSTANTS
  N = 3
  Weight <- Weight3
  NumItcNodes = 3
  MaxBlockNumDiff = 1
  MaxViewIDDiff = 2
  MaxView = 2
  MaxProposals = 2
  Scenarios <- Rounds
INVARIANT CommitSigQuorum
PROPERTY CommitSigKept
INVARIANT NoSilentNode
INVARIANT RoundMatchesChain
PROPERTY ImplementsAgreement
