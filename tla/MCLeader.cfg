SPECIFICATION LeaderSpec
CONSTANTS
  Keys <- MCKeys
  Account <- MCAccount
  IntelchainKeys = {5}
  Committees <- MCCommittees
  Weight <- MCWeight
  One = 100
  OwnKeys = {1, 2}
INVARIANT TallyMatchesBallots
INVARIANT QuorumVerifiable
INVARIANT AggregateExact
 
 
 
 
 
PROPERTY GoesOn
INVARIANT StopsWithRound
CHECK_DEADLOCK FALSE
