SPECIFICATION FairSpec
CONSTANTS
  Groups <- TwoGroups
  Clients <- TwoClients
  Legacy <- OldClient
  States <- OneState
  MaxLead = 2
  MaxLag = 1
  MaxTime = 3
  MaxUpdates = 2
  MaxMoves = 2
INVARIANTS TypeOK ViewsAgree LeadKept
PROPERTIES ViewsSettle
CHECK_DEADLOCK FALSE
