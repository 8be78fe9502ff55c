\* Two transactions per window, redelivery while an invocation works, an aborted cycle.
CONSTANTS
  p1 = p1  v1 = v1  A = A  B = B  w1 = w1  k1 = k1
  ChainEvents <- RevealAndEnd
  Before <- OpenBallot
  MaxCopies = 1
  Pollers = {w1}
  Limit = 2
  Lookback = 1
  MaxGap = 1
  MaxLanded = 2
  IngestionFaults = {"abort"}
  MaxAborts = 1
  MaxSlot = 1
  MaxTxs = 2
  Options = {A, B}
  Backend = "dynamodb"
  Proposals = {p1}
  Voters = {v1}
  Workers = {k1}
  BatchSize = 1
  MaxReceives = 2
  ReportsFailures = FALSE
  Created = {p1}
  VoterMaps = {v1}
  AggregatorFaults = {"overlap"}
SPECIFICATION FairSpec
INVARIANTS ShownMeansFinal NothingLost VotesCountOncePerId
PROPERTIES ResultsAppear
