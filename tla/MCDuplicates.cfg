\* Copies of votes in the batches of two invocations; v2 has no map.
CONSTANTS
  p1 = p1  p2 = p2  v1 = v1  v2 = v2  A = A  B = B  w1 = w1  w2 = w2
  m1 = m1  m2 = m2  m3 = m3  m4 = m4  m5 = m5  m6 = m6  m7 = m7  m8 = m8
  Options = {A, B}
  Backend = "dynamodb"
  Messages = {m1, m2, m3, m4, m5, m6, m7, m8}
  EventIds <- AnyId
  EventOf <- VotesAndCopies
  Proposals = {p1, p2}
  Voters = {v1, v2}
  Workers = {w1, w2}
  BatchSize = 2
  MaxReceives = 2
  ReportsFailures = FALSE
  Created = {p1}
  VoterMaps = {v1}
  Faults = {}
SPECIFICATION Spec
SYMMETRY CopySymmetry
CHECK_DEADLOCK FALSE
INVARIANTS ExactTally
PROPERTIES ImplementsVoteCount
