\* The tables and the event source mapping as deployed; nothing goes wrong.
CONSTANTS
  p1 = p1  p2 = p2  v1 = v1  v2 = v2  A = A  B = B  w1 = w1  w2 = w2
  m1 = m1  m2 = m2  m3 = m3  m4 = m4  m5 = m5  m6 = m6  m7 = m7  m8 = m8
  Options = {A, B}
  Backend = "dynamodb"
  Messages = {m1}
  EventIds <- AnyId
  EventOf <- OneVote
  Proposals = {p1}
  Voters = {v1, v2}
  Workers = {w1}
  BatchSize = 1
  MaxReceives = 2
  ReportsFailures = FALSE
  Created = {p1}
  VoterMaps = {}
  Faults = {}
SPECIFICATION Spec
CHECK_DEADLOCK FALSE
INVARIANTS DrainedTally
