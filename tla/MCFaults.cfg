\* Crashes, failing calls, overlapping deliveries, stale reads; batches that fail in part.
CONSTANTS
  p1 = p1  p2 = p2  v1 = v1  v2 = v2  A = A  B = B  w1 = w1  w2 = w2
  m1 = m1  m2 = m2  m3 = m3  m4 = m4  m5 = m5  m6 = m6  m7 = m7  m8 = m8
  Options = {A, B}
  Backend = "dynamodb"
  Messages = {m1, m2}
  EventIds <- AnyId
  EventOf <- VoteThenEnd
  Proposals = {p1}
  Voters = {v1, v2}
  Workers = {w1, w2}
  BatchSize = 2
  MaxReceives = 3
  ReportsFailures = FALSE
  Created = {p1}
  VoterMaps = {v1}
  Faults = {"crash", "refuse", "lost_update", "overlap"}
SPECIFICATION Spec
SYMMETRY WorkerSymmetry
CHECK_DEADLOCK FALSE
INVARIANTS TypeOK NeverUndercounts VisibleMeansEnded FinalizedIsVisible OncePerReception
PROPERTIES OvercountsByFailuresOnly DropsAreReported
