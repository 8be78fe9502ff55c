\* A voter who is on no list, granted and revoked before the ballot.
CONSTANTS
  v1 = v1  v2 = v2  a1 = a1  a2 = a2  p1 = p1  p2 = p2  A = A  B = B  s1 = s1
  ZERO = ZERO
  NONE = NONE
  Voters = {v1, v2}
  Grantable = {v2}
  Admins = {a1, a2}
  ProposalIds = {p1, p2}
  Options = {A}
  OptionLists <- OneOptionTwice
  Deadlines <- Short
  Salts = {s1}
  Electorates <- Nobody
  MaxU64 = 2
  MaxSlot = 3
  MaxTime = 2
  MaxEvents = 4
SPECIFICATION Spec
CHECK_DEADLOCK FALSE
INVARIANTS RevokedCannotCommit
