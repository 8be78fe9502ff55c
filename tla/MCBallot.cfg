\* Two voters, one ballot, every commitment they can publish.
CONSTANTS
  v1 = v1  v2 = v2  a1 = a1  a2 = a2  p1 = p1  p2 = p2  A = A  B = B  s1 = s1
  ZERO = ZERO
  NONE = NONE
  Voters = {v1, v2}
  Grantable = {}
  Admins = {a1}
  ProposalIds = {p1}
  Options = {A, B}
  OptionLists <- MixedOptions
  Deadlines <- MixedDeadlines
  Salts = {s1}
  Electorates <- AllVoters
  MaxU64 = 1
  MaxSlot = 4
  MaxTime = 3
  MaxEvents = 7
SPECIFICATION Spec
CHECK_DEADLOCK FALSE
INVARIANTS TypeOK TallyMatchesReveals ReplayedTally RevealsOpenEarlierCommits
  PhasesFollowClock NonzeroCommitsAreFinal
PROPERTIES EndedProposalsImmutable
