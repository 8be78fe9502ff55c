\* Two operators with one wallet, crashes and lost calls, clocks that differ.
CONSTANTS
  r1 = r1  r2 = r2  a1 = a1  v2 = v2  p1 = p1  p2 = p2  A = A  B = B  C = C  s1 = s1
  ZERO = ZERO
  NONE = NONE
  Voters = {a1, v2}
  Grantable = {v2}
  Admins = {a1}
  ProposalIds = {p1, p2}
  Options = {A, B, C}
  OptionLists <- AnyOptionList
  Deadlines <- NoDeadline
  Salts = {s1}
  Electorates <- OneOrOther
  MaxU64 = 9
  MaxSlot = 9
  MaxTime = 7
  MaxEvents = 20
  Runs = {r1, r2}
  WalletOf <- OneWallet
  Lists <- OthersOnly
  OptionFlags = {A, C}
  LifecycleOptions <- OptionsAB
  Windows <- CommitThenReveal
  WaitBuffer = 1
  MaxLag = 1
  MaxLead = 0
  MaxCallTime = 0
  Faults = {"crash", "lost_request", "lost_response"}
  MaxInvocations = 2
  MaxStart = 3
SPECIFICATION FairSystemSpec
CHECK_DEADLOCK FALSE
INVARIANTS SystemTypeOK CompletedRunIsCounted WaitedLongEnough
PROPERTIES RerunSucceeds
