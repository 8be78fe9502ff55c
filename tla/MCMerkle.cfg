\* Lists of up to five voters: trees of every shape up to height three.
CONSTANTS
  v1 = v1  v2 = v2  v3 = v3  v4 = v4  v5 = v5
  BLANK = BLANK  INVALID = INVALID
  Voters = {v1, v2, v3, v4, v5}
  Collations <- OneOrder
  Files <- AllFiles
  Forged <- OtherNode
  Indices = {0, 2}
  MAX_MERKLE_PROOF_LEN = 3
SPECIFICATION Spec
CHECK_DEADLOCK FALSE
INVARIANTS ProofsNameMembers MembersCanProve RootNamesVoters
