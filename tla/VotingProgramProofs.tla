-------------------------- MODULE VotingProgramProofs --------------------------
(* Proofs about VotingProgram for every value of its constants. *)
EXTENDS VotingProgram, FiniteSetTheorems, SequenceTheorems, TLAPS

\* What CreateProposal stores has the type of a proposal account.
LEMMA CreatedProposalType ==
  ASSUME TypeOK, NEW options \in OptionLists, NEW c \in Nat, NEW r \in Nat
  PROVE  [options |-> options, commit_ends_at |-> c, reveal_ends_at |-> r,
          phase |-> "Commit",
          electorate_merkle_root |-> registry.merkle_root,
          electorate_registry_version |-> registry.version,
          electorate_snapshot_slot |-> SnapshotSlot,
          option_counts |-> [i \in 1..Len(options) |-> 0]] \in Proposal
  <1>1. options \in Seq(Options) /\ Len(options) \in Nat
    BY ConstantsAssumption
  <1>2. [i \in 1..Len(options) |-> 0] \in Seq(0..MaxU64)
    BY <1>1, ConstantsAssumption
  <1> QED
    BY <1>1, <1>2 DEF TypeOK, VoterRegistry, Proposal, Phases, SnapshotSlot

\* Counting a vote that fits keeps a tally a sequence of u64.
LEMMA CountVoteType ==
  ASSUME NEW counts \in Seq(0..MaxU64), NEW i, CountFits(counts, i)
  PROVE  CountVote(counts, i) \in Seq(0..MaxU64)
  <1>1. CASE i \in DOMAIN counts
    <2>1. counts[i] \in 0..MaxU64 /\ MaxU64 \in Nat
      BY <1>1, ConstantsAssumption
    <2>2. counts[i] + 1 \in 0..MaxU64
      BY <2>1 DEF CountFits
    <2> QED
      BY <1>1, <2>2, ExceptSeq DEF CountVote
  <1>2. CASE i \notin DOMAIN counts
    <2>1. CountVote(counts, i) = counts
      BY <1>2 DEF CountVote
    <2> QED
      BY <2>1
  <1> QED
    BY <1>1, <1>2


\* An emitted event extends the log.
LEMMA EmitType ==
  ASSUME log \in Seq(Events), NEW e \in Events, Emit(e)
  PROVE  log' \in Seq(Events)
  BY DEF Emit

\* The registry instructions preserve the types.
LEMMA RegistryStepType ==
  ASSUME TypeOK, RegistryStep
  PROVE  TypeOK'
  <1> USE ConstantsAssumption
  <1>1. ASSUME NEW a \in Admins, NEW root \in Electorates,
               InitializeRegistry(a, root)
        PROVE  TypeOK'
    BY <1>1 DEF InitializeRegistry, TypeOK, VoterRegistry
  <1>2. ASSUME NEW a \in Admins, NEW root \in Electorates,
               UpdateMerkleRoot(a, root)
        PROVE  TypeOK'
    <2>1. NextVersion(registry.version) \in 0..MaxU64 /\ root \in SUBSET Voters
      BY <1>2 DEF UpdateMerkleRoot, NextVersion, TypeOK, VoterRegistry
    <2>2. registry' \in VoterRegistry
      BY <1>2, <2>1 DEF UpdateMerkleRoot, TypeOK, VoterRegistry
    <2>3. RootUpdated(root, NextVersion(registry.version)) \in Events
      BY <2>1 DEF RootUpdated, Events
    <2>4. log' \in Seq(Events)
      BY <1>2, <2>3, EmitType DEF UpdateMerkleRoot, TypeOK
    <2> QED
      BY <1>2, <2>2, <2>4 DEF UpdateMerkleRoot, TypeOK
  <1>3. ASSUME NEW a \in Admins, NEW b \in Admins, TransferAuthority(a, b)
        PROVE  TypeOK'
    BY <1>3 DEF TransferAuthority, TypeOK, VoterRegistry
  <1>4. ASSUME NEW a \in Admins, NEW v \in Grantable,
               GrantEligibility(a, v) \/ RevokeEligibility(a, v)
        PROVE  TypeOK'
    <2>1. v \in Voters
      OBVIOUS
    <2>2. \A type \in {"VoterEligibilityGranted", "VoterEligibilityRevoked"} :
            EligibilityChanged(type, v) \in Events
      BY <2>1 DEF EligibilityChanged, Events
    <2>3. log' \in Seq(Events)
      BY <1>4, <2>2, EmitType DEF GrantEligibility, RevokeEligibility, TypeOK
    <2> QED
      BY <1>4, <2>1, <2>3 DEF GrantEligibility, RevokeEligibility, TypeOK
  <1> QED
    BY <1>1, <1>2, <1>3, <1>4 DEF RegistryStep

\* The proposal instructions preserve the types.
LEMMA ProposalStepType ==
  ASSUME TypeOK, ProposalStep
  PROVE  TypeOK'
  <1> USE ConstantsAssumption
  <1>1. ASSUME NEW p \in ProposalIds, NEW options \in OptionLists,
               NEW ends \in Deadlines,
               CreateProposal(p, options, ends[1], ends[2])
        PROVE  TypeOK'
    <2>1. ends[1] \in Nat /\ ends[2] \in Nat
      OBVIOUS
    <2>2. proposals' \in [ProposalIds -> Proposal]
      BY <1>1, <2>1, CreatedProposalType DEF CreateProposal, TypeOK
    <2>3. ProposalCreated(p, registry.merkle_root, registry.version) \in Events
      BY DEF ProposalCreated, Events, TypeOK, VoterRegistry
    <2>4. log' \in Seq(Events)
      BY <1>1, <2>3, EmitType DEF CreateProposal, TypeOK
    <2> QED
      BY <1>1, <2>2, <2>4 DEF CreateProposal, TypeOK
  <1>2. ASSUME NEW p \in ProposalIds, NEW type, NEW phase \in Phases,
               type \in {"ProposalClosed", "ProposalFinalized"},
               proposals' = [proposals EXCEPT ![p].phase = phase],
               active_proposal' = ClearActiveIfMatch(p),
               Emit(ProposalEnded(type, p)),
               UNCHANGED <<registry, commitments, granted, revoked, slot, now>>
        PROVE  TypeOK'
    <2>1. ProposalEnded(type, p) \in Events
      BY <1>2 DEF ProposalEnded, Events
    <2>2. log' \in Seq(Events)
      BY <1>2, <2>1, EmitType DEF TypeOK
    <2>3. [proposals[p] EXCEPT !.phase = phase] \in Proposal
      <3>1. proposals[p] \in Proposal
        BY DEF TypeOK
      <3> QED
        BY <3>1 DEF Proposal
    <2>4. proposals' \in [ProposalIds -> Proposal]
      BY <1>2, <2>3 DEF TypeOK
    <2> QED
      BY <1>2, <2>2, <2>4 DEF TypeOK, ClearActiveIfMatch
  <1>3. ASSUME NEW p \in ProposalIds, NEW a \in Admins, CloseProposal(a, p)
        PROVE  TypeOK'
    BY <1>3, <1>2 DEF CloseProposal, Phases
  <1>4. ASSUME NEW p \in ProposalIds, FinalizeProposal(p)
        PROVE  TypeOK'
    BY <1>4, <1>2 DEF FinalizeProposal, Phases
  <1> QED
    BY <1>1, <1>3, <1>4 DEF ProposalStep

\* The vote instructions preserve the types.
LEMMA VoteStepType ==
  ASSUME TypeOK, VoteStep
  PROVE  TypeOK'
  <1>1. ASSUME NEW p \in ProposalIds, NEW v \in Voters, NEW c \in Commitments,
               NEW proof \in BOOLEAN, NEW accts \in OptionalAccounts(v),
               CommitVote(p, v, c, proof, accts)
        PROVE  TypeOK'
    <2>1. commitments' \in [ProposalIds -> [Voters -> CommitmentAccount]]
      <3>1. [commitment |-> c, revealed |-> FALSE] \in CommitmentAccount
        BY DEF CommitmentAccount
      <3> QED
        BY <1>1, <3>1 DEF CommitVote, TypeOK
    <2>2. VoteCommitted(p, v, c) \in Events
      BY DEF VoteCommitted, Events
    <2>3. log' \in Seq(Events)
      BY <1>1, <2>2, EmitType DEF CommitVote, TypeOK
    <2> QED
      BY <1>1, <2>1, <2>3 DEF CommitVote, TypeOK
  <1>2. ASSUME NEW p \in ProposalIds, NEW v \in Voters, NEW o \in Options,
               NEW s \in Salts, RevealVote(p, v, o, s)
        PROVE  TypeOK'
    <2>1. commitments' \in [ProposalIds -> [Voters -> CommitmentAccount]]
      <3>1. [commitments[p][v] EXCEPT !.revealed = TRUE] \in CommitmentAccount
        <4>1. commitments[p][v] \in CommitmentAccount
          BY DEF TypeOK
        <4> QED
          BY <4>1 DEF CommitmentAccount
      <3>2. commitments' = [commitments EXCEPT ![p][v] =
                             [commitments[p][v] EXCEPT !.revealed = TRUE]]
        BY <1>2 DEF RevealVote, TypeOK
      <3> QED
        BY <3>1, <3>2 DEF TypeOK
    <2>2. VoteRevealed(p, v, o) \in Events
      BY DEF VoteRevealed, Events
    <2>3. log' \in Seq(Events)
      BY <1>2, <2>2, EmitType DEF RevealVote, TypeOK
    <2>4. proposals' \in [ProposalIds -> Proposal]
      <3>1. PICK i \in DOMAIN proposals[p].options :
              /\ CountFits(proposals[p].option_counts, i)
              /\ proposals' = [proposals EXCEPT
                   ![p].phase = "Reveal",
                   ![p].option_counts = CountVote(proposals[p].option_counts, i)]
        BY <1>2 DEF RevealVote
      <3>2. proposals[p] \in Proposal
        BY DEF TypeOK
      <3>3. CountVote(proposals[p].option_counts, i) \in Seq(0..MaxU64)
        BY <3>1, <3>2, CountVoteType DEF Proposal
      <3> QED
        BY <3>1, <3>2, <3>3 DEF TypeOK, Proposal, Phases
    <2> QED
      BY <1>2, <2>1, <2>3, <2>4 DEF RevealVote, TypeOK
  <1> QED
    BY <1>1, <1>2 DEF VoteStep

\* Every step preserves the types.
LEMMA TypeStep ==
  ASSUME TypeOK, [Next]_vars
  PROVE  TypeOK'
  <1>1. CASE Tick
    BY <1>1 DEF Tick, TypeOK
  <1>2. CASE UNCHANGED vars
    BY <1>2 DEF vars, TypeOK
  <1> QED
    BY <1>1, <1>2, RegistryStepType, ProposalStepType, VoteStepType DEF Next

\* The accounts begin with values of their types.
LEMMA TypeInit ==
  ASSUME Init
  PROVE  TypeOK
  <1> USE ConstantsAssumption DEF Init
  <1>1. NoProposal \in Proposal
    BY DEF NoProposal, Proposal, Phases
  <1>2. NoCommitment \in CommitmentAccount
    BY DEF NoCommitment, CommitmentAccount, Commitments
  <1>3. NoRegistry \in VoterRegistry
    BY DEF NoRegistry, VoterRegistry
  <1> QED
    BY <1>1, <1>2, <1>3 DEF TypeOK

\* Every account of every reachable state holds a value of its type; the
\* checked additions keep versions and tallies within u64.
THEOREM TypeCorrect == Spec => []TypeOK
  <1>1. Init => TypeOK
    BY TypeInit
  <1>2. TypeOK /\ [Next]_vars => TypeOK'
    BY TypeStep
  <1> QED
    BY <1>1, <1>2, PTL DEF Spec

--------------------------------------------------------------------------------
\* The registry instructions and votes leave the active proposal consistent;
\* create_proposal sets it only when it is None, and close and finalize clear
\* it, because the invariant says that it names the proposal they end.
LEMMA ActiveStep ==
  ASSUME TypeOK, ActiveInv, [Next]_vars
  PROVE  ActiveInv'
  <1> USE DEF ActiveInv, ActiveProposalConsistent, RegistryExists, TypeOK, IsActive
  <1>1. ASSUME NEW a \in Admins, NEW root \in Electorates,
               InitializeRegistry(a, root)
        PROVE  ActiveInv'
    BY <1>1, ConstantsAssumption DEF InitializeRegistry
  <1>2. ASSUME NEW a \in Admins, NEW root \in Electorates,
               UpdateMerkleRoot(a, root)
        PROVE  ActiveInv'
    BY <1>2 DEF UpdateMerkleRoot, NextVersion, IsAuthority, VoterRegistry
  <1>3. ASSUME NEW a \in Admins, NEW b \in Admins, TransferAuthority(a, b)
        PROVE  ActiveInv'
    BY <1>3 DEF TransferAuthority, VoterRegistry
  <1>4. ASSUME NEW a \in Admins, NEW v \in Grantable,
               GrantEligibility(a, v) \/ RevokeEligibility(a, v)
        PROVE  ActiveInv'
    BY <1>4 DEF GrantEligibility, RevokeEligibility
  <1>5. ASSUME NEW p \in ProposalIds, NEW options \in OptionLists,
               NEW ends \in Deadlines,
               CreateProposal(p, options, ends[1], ends[2])
        PROVE  ActiveInv'
    <2>1. \A q \in ProposalIds :
            proposals'[q].phase = IF q = p THEN "Commit" ELSE proposals[q].phase
      BY <1>5 DEF CreateProposal
    <2> QED
      BY <1>5, <2>1, ConstantsAssumption DEF CreateProposal, NoActiveProposal
  <1>6. ASSUME NEW p \in ProposalIds, NEW phase \in {"Closed", "Finalized"},
               IsActive(proposals[p].phase),
               proposals' = [proposals EXCEPT ![p].phase = phase],
               active_proposal' = ClearActiveIfMatch(p),
               UNCHANGED registry
        PROVE  ActiveInv'
    <2>1. \A q \in ProposalIds :
            proposals'[q].phase = IF q = p THEN phase ELSE proposals[q].phase
      BY <1>6 DEF Proposal
    <2>2. active_proposal' = NONE
      BY <1>6 DEF ClearActiveIfMatch
    <2> QED
      BY <1>6, <2>1, <2>2, ConstantsAssumption
  <1>7. ASSUME NEW p \in ProposalIds, NEW a \in Admins, CloseProposal(a, p)
        PROVE  ActiveInv'
    BY <1>7, <1>6 DEF CloseProposal
  <1>8. ASSUME NEW p \in ProposalIds, FinalizeProposal(p)
        PROVE  ActiveInv'
    BY <1>8, <1>6 DEF FinalizeProposal
  <1>9. ASSUME NEW p \in ProposalIds, NEW v \in Voters, NEW c \in Commitments,
               NEW proof \in BOOLEAN, NEW accts \in OptionalAccounts(v),
               CommitVote(p, v, c, proof, accts)
        PROVE  ActiveInv'
    BY <1>9 DEF CommitVote
  <1>10. ASSUME NEW p \in ProposalIds, NEW v \in Voters, NEW o \in Options,
                NEW s \in Salts, RevealVote(p, v, o, s)
         PROVE  ActiveInv'
    <2>1. \A q \in ProposalIds :
            proposals'[q].phase = IF q = p THEN "Reveal" ELSE proposals[q].phase
      BY <1>10 DEF RevealVote, Proposal
    <2> QED
      BY <1>10, <2>1 DEF RevealVote, RevealOpen
  <1>11. CASE Tick \/ UNCHANGED vars
    BY <1>11 DEF Tick, vars
  <1> QED
    BY <1>1, <1>2, <1>3, <1>4, <1>5, <1>7, <1>8, <1>9, <1>10, <1>11
       DEF Next, RegistryStep, ProposalStep, VoteStep

\* At most one proposal takes votes, and config.active_proposal names it.
THEOREM ActiveProposalCorrect == Spec => []ActiveProposalConsistent
  <1>1. Init => ActiveInv
    BY ConstantsAssumption
       DEF Init, ActiveInv, ActiveProposalConsistent, NoProposal, IsActive
  <1>2. TypeOK /\ ActiveInv /\ [Next]_vars => ActiveInv'
    BY ActiveStep
  <1>3. ActiveInv => ActiveProposalConsistent
    BY DEF ActiveInv
  <1> QED
    BY <1>1, <1>2, <1>3, TypeCorrect, PTL DEF Spec

--------------------------------------------------------------------------------
\* option_index returns one position: the first that holds the option.
LEMMA OptionIndexUnique ==
  ASSUME NEW options \in Seq(Options), NEW o, NEW i, NEW j,
         IsOptionIndex(options, o, i), IsOptionIndex(options, o, j)
  PROVE  i = j
  <1>1. i \in 1..Len(options) /\ j \in 1..Len(options) /\ Len(options) \in Nat
    BY DEF IsOptionIndex
  <1>2. ~(i < j) /\ ~(j < i)
    BY <1>1 DEF IsOptionIndex
  <1> QED
    BY <1>1, <1>2

\* The voters counted at a position are finitely many.
LEMMA CountedAtFinite ==
  ASSUME NEW p, NEW i
  PROVE  IsFiniteSet(CountedAt(p, i))
  BY ConstantsAssumption, FS_Subset DEF CountedAt

\* A step that keeps every option list, tally and revealed flag, and every
\* opened commitment, keeps the tally correct.
LEMMA TallyUndisturbed ==
  ASSUME TypeOK, TallyInv,
         \A p \in ProposalIds :
           /\ proposals'[p].options = proposals[p].options
           /\ proposals'[p].option_counts = proposals[p].option_counts
           /\ proposals'[p].phase = "Unallocated" => proposals[p].phase = "Unallocated",
         \A p \in ProposalIds, v \in Voters :
           \/ commitments'[p][v] = commitments[p][v]
           \/ ~commitments[p][v].revealed /\ ~commitments'[p][v].revealed
  PROVE  TallyInv'
  <1>1. ASSUME NEW p \in ProposalIds, NEW i
        PROVE  CountedAt(p, i)' = CountedAt(p, i)
    BY DEF CountedAt
  <1>2. TallyMatchesReveals'
    BY <1>1 DEF TallyInv, TallyMatchesReveals
  <1> QED
    BY <1>2 DEF TallyInv

\* create_proposal starts an empty tally over untouched commitments.
LEMMA TallyCreate ==
  ASSUME TypeOK, TallyInv, NEW p \in ProposalIds, NEW options \in OptionLists,
         NEW c, NEW r, CreateProposal(p, options, c, r)
  PROVE  TallyInv'
  <1>1. commitments' = commitments
    BY DEF CreateProposal
  <1>2. \A q \in ProposalIds \ {p} : proposals'[q] = proposals[q]
    BY DEF CreateProposal, TypeOK
  <1>3. /\ proposals'[p].phase = "Commit"
        /\ proposals'[p].options = options
        /\ proposals'[p].option_counts = [i \in 1..Len(options) |-> 0]
    BY DEF CreateProposal, TypeOK
  <1>4. \A v \in Voters : ~commitments[p][v].revealed
    BY DEF TallyInv, CreateProposal
  <1>5. ASSUME NEW i \in DOMAIN proposals'[p].option_counts
        PROVE  proposals'[p].option_counts[i] = Cardinality(CountedAt(p, i)')
    <2>1. CountedAt(p, i)' = {}
      BY <1>1, <1>4 DEF CountedAt
    <2> QED
      BY <1>3, <1>5, <2>1, FS_EmptySet
  <1>6. ASSUME NEW q \in ProposalIds \ {p}, NEW i \in DOMAIN proposals'[q].option_counts
        PROVE  proposals'[q].option_counts[i] = Cardinality(CountedAt(q, i)')
    <2>1. CountedAt(q, i)' = CountedAt(q, i)
      BY <1>1, <1>2 DEF CountedAt
    <2> QED
      BY <1>2, <1>6, <2>1 DEF TallyInv, TallyMatchesReveals
  <1>7. TallyMatchesReveals'
    BY <1>5, <1>6 DEF TallyMatchesReveals
  <1>8. DOMAIN proposals'[p].option_counts = DOMAIN proposals'[p].options
    BY <1>3, ConstantsAssumption
  <1> QED
    BY <1>1, <1>2, <1>3, <1>7, <1>8 DEF TallyInv

\* commit_vote writes only accounts that hold no opened commitment.
LEMMA TallyCommit ==
  ASSUME TypeOK, TallyInv, NEW p \in ProposalIds, NEW v \in Voters,
         NEW c, NEW proof, NEW accts, CommitVote(p, v, c, proof, accts)
  PROVE  TallyInv'
  <1>1. ~commitments[p][v].revealed
    BY DEF TallyInv, CommitVote, AlreadyCommitted
  <1>2. /\ ~commitments'[p][v].revealed
        /\ \A q \in ProposalIds, w \in Voters :
             q # p \/ w # v => commitments'[q][w] = commitments[q][w]
    BY DEF CommitVote, TypeOK
  <1>3. proposals' = proposals
    BY DEF CommitVote
  <1> QED
    BY <1>1, <1>2, <1>3, TallyUndisturbed

\* reveal_vote adds the voter to the counted voters of one position and one to
\* the counter of that position.
LEMMA TallyReveal ==
  ASSUME TypeOK, TallyInv, NEW p \in ProposalIds, NEW v \in Voters,
         NEW o \in Options, NEW s \in Salts, RevealVote(p, v, o, s)
  PROVE  TallyInv'
  <1>1. PICK i \in DOMAIN proposals[p].options :
          /\ IsOptionIndex(proposals[p].options, o, i)
          /\ proposals' = [proposals EXCEPT
               ![p].phase = "Reveal",
               ![p].option_counts = CountVote(proposals[p].option_counts, i)]
    BY DEF RevealVote
  <1>2. /\ commitments[p][v].commitment = VoteCommitment(p, s, v, o)
        /\ ~commitments[p][v].revealed
    BY DEF RevealVote, OpensCommitment, AlreadyRevealed
  <1>3. /\ commitments'[p][v].commitment = commitments[p][v].commitment
        /\ commitments'[p][v].revealed
        /\ \A q \in ProposalIds, w \in Voters :
             q # p \/ w # v => commitments'[q][w] = commitments[q][w]
    BY DEF RevealVote, TypeOK, CommitmentAccount
  <1>4. /\ \A q \in ProposalIds \ {p} : proposals'[q] = proposals[q]
        /\ proposals'[p].phase = "Reveal"
        /\ proposals'[p].options = proposals[p].options
        /\ proposals'[p].option_counts = CountVote(proposals[p].option_counts, i)
    BY <1>1 DEF TypeOK, Proposal
  <1>5. commitments[p][v].commitment.option = o
    BY <1>2 DEF VoteCommitment
  <1>6. ASSUME NEW j \in DOMAIN proposals[p].option_counts
        PROVE  CountVote(proposals[p].option_counts, i)[j]
                 = Cardinality(CountedAt(p, j)')
    <2>1. CASE j = i
      <3>1. CountedAt(p, j)' = CountedAt(p, j) \cup {v}
        BY <1>1, <1>3, <1>4, <1>5, <2>1 DEF CountedAt
      <3>2. v \notin CountedAt(p, j)
        BY <1>2 DEF CountedAt
      <3>3. Cardinality(CountedAt(p, j)') = Cardinality(CountedAt(p, j)) + 1
        BY <3>1, <3>2, CountedAtFinite, FS_AddElement
      <3> QED
        BY <2>1, <3>3 DEF CountVote, TallyInv, TallyMatchesReveals
    <2>2. CASE j # i
      <3>1. ~IsOptionIndex(proposals[p].options, o, j)
        <4>1. proposals[p].options \in Seq(Options)
          BY DEF TypeOK, Proposal
        <4> QED
          BY <1>1, <2>2, <4>1, OptionIndexUnique
      <3>2. CountedAt(p, j)' = CountedAt(p, j)
        BY <1>2, <1>3, <1>4, <1>5, <3>1 DEF CountedAt
      <3> QED
        BY <2>2, <3>2 DEF CountVote, TallyInv, TallyMatchesReveals
    <2> QED
      BY <2>1, <2>2
  <1>7. ASSUME NEW q \in ProposalIds \ {p}, NEW j \in DOMAIN proposals[q].option_counts
        PROVE  proposals'[q].option_counts[j] = Cardinality(CountedAt(q, j)')
    <2>1. CountedAt(q, j)' = CountedAt(q, j)
      BY <1>3, <1>4 DEF CountedAt
    <2> QED
      BY <1>4, <2>1 DEF TallyInv, TallyMatchesReveals
  <1>8. DOMAIN proposals'[p].option_counts = DOMAIN proposals[p].option_counts
    BY <1>4 DEF CountVote
  <1>9. TallyMatchesReveals'
    BY <1>4, <1>6, <1>7, <1>8 DEF TallyMatchesReveals
  <1>10. VoteCommitment(p, s, v, o) # ZERO
    BY ConstantsAssumption DEF VoteCommitment, Hashes
  <1> QED
    BY <1>2, <1>3, <1>4, <1>8, <1>9, <1>10 DEF TallyInv

\* Every step keeps the tally equal to the number of opened commitments.
LEMMA TallyStep ==
  ASSUME TypeOK, TallyInv, [Next]_vars
  PROVE  TallyInv'
  <1>1. CASE UNCHANGED <<proposals, commitments>>
    BY <1>1, TallyUndisturbed
  <1>2. CASE RegistryStep \/ Tick \/ UNCHANGED vars
    BY <1>1, <1>2 DEF RegistryStep, InitializeRegistry, UpdateMerkleRoot,
       TransferAuthority, GrantEligibility, RevokeEligibility, Tick, vars
  <1>3. ASSUME NEW p \in ProposalIds, NEW phase \in {"Closed", "Finalized"},
               proposals' = [proposals EXCEPT ![p].phase = phase],
               UNCHANGED commitments
        PROVE  TallyInv'
    <2>1. \A q \in ProposalIds :
            /\ proposals'[q].options = proposals[q].options
            /\ proposals'[q].option_counts = proposals[q].option_counts
            /\ proposals'[q].phase = "Unallocated" => proposals[q].phase = "Unallocated"
      BY <1>3 DEF TypeOK, Proposal
    <2> QED
      BY <1>3, <2>1, TallyUndisturbed
  <1>4. ASSUME NEW p \in ProposalIds,
               (\E a \in Admins : CloseProposal(a, p)) \/ FinalizeProposal(p)
        PROVE  TallyInv'
    BY <1>3, <1>4 DEF CloseProposal, FinalizeProposal
  <1>5. CASE ProposalStep
    BY <1>4, <1>5, TallyCreate DEF ProposalStep
  <1>6. CASE VoteStep
    BY <1>6, TallyCommit, TallyReveal DEF VoteStep
  <1> QED
    BY <1>2, <1>5, <1>6 DEF Next

\* So the tally, with what keeps it correct, is right in every reachable state.
LEMMA TallyInvariant == Spec => []TallyInv
  <1>1. Init => TallyInv
    BY DEF Init, TallyInv, TallyMatchesReveals, NoProposal, NoCommitment
  <1>2. TypeOK /\ TallyInv /\ [Next]_vars => TallyInv'
    BY TallyStep
  <1> QED
    BY <1>1, <1>2, TypeCorrect, PTL DEF Spec

\* Whatever the interleaving of instructions, the stored tally of a proposal is
\* the number of its voters whose opened commitment names the option.
THEOREM TallyCorrect == Spec => []TallyMatchesReveals
  <1>1. TallyInv => TallyMatchesReveals
    BY DEF TallyInv
  <1> QED
    BY <1>1, TallyInvariant, PTL

\* A voter who is counted at a position makes its tally positive.
LEMMA CountedIsInTally ==
  ASSUME TallyInv, NEW p \in ProposalIds, NEW i \in DOMAIN proposals[p].options,
         NEW v \in CountedAt(p, i)
  PROVE  proposals[p].option_counts[i] > 0
  <1>1. Cardinality(CountedAt(p, i)) \in Nat \ {0}
    BY CountedAtFinite, FS_EmptySet, FS_CardinalityType
  <1> QED
    BY <1>1 DEF TallyInv, TallyMatchesReveals

--------------------------------------------------------------------------------
\* A step touches the account and the commitments of a proposal only if its
\* phase still takes votes, or if it creates the proposal.
LEMMA EndedStep ==
  ASSUME TypeOK, [Next]_vars, NEW p \in ProposalIds,
         proposals[p].phase \in {"Finalized", "Closed"}
  PROVE  UNCHANGED <<proposals[p], commitments[p]>>
  <1> USE DEF TypeOK, IsActive
  <1>1. CASE RegistryStep \/ Tick \/ UNCHANGED vars
    BY <1>1 DEF RegistryStep, InitializeRegistry, UpdateMerkleRoot,
       TransferAuthority, GrantEligibility, RevokeEligibility, Tick, vars
  <1>2. ASSUME NEW q \in ProposalIds, NEW options \in OptionLists,
               NEW ends \in Deadlines,
               CreateProposal(q, options, ends[1], ends[2])
        PROVE  UNCHANGED <<proposals[p], commitments[p]>>
    BY <1>2 DEF CreateProposal
  <1>3. ASSUME NEW q \in ProposalIds,
               (\E a \in Admins : CloseProposal(a, q)) \/ FinalizeProposal(q)
        PROVE  UNCHANGED <<proposals[p], commitments[p]>>
    BY <1>3 DEF CloseProposal, FinalizeProposal
  <1>4. ASSUME NEW q \in ProposalIds, NEW v \in Voters, NEW c \in Commitments,
               NEW proof \in BOOLEAN, NEW accts \in OptionalAccounts(v),
               CommitVote(q, v, c, proof, accts)
        PROVE  UNCHANGED <<proposals[p], commitments[p]>>
    BY <1>4 DEF CommitVote, CommitOpen
  <1>5. ASSUME NEW q \in ProposalIds, NEW v \in Voters, NEW o \in Options,
               NEW s \in Salts, RevealVote(q, v, o, s)
        PROVE  UNCHANGED <<proposals[p], commitments[p]>>
    BY <1>5 DEF RevealVote, RevealOpen
  <1> QED
    BY <1>1, <1>2, <1>3, <1>4, <1>5 DEF Next, ProposalStep, VoteStep

\* What a proposal was created with stays, and so does every vote cast in it.
LEMMA VotesKept ==
  ASSUME TypeOK, [Next]_vars, NEW p \in ProposalIds, proposals[p].phase # "Unallocated"
  PROVE  /\ proposals'[p].phase # "Unallocated"
         /\ proposals'[p].options = proposals[p].options
         /\ \A v \in Voters :
              commitments[p][v].commitment # ZERO =>
                /\ commitments'[p][v].commitment = commitments[p][v].commitment
                /\ commitments[p][v].revealed => commitments'[p][v].revealed
  <1> USE DEF TypeOK
  <1> DEFINE Kept ==
        /\ proposals'[p].phase # "Unallocated"
        /\ proposals'[p].options = proposals[p].options
        /\ \A v \in Voters :
             commitments[p][v].commitment # ZERO =>
               /\ commitments'[p][v].commitment = commitments[p][v].commitment
               /\ commitments[p][v].revealed => commitments'[p][v].revealed
  <1>1. CASE RegistryStep \/ Tick \/ UNCHANGED vars
    BY <1>1 DEF RegistryStep, InitializeRegistry, UpdateMerkleRoot,
       TransferAuthority, GrantEligibility, RevokeEligibility, Tick, vars
  <1>2. ASSUME NEW q \in ProposalIds, NEW options \in OptionLists,
               NEW ends \in Deadlines,
               CreateProposal(q, options, ends[1], ends[2])
        PROVE  Kept
    BY <1>2 DEF CreateProposal
  <1>3. ASSUME NEW q \in ProposalIds,
               (\E a \in Admins : CloseProposal(a, q)) \/ FinalizeProposal(q)
        PROVE  Kept
    <2>1. PICK phase \in {"Closed", "Finalized"} :
            proposals' = [proposals EXCEPT ![q].phase = phase] /\ UNCHANGED commitments
      BY <1>3 DEF CloseProposal, FinalizeProposal
    <2> QED
      BY <2>1 DEF Proposal
  <1>4. ASSUME NEW q \in ProposalIds, NEW v \in Voters, NEW c \in Commitments,
               NEW proof \in BOOLEAN, NEW accts \in OptionalAccounts(v),
               CommitVote(q, v, c, proof, accts)
        PROVE  Kept
    BY <1>4 DEF CommitVote, AlreadyCommitted
  <1>5. ASSUME NEW q \in ProposalIds, NEW v \in Voters, NEW o \in Options,
               NEW s \in Salts, RevealVote(q, v, o, s)
        PROVE  Kept
    <2>1. PICK counts : proposals' = [proposals EXCEPT ![q].phase = "Reveal",
                                                      ![q].option_counts = counts]
      BY <1>5 DEF RevealVote
    <2>2. commitments' = [commitments EXCEPT ![q][v].revealed = TRUE]
      BY <1>5 DEF RevealVote
    <2>3. /\ proposals'[p].phase # "Unallocated"
          /\ proposals'[p].options = proposals[p].options
      BY <2>1 DEF Proposal
    <2>4. ASSUME NEW w \in Voters
          PROVE  /\ commitments'[p][w].commitment = commitments[p][w].commitment
                 /\ commitments[p][w].revealed => commitments'[p][w].revealed
      <3>1. CASE p = q /\ w = v
        BY <2>2, <3>1 DEF CommitmentAccount
      <3>2. CASE ~(p = q /\ w = v)
        BY <2>2, <3>2 DEF CommitmentAccount
      <3> QED
        BY <3>1, <3>2
    <2> QED
      BY <2>3, <2>4
  <1> QED
    BY <1>1, <1>2, <1>3, <1>4, <1>5 DEF Next, ProposalStep, VoteStep

\* A finalized or closed proposal and its commitments never change again.
THEOREM EndedCorrect == Spec => EndedProposalsImmutable
  <1> DEFINE Kept ==
        \A p \in ProposalIds :
          proposals[p].phase \in {"Finalized", "Closed"}
          => UNCHANGED <<proposals[p], commitments[p]>>
  <1>1. TypeOK /\ [Next]_vars => [Kept]_vars
    BY EndedStep
  <1> QED
    BY <1>1, TypeCorrect, PTL DEF Spec, EndedProposalsImmutable

--------------------------------------------------------------------------------
\* What a proposal pins, and whether it exists, changes in create_proposal only.
LEMMA PinnedStep ==
  ASSUME TypeOK, ProposalStep \/ VoteStep, NEW p \in ProposalIds,
         ~\E options \in OptionLists, ends \in Deadlines :
            CreateProposal(p, options, ends[1], ends[2])
  PROVE  /\ proposals'[p].electorate_merkle_root = proposals[p].electorate_merkle_root
         /\ proposals'[p].electorate_snapshot_slot = proposals[p].electorate_snapshot_slot
         /\ proposals'[p].phase = "Unallocated" => proposals[p].phase = "Unallocated"
  <1> DEFINE Pinned ==
        /\ proposals'[p].electorate_merkle_root = proposals[p].electorate_merkle_root
        /\ proposals'[p].electorate_snapshot_slot = proposals[p].electorate_snapshot_slot
        /\ proposals'[p].phase = "Unallocated" => proposals[p].phase = "Unallocated"
  <1>1. ASSUME NEW q \in ProposalIds, NEW options \in OptionLists,
               NEW ends \in Deadlines,
               CreateProposal(q, options, ends[1], ends[2])
        PROVE  Pinned
    <2>1. q # p
      BY <1>1
    <2> QED
      BY <1>1, <2>1 DEF CreateProposal, TypeOK
  <1>2. ASSUME NEW q \in ProposalIds, NEW phase \in {"Closed", "Finalized"},
               proposals' = [proposals EXCEPT ![q].phase = phase]
        PROVE  Pinned
    BY <1>2 DEF TypeOK, Proposal
  <1>3. ASSUME NEW q \in ProposalIds,
               (\E a \in Admins : CloseProposal(a, q)) \/ FinalizeProposal(q)
        PROVE  Pinned
    BY <1>2, <1>3 DEF CloseProposal, FinalizeProposal
  <1>4. ASSUME NEW q \in ProposalIds, NEW v \in Voters, NEW c \in Commitments,
               NEW proof \in BOOLEAN, NEW accts \in OptionalAccounts(v),
               CommitVote(q, v, c, proof, accts)
        PROVE  Pinned
    BY <1>4 DEF CommitVote
  <1>5. ASSUME NEW q \in ProposalIds, NEW v \in Voters, NEW o \in Options,
               NEW s \in Salts, RevealVote(q, v, o, s)
        PROVE  Pinned
    BY <1>5 DEF RevealVote, TypeOK, Proposal
  <1>6. CASE ProposalStep
    BY <1>1, <1>3, <1>6 DEF ProposalStep
  <1>7. CASE VoteStep
    BY <1>4, <1>5, <1>7 DEF VoteStep
  <1>8. Pinned
    BY <1>6, <1>7
  <1> QED
    BY <1>8 DEF Pinned

\* A grant is written once, and a stored commitment was checked against what its
\* proposal pinned, which later steps leave alone.
LEMMA CommittersStep ==
  ASSUME TypeOK, CommittersInv, [Next]_vars
  PROVE  CommittersInv'
  <1> USE DEF CommittersInv, CommittersWereAdmitted, TypeOK
  <1>1. ASSUME NEW a \in Admins, NEW v \in Grantable, GrantEligibility(a, v)
        PROVE  CommittersInv'
    BY <1>1, ConstantsAssumption DEF GrantEligibility
  <1>2. CASE UNCHANGED <<proposals, commitments, granted>>
    BY <1>2
  <1>3. CASE RegistryStep \/ Tick \/ UNCHANGED vars
    BY <1>1, <1>2, <1>3 DEF RegistryStep, InitializeRegistry, UpdateMerkleRoot,
       TransferAuthority, RevokeEligibility, Tick, vars
  <1>4. ASSUME NEW p \in ProposalIds, NEW options \in OptionLists,
               NEW ends \in Deadlines,
               CreateProposal(p, options, ends[1], ends[2])
        PROVE  CommittersInv'
    <2>1. \A q \in ProposalIds : q # p => proposals'[q] = proposals[q]
      BY <1>4 DEF CreateProposal
    <2>2. proposals'[p].phase = "Commit" /\ proposals[p].phase = "Unallocated"
      BY <1>4 DEF CreateProposal
    <2> QED
      BY <1>4, <2>1, <2>2 DEF CreateProposal
  <1>5. ASSUME NEW p \in ProposalIds, NEW v \in Voters, NEW c \in Commitments,
               NEW proof \in BOOLEAN, NEW accts \in OptionalAccounts(v),
               CommitVote(p, v, c, proof, accts)
        PROVE  CommittersInv'
    <2>1. \/ v \in proposals[p].electorate_merkle_root
          \/ granted[v] \in 1..proposals[p].electorate_snapshot_slot
      BY <1>5 DEF CommitVote, IsVoterEligible, GrantCounts, OptionalAccounts, Proposal
    <2>2. proposals[p].phase = "Commit"
      BY <1>5 DEF CommitVote, CommitOpen
    <2>3. \A q \in ProposalIds, w \in Voters :
            q # p \/ w # v => commitments'[q][w] = commitments[q][w]
      BY <1>5 DEF CommitVote
    <2>4. UNCHANGED <<proposals, granted>>
      BY <1>5 DEF CommitVote
    <2> QED
      BY <2>1, <2>2, <2>3, <2>4
  <1>6. CASE ProposalStep \/ VoteStep
    <2>1. CASE \E p \in ProposalIds, options \in OptionLists, ends \in Deadlines :
                 CreateProposal(p, options, ends[1], ends[2])
      BY <1>4, <2>1
    <2>2. CASE \E p \in ProposalIds, v \in Voters, c \in Commitments,
                  proof \in BOOLEAN : \E accts \in OptionalAccounts(v) :
                 CommitVote(p, v, c, proof, accts)
      BY <1>5, <2>2
    <2>3. CASE /\ ~\E p \in ProposalIds, options \in OptionLists, ends \in Deadlines :
                      CreateProposal(p, options, ends[1], ends[2])
               /\ ~\E p \in ProposalIds, v \in Voters, c \in Commitments,
                      proof \in BOOLEAN : \E accts \in OptionalAccounts(v) :
                      CommitVote(p, v, c, proof, accts)
      <3>1. \A p \in ProposalIds :
              /\ proposals'[p].electorate_merkle_root = proposals[p].electorate_merkle_root
              /\ proposals'[p].electorate_snapshot_slot = proposals[p].electorate_snapshot_slot
              /\ proposals'[p].phase = "Unallocated" => proposals[p].phase = "Unallocated"
        BY <1>6, <2>3, PinnedStep
      <3>2. ASSUME NEW q \in ProposalIds, NEW w \in Voters, NEW o \in Options,
                   NEW s \in Salts, RevealVote(q, w, o, s)
            PROVE  /\ UNCHANGED granted
                   /\ \A p \in ProposalIds, v \in Voters :
                        commitments'[p][v].commitment = commitments[p][v].commitment
        BY <3>2 DEF RevealVote, CommitmentAccount
      <3>3. /\ UNCHANGED granted
            /\ \A p \in ProposalIds, v \in Voters :
                 commitments'[p][v].commitment = commitments[p][v].commitment
        <4>1. CASE ProposalStep
          BY <2>3, <4>1 DEF ProposalStep, CloseProposal, FinalizeProposal
        <4>2. CASE VoteStep
          BY <2>3, <3>2, <4>2 DEF VoteStep
        <4> QED
          BY <1>6, <4>1, <4>2
      <3> QED
        BY <3>1, <3>3
    <2> QED
      BY <2>1, <2>2, <2>3
  <1> QED
    BY <1>3, <1>6 DEF Next

\* Only voters of the pinned root, or granted no later than the snapshot, ever hold
\* a commitment, whatever the authority changes during the ballot.
THEOREM CommittersCorrect == Spec => []CommittersWereAdmitted
  <1>1. Init => CommittersInv
    BY DEF Init, CommittersInv, CommittersWereAdmitted, NoCommitment
  <1>2. TypeOK /\ CommittersInv /\ [Next]_vars => CommittersInv'
    BY CommittersStep
  <1>3. CommittersInv => CommittersWereAdmitted
    BY DEF CommittersInv
  <1> QED
    BY <1>1, <1>2, <1>3, TypeCorrect, PTL DEF Spec

--------------------------------------------------------------------------------
\* The voters commit_vote accepts, stated on the accounts.
Accepts(p, v) ==
  \/ v \in proposals[p].electorate_merkle_root
  \/ granted[v] \in 1..proposals[p].electorate_snapshot_slot

MayCommitIsAccepts ==
  \A p \in ProposalIds : MayCommit(p) = {v \in Voters : Accepts(p, v)}

\* Sending the proof, or the grant without the revocation, is all it takes; a
\* revocation the client leaves out is not consulted.
LEMMA MayCommitAccepts == TypeOK => MayCommitIsAccepts
  <1> SUFFICES ASSUME TypeOK, NEW p \in ProposalIds, NEW v \in Voters
               PROVE  v \in MayCommit(p) <=> Accepts(p, v)
    BY DEF MayCommitIsAccepts, MayCommit
  <1> USE DEF TypeOK
  <1> DEFINE root == proposals[p].electorate_merkle_root
             snapshot == proposals[p].electorate_snapshot_slot
  <1>1. snapshot \in Nat /\ granted[v] \in Nat
    BY DEF Proposal
  <1>2. ASSUME v \in MayCommit(p)
        PROVE  Accepts(p, v)
    BY <1>1, <1>2 DEF MayCommit, IsVoterEligible, GrantCounts, OptionalAccounts, Accepts
  <1>3. ASSUME v \in root
        PROVE  v \in MayCommit(p)
    <2>1. {} \in OptionalAccounts(v) /\ IsVoterEligible(p, v, TRUE, {})
      BY <1>3 DEF OptionalAccounts, IsVoterEligible
    <2> QED
      BY <2>1 DEF MayCommit
  <1>4. ASSUME granted[v] \in 1..snapshot
        PROVE  v \in MayCommit(p)
    <2>1. {"granted"} \in OptionalAccounts(v)
      BY <1>1, <1>4 DEF OptionalAccounts
    <2>2. IsVoterEligible(p, v, FALSE, {"granted"})
      BY <1>1, <1>4 DEF IsVoterEligible, GrantCounts
    <2> QED
      BY <2>1, <2>2 DEF MayCommit
  <1> QED
    BY <1>2, <1>3, <1>4 DEF Accepts

\* What the proposal pinned stays, and grants are written once, with the slot of
\* the instruction, which is past the snapshot.
LEMMA FrozenStep ==
  ASSUME TypeOK, MayCommitIsAccepts', [Next]_vars, NEW p \in ProposalIds,
         IsActive(proposals[p].phase),
         slot > proposals[p].electorate_snapshot_slot
  PROVE  MayCommit(p)' = MayCommit(p)
  <1> USE DEF TypeOK
  <1> DEFINE root == proposals[p].electorate_merkle_root
             snapshot == proposals[p].electorate_snapshot_slot
  <1>1. /\ proposals'[p].electorate_merkle_root = root
        /\ proposals'[p].electorate_snapshot_slot = snapshot
    <2>1. CASE UNCHANGED proposals
      BY <2>1
    <2>2. CASE RegistryStep \/ Tick \/ UNCHANGED vars
      BY <2>1, <2>2 DEF RegistryStep, InitializeRegistry, UpdateMerkleRoot,
         TransferAuthority, GrantEligibility, RevokeEligibility, Tick, vars
    <2>3. CASE ProposalStep \/ VoteStep
      <3>1. ~\E options \in OptionLists, ends \in Deadlines :
               CreateProposal(p, options, ends[1], ends[2])
        BY DEF CreateProposal, IsActive
      <3> QED
        BY <2>3, <3>1, PinnedStep
    <2> QED
      BY <2>2, <2>3 DEF Next
  <1>2. \A v \in Voters : granted'[v] = granted[v] \/ (granted[v] = 0 /\ granted'[v] = slot)
    <2>1. CASE UNCHANGED granted
      BY <2>1
    <2>2. ASSUME NEW a \in Admins, NEW v \in Grantable, GrantEligibility(a, v)
          PROVE  \A w \in Voters :
                   granted'[w] = granted[w] \/ (granted[w] = 0 /\ granted'[w] = slot)
      BY <2>2 DEF GrantEligibility
    <2>3. CASE RegistryStep \/ Tick \/ UNCHANGED vars
      BY <2>1, <2>2, <2>3 DEF RegistryStep, InitializeRegistry, UpdateMerkleRoot,
         TransferAuthority, RevokeEligibility, Tick, vars
    <2>4. CASE ProposalStep \/ VoteStep
      BY <2>1, <2>4 DEF ProposalStep, CreateProposal, CloseProposal,
         FinalizeProposal, VoteStep, CommitVote, RevealVote
    <2> QED
      BY <2>3, <2>4 DEF Next
  <1>3. MayCommit(p) = {v \in Voters : Accepts(p, v)}
    BY MayCommitAccepts DEF MayCommitIsAccepts
  <1>4. MayCommit(p)' = {v \in Voters : Accepts(p, v)'}
    BY DEF MayCommitIsAccepts
  <1>5. \A v \in Voters :
          granted[v] \in 1..snapshot <=> granted'[v] \in 1..snapshot
    <2> SUFFICES ASSUME NEW v \in Voters
                 PROVE  granted[v] \in 1..snapshot <=> granted'[v] \in 1..snapshot
      OBVIOUS
    <2>1. snapshot \in Nat /\ slot \in Nat /\ slot > snapshot
      BY DEF Proposal
    <2>2. granted'[v] = granted[v] \/ (granted[v] = 0 /\ granted'[v] = slot)
      BY <1>2
    <2>3. CASE granted[v] = 0 /\ granted'[v] = slot
      BY <2>1, <2>3
    <2> QED
      BY <2>2, <2>3
  <1> QED
    BY <1>1, <1>3, <1>4, <1>5 DEF Accepts

\* From the slot after its snapshot on, who may vote on an open proposal is
\* fixed, whatever the authority publishes, grants or revokes.
THEOREM FrozenCorrect == Spec => FrozenAfterSnapshotSlot
  <1> DEFINE Frozen ==
        \A p \in ProposalIds :
          IsActive(proposals[p].phase)
            /\ slot > proposals[p].electorate_snapshot_slot
          => MayCommit(p)' = MayCommit(p)
  <1>1. TypeOK /\ MayCommitIsAccepts' /\ [Next]_vars => [Frozen]_vars
    BY FrozenStep
  <1> QED
    BY <1>1, MayCommitAccepts, TypeCorrect, PTL DEF Spec, FrozenAfterSnapshotSlot

--------------------------------------------------------------------------------
\* No vote is opened before the commit deadline and no result is final before
\* the reveal deadline: deadlines never move and the clock never goes back.
THEOREM PhasesCorrect == Spec => []PhasesFollowClock
  <1>1. Init => PhasesFollowClock
    BY DEF Init, PhasesFollowClock, NoProposal
  <1>2. ASSUME TypeOK, PhasesFollowClock, [Next]_vars
        PROVE  PhasesFollowClock'
    <2> USE <1>2 DEF TypeOK, Proposal, PhasesFollowClock
    <2>1. CASE RegistryStep \/ Tick \/ UNCHANGED vars
      <3>1. UNCHANGED proposals
        BY <2>1 DEF RegistryStep, InitializeRegistry, UpdateMerkleRoot,
           TransferAuthority, GrantEligibility, RevokeEligibility, Tick, vars
      <3>2. now' \in {now, now + 1}
        BY <2>1 DEF RegistryStep, InitializeRegistry, UpdateMerkleRoot,
           TransferAuthority, GrantEligibility, RevokeEligibility, Tick, vars
      <3> QED
        BY <3>1, <3>2
    <2>2. ASSUME NEW p \in ProposalIds, NEW options \in OptionLists,
                 NEW ends \in Deadlines,
                 CreateProposal(p, options, ends[1], ends[2])
          PROVE  PhasesFollowClock'
      BY <2>2 DEF CreateProposal
    <2>3. ASSUME NEW p \in ProposalIds, NEW a \in Admins, CloseProposal(a, p)
          PROVE  PhasesFollowClock'
      BY <2>3 DEF CloseProposal
    <2>4. ASSUME NEW p \in ProposalIds, FinalizeProposal(p)
          PROVE  PhasesFollowClock'
      BY <2>4 DEF FinalizeProposal, RevealEnded
    <2>5. ASSUME NEW p \in ProposalIds, NEW v \in Voters, NEW c \in Commitments,
                 NEW proof \in BOOLEAN, NEW accts \in OptionalAccounts(v),
                 CommitVote(p, v, c, proof, accts)
          PROVE  PhasesFollowClock'
      BY <2>5 DEF CommitVote
    <2>6. ASSUME NEW p \in ProposalIds, NEW v \in Voters, NEW o \in Options,
                 NEW s \in Salts, RevealVote(p, v, o, s)
          PROVE  PhasesFollowClock'
      BY <2>6 DEF RevealVote, RevealOpen
    <2> QED
      BY <2>1, <2>2, <2>3, <2>4, <2>5, <2>6 DEF Next, ProposalStep, VoteStep
  <1> QED
    BY <1>1, <1>2, TypeCorrect, PTL DEF Spec
================================================================================
