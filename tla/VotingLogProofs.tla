---------------------------- MODULE VotingLogProofs ----------------------------
(* Proofs about what VotingProgram emits, for every value of its constants. *)
EXTENDS VotingProgramProofs

\* A step that touches no ballot, or emits an event of the registry only.
QuietStep ==
  /\ UNCHANGED <<proposals, commitments>>
  /\ \/ UNCHANGED log
     \/ \E e \in Events : e.type \notin Contract!BallotTypes /\ log' = Append(log, e)

\* p ends, by close_proposal or by finalize_proposal.
EndStep(p) ==
  \E end \in {<<"Closed", "ProposalClosed">>, <<"Finalized", "ProposalFinalized">>} :
    /\ IsActive(proposals[p].phase)
    /\ proposals' = [proposals EXCEPT ![p].phase = end[1]]
    /\ UNCHANGED commitments
    /\ log' = Append(log, ProposalEnded(end[2], p))

\* The steps as the log sees them.
LEMMA StepCases ==
  ASSUME TypeOK, [Next]_vars
  PROVE  \/ QuietStep
         \/ \E p \in ProposalIds, options \in OptionLists, ends \in Deadlines :
              CreateProposal(p, options, ends[1], ends[2])
         \/ \E p \in ProposalIds : EndStep(p)
         \/ \E p \in ProposalIds, v \in Voters, c \in Commitments, proof \in BOOLEAN :
              \E accts \in OptionalAccounts(v) : CommitVote(p, v, c, proof, accts)
         \/ \E p \in ProposalIds, v \in Voters, o \in Options, s \in Salts :
              RevealVote(p, v, o, s)
  <1>1. CASE Tick \/ UNCHANGED vars
    BY <1>1 DEF Tick, vars, QuietStep
  <1>2. ASSUME NEW a \in Admins, NEW root \in Electorates,
               InitializeRegistry(a, root)
        PROVE  QuietStep
    BY <1>2 DEF InitializeRegistry, QuietStep
  <1>3. ASSUME NEW a \in Admins, NEW root \in Electorates,
               UpdateMerkleRoot(a, root)
        PROVE  QuietStep
    <2>1. NextVersion(registry.version) \in 0..MaxU64 /\ root \in SUBSET Voters
      BY <1>3, ConstantsAssumption
         DEF UpdateMerkleRoot, NextVersion, TypeOK, VoterRegistry
    <2>2. RootUpdated(root, NextVersion(registry.version)) \in Events
      BY <2>1 DEF RootUpdated, Events
    <2>3. RootUpdated(root, NextVersion(registry.version)).type
            \notin Contract!BallotTypes
      BY DEF RootUpdated, Contract!BallotTypes
    <2> QED
      BY <1>3, <2>2, <2>3 DEF UpdateMerkleRoot, Emit, QuietStep
  <1>4. ASSUME NEW a \in Admins, NEW b \in Admins, TransferAuthority(a, b)
        PROVE  QuietStep
    BY <1>4 DEF TransferAuthority, QuietStep
  <1>5. ASSUME NEW a \in Admins, NEW v \in Grantable,
               GrantEligibility(a, v) \/ RevokeEligibility(a, v)
        PROVE  QuietStep
    <2>1. v \in Voters
      BY ConstantsAssumption
    <2>2. \A type \in {"VoterEligibilityGranted", "VoterEligibilityRevoked"} :
            /\ EligibilityChanged(type, v) \in Events
            /\ EligibilityChanged(type, v).type \notin Contract!BallotTypes
      BY <2>1 DEF EligibilityChanged, Events, Contract!BallotTypes
    <2> QED
      BY <1>5, <2>2 DEF GrantEligibility, RevokeEligibility, Emit, QuietStep
  <1>6. CASE RegistryStep
    BY <1>2, <1>3, <1>4, <1>5, <1>6 DEF RegistryStep
  <1>7. ASSUME NEW p \in ProposalIds, NEW a \in Admins, CloseProposal(a, p)
        PROVE  EndStep(p)
    BY <1>7 DEF CloseProposal, Emit, EndStep
  <1>8. ASSUME NEW p \in ProposalIds, FinalizeProposal(p)
        PROVE  EndStep(p)
    BY <1>8 DEF FinalizeProposal, Emit, EndStep
  <1>9. CASE ProposalStep
    BY <1>7, <1>8, <1>9 DEF ProposalStep
  <1>10. CASE VoteStep
    BY <1>10 DEF VoteStep
  <1> QED
    BY <1>1, <1>6, <1>9, <1>10 DEF Next

\* An appended event takes the next position and leaves the others alone.
LEMMA LogAppend ==
  ASSUME log \in Seq(Events), NEW e, log' = Append(log, e)
  PROVE  /\ Len(log) + 1 \notin DOMAIN log
         /\ DOMAIN log' = DOMAIN log \cup {Len(log) + 1}
         /\ \A k \in DOMAIN log : log'[k] = log[k] /\ k < Len(log) + 1
         /\ log'[Len(log) + 1] = e
  OBVIOUS

\* What has happened after an event is what happened before it, or the event.
LEMMA HappenedAppend ==
  ASSUME log \in Seq(Events), NEW e, log' = Append(log, e), NEW type, NEW p
  PROVE  /\ Contract!Happened(type, p)' <=>
              Contract!Happened(type, p) \/ (e.type = type /\ e.proposal = p)
         /\ \A v : Contract!HappenedTo(type, p, v)' <=>
                     \/ Contract!HappenedTo(type, p, v)
                     \/ e.type = type /\ e.proposal = p /\ e.voter = v
  BY LogAppend DEF Contract!Happened, Contract!HappenedTo

--------------------------------------------------------------------------------
\* The log holds a VoteCommitted event with this content.
Committed(p, v, c) ==
  \E i \in EventsOf("VoteCommitted", p) : log[i].voter = v /\ log[i].commitment = c

\* The log tells what the accounts hold: which proposals exist, have a reveal
\* and have ended, and which commitments and reveals there were.
LogInv ==
  \A p \in ProposalIds :
    /\ Contract!Happened("ProposalCreated", p) <=> proposals[p].phase # "Unallocated"
    /\ Contract!Ended(p) <=> proposals[p].phase \in {"Closed", "Finalized"}
    /\ Contract!Happened("VoteRevealed", p) =>
         proposals[p].phase \notin {"Unallocated", "Commit"}
    /\ \A v \in Voters :
         /\ commitments[p][v].commitment # ZERO =>
              Committed(p, v, commitments[p][v].commitment)
         /\ Contract!HappenedTo("VoteRevealed", p, v) => commitments[p][v].revealed

\* Every ballot event, and only it, is accompanied by the account write it
\* reports.
LEMMA LogStep ==
  ASSUME TypeOK, TallyInv, LogInv, [Next]_vars
  PROVE  LogInv'
  <1> USE DEF TypeOK
  <1>1. ASSUME NEW e, log' = Append(log, e), NEW p, NEW v, NEW c,
               Committed(p, v, c)
        PROVE  Committed(p, v, c)'
    BY <1>1, LogAppend DEF Committed, EventsOf
  <1>2. CASE QuietStep
    <2>1. CASE UNCHANGED log
      BY <1>2, <2>1 DEF QuietStep, LogInv, Committed, EventsOf, Contract!Ended,
         Contract!Happened, Contract!HappenedTo
    <2>2. CASE ~UNCHANGED log
      <3>1. PICK e \in Events : e.type \notin Contract!BallotTypes /\ log' = Append(log, e)
        BY <1>2, <2>2 DEF QuietStep
      <3>2. \A type \in Contract!BallotTypes : \A p :
              /\ Contract!Happened(type, p)' <=> Contract!Happened(type, p)
              /\ \A v : Contract!HappenedTo(type, p, v)' <=> Contract!HappenedTo(type, p, v)
        BY <3>1, HappenedAppend
      <3>3. UNCHANGED <<proposals, commitments>>
        BY <1>2 DEF QuietStep
      <3> QED
        BY <1>1, <3>1, <3>2, <3>3 DEF LogInv, Contract!Ended, Contract!BallotTypes
    <2> QED
      BY <2>1, <2>2
  <1>3. ASSUME NEW q \in ProposalIds, NEW options \in OptionLists,
               NEW ends \in Deadlines,
               CreateProposal(q, options, ends[1], ends[2])
        PROVE  LogInv'
    <2> DEFINE e == ProposalCreated(q, registry.merkle_root, registry.version)
    <2>1. log' = Append(log, e)
      BY <1>3 DEF CreateProposal, Emit
    <2>2. e.type = "ProposalCreated" /\ e.proposal = q
      BY DEF ProposalCreated
    <2>3. \A p \in ProposalIds :
            proposals'[p].phase = IF p = q THEN "Commit" ELSE proposals[p].phase
      BY <1>3 DEF CreateProposal
    <2>4. UNCHANGED commitments /\ proposals[q].phase = "Unallocated"
      BY <1>3 DEF CreateProposal
    <2> HIDE DEF e
    <2>5. \A type, p :
            /\ Contract!Happened(type, p)' <=>
                 Contract!Happened(type, p) \/ (type = "ProposalCreated" /\ p = q)
            /\ type # "ProposalCreated" =>
                 \A v : Contract!HappenedTo(type, p, v)' <=> Contract!HappenedTo(type, p, v)
      BY <2>1, <2>2, HappenedAppend
    <2>6. \A p, v, c : Committed(p, v, c) => Committed(p, v, c)'
      BY <1>1, <2>1
    <2>7. \A p : Contract!Ended(p)' <=> Contract!Ended(p)
      BY <2>5 DEF Contract!Ended
    <2> QED
      BY <2>3, <2>4, <2>5, <2>6, <2>7 DEF LogInv
  <1>4. ASSUME NEW q \in ProposalIds, EndStep(q)
        PROVE  LogInv'
    <2>1. PICK end \in {<<"Closed", "ProposalClosed">>, <<"Finalized", "ProposalFinalized">>} :
            /\ IsActive(proposals[q].phase)
            /\ proposals' = [proposals EXCEPT ![q].phase = end[1]]
            /\ UNCHANGED commitments
            /\ log' = Append(log, ProposalEnded(end[2], q))
      BY <1>4 DEF EndStep
    <2> DEFINE e == ProposalEnded(end[2], q)
    <2>2. e.type \in {"ProposalClosed", "ProposalFinalized"} /\ e.proposal = q
      BY DEF ProposalEnded
    <2>3. \A p \in ProposalIds :
            IF p = q THEN proposals'[p].phase \in {"Closed", "Finalized"}
                     ELSE proposals'[p].phase = proposals[p].phase
      BY <2>1 DEF Proposal
    <2> HIDE DEF e
    <2>4. \A type, p :
            type \in {"ProposalCreated", "VoteRevealed"} =>
            /\ Contract!Happened(type, p)' <=> Contract!Happened(type, p)
            /\ \A v : Contract!HappenedTo(type, p, v)' <=> Contract!HappenedTo(type, p, v)
      BY <2>1, <2>2, HappenedAppend DEF e
    <2>5. \A p : Contract!Ended(p)' <=> Contract!Ended(p) \/ p = q
      <3>1. \A type, p : Contract!Happened(type, p)' <=>
              Contract!Happened(type, p) \/ (e.type = type /\ e.proposal = p)
        BY <2>1, HappenedAppend DEF e
      <3> QED
        BY <2>2, <3>1 DEF Contract!Ended
    <2> QED
      BY <1>1, <2>1, <2>3, <2>4, <2>5 DEF LogInv, IsActive
  <1>5. ASSUME NEW q \in ProposalIds, NEW w \in Voters, NEW c \in Commitments,
               NEW proof \in BOOLEAN, NEW accts \in OptionalAccounts(w),
               CommitVote(q, w, c, proof, accts)
        PROVE  LogInv'
    <2> DEFINE e == VoteCommitted(q, w, c)
    <2>1. log' = Append(log, e) /\ UNCHANGED proposals
      BY <1>5 DEF CommitVote, Emit
    <2>2. e.type = "VoteCommitted" /\ e.proposal = q /\ e.voter = w /\ e.commitment = c
      BY DEF VoteCommitted
    <2>3. \A p \in ProposalIds, v \in Voters :
            IF p = q /\ v = w
            THEN commitments'[p][v].commitment = c /\ ~commitments[p][v].revealed
            ELSE commitments'[p][v] = commitments[p][v]
      BY <1>5 DEF CommitVote, AlreadyCommitted, TallyInv
    <2> HIDE DEF e
    <2>4. \A type, p :
            type # "VoteCommitted" =>
            /\ Contract!Happened(type, p)' <=> Contract!Happened(type, p)
            /\ \A v : Contract!HappenedTo(type, p, v)' <=> Contract!HappenedTo(type, p, v)
      BY <2>1, <2>2, HappenedAppend
    <2>5. Committed(q, w, c)'
      BY <2>1, <2>2, LogAppend DEF Committed, EventsOf
    <2> QED
      BY <1>1, <2>1, <2>3, <2>4, <2>5 DEF LogInv, Contract!Ended
  <1>6. ASSUME NEW q \in ProposalIds, NEW w \in Voters, NEW o \in Options,
               NEW s \in Salts, RevealVote(q, w, o, s)
        PROVE  LogInv'
    <2> DEFINE e == VoteRevealed(q, w, o)
    <2>1. log' = Append(log, e)
      BY <1>6 DEF RevealVote, Emit
    <2>2. e.type = "VoteRevealed" /\ e.proposal = q /\ e.voter = w
      BY DEF VoteRevealed
    <2>3. \A p \in ProposalIds :
            proposals'[p].phase = IF p = q THEN "Reveal" ELSE proposals[p].phase
      BY <1>6 DEF RevealVote, Proposal
    <2>4. \A p \in ProposalIds, v \in Voters :
            /\ commitments'[p][v].commitment = commitments[p][v].commitment
            /\ commitments[p][v].revealed => commitments'[p][v].revealed
            /\ p = q /\ v = w => commitments'[p][v].revealed
      BY <1>6 DEF RevealVote, CommitmentAccount
    <2>5. proposals[q].phase \in {"Commit", "Reveal"}
      BY <1>6 DEF RevealVote, RevealOpen, IsActive
    <2> HIDE DEF e
    <2>6. \A type, p :
            /\ Contract!Happened(type, p)' <=>
                 Contract!Happened(type, p) \/ (type = "VoteRevealed" /\ p = q)
            /\ \A v : Contract!HappenedTo(type, p, v)' <=>
                 \/ Contract!HappenedTo(type, p, v)
                 \/ type = "VoteRevealed" /\ p = q /\ v = w
      BY <2>1, <2>2, HappenedAppend
    <2>7. \A p, v, c : Committed(p, v, c) => Committed(p, v, c)'
      BY <1>1, <2>1
    <2>8. \A p : Contract!Ended(p)' <=> Contract!Ended(p)
      BY <2>6 DEF Contract!Ended
    <2>9. ASSUME NEW p \in ProposalIds, NEW v \in Voters,
                 commitments'[p][v].commitment # ZERO
          PROVE  Committed(p, v, commitments[p][v].commitment)'
      <3>1. \A x : Committed(p, v, x) /\ x = commitments'[p][v].commitment
                   => Committed(p, v, commitments[p][v].commitment)'
        BY <2>7
      <3> QED
        BY <2>4, <2>9, <3>1 DEF LogInv
    <2>10. \A p \in ProposalIds, v \in Voters :
             Contract!HappenedTo("VoteRevealed", p, v)' => commitments'[p][v].revealed
      <3>1. \A p, v : Contract!HappenedTo("VoteRevealed", p, v)'
                      => Contract!HappenedTo("VoteRevealed", p, v) \/ (p = q /\ v = w)
        BY <2>1, <2>2, HappenedAppend
      <3> QED
        BY <2>4, <3>1 DEF LogInv
    <2> QED
      BY <2>3, <2>5, <2>6, <2>8, <2>9, <2>10 DEF LogInv
  <1> QED
    BY <1>2, <1>3, <1>4, <1>5, <1>6, StepCases

\* The log and the accounts agree in every reachable state.
THEOREM LogCorrect == Spec => []LogInv
  <1>1. Init => TallyInv
    BY DEF Init, TallyInv, TallyMatchesReveals, NoProposal, NoCommitment
  <1>2. Init => LogInv
    BY DEF Init, LogInv, NoProposal, NoCommitment, Contract!Ended,
       Contract!Happened, Contract!HappenedTo
  <1>3. TypeOK /\ TallyInv /\ [Next]_vars => TallyInv'
    BY TallyStep
  <1>4. TypeOK /\ TallyInv /\ LogInv /\ [Next]_vars => LogInv'
    BY LogStep
  <1> QED
    BY <1>1, <1>2, <1>3, <1>4, TypeCorrect, PTL DEF Spec

--------------------------------------------------------------------------------
\* An event an instruction emits may follow the events before it: the phases and
\* the config, which the contract does not know, are what forbids the others.
LEMMA ContractStep ==
  ASSUME TypeOK, ActiveInv, TallyInv, LogInv, [Next]_vars
  PROVE  [Contract!Next]_log
  <1> USE DEF TypeOK, IsActive
  <1>1. CASE QuietStep
    BY <1>1 DEF QuietStep, Contract!Next, Contract!Emit, Contract!MayFollow
  <1>2. ASSUME NEW p \in ProposalIds, NEW options \in OptionLists,
               NEW ends \in Deadlines,
               CreateProposal(p, options, ends[1], ends[2])
        PROVE  Contract!Next
    <2> DEFINE e == ProposalCreated(p, registry.merkle_root, registry.version)
    <2>1. e \in Events
      BY DEF ProposalCreated, Events, VoterRegistry
    <2>2. log' = Append(log, e)
      BY <1>2 DEF CreateProposal, Emit
    <2>3. e.type = "ProposalCreated" /\ e.proposal = p
      BY DEF ProposalCreated
    <2>4. ~Contract!Happened("ProposalCreated", p)
      BY <1>2 DEF CreateProposal, LogInv
    <2>5. ASSUME NEW k \in DOMAIN log, log[k].type = "ProposalCreated",
                 Contract!Open(log[k].proposal)
          PROVE  FALSE
      <3>1. log[k] \in Events
        BY <2>5
      <3>2. log[k].proposal \in ProposalIds
        BY <2>5, <3>1 DEF Events
      <3>3. IsActive(proposals[log[k].proposal].phase)
        <4>1. proposals[log[k].proposal].phase \in Phases
          BY <3>2 DEF Proposal
        <4> QED
          BY <2>5, <3>2, <4>1 DEF Contract!Open, LogInv, Phases
      <3>4. active_proposal = log[k].proposal
        BY <3>2, <3>3 DEF ActiveInv, ActiveProposalConsistent
      <3> QED
        BY <1>2, <3>2, <3>4, ConstantsAssumption DEF CreateProposal, NoActiveProposal
    <2>6. Contract!MayFollow(e)
      BY <2>3, <2>4, <2>5 DEF Contract!MayFollow, Contract!MayCreate
    <2> QED
      BY <2>1, <2>2, <2>6 DEF Contract!Next, Contract!Emit
  <1>3. ASSUME NEW p \in ProposalIds, IsActive(proposals[p].phase)
        PROVE  Contract!Open(p)
    BY <1>3 DEF LogInv, Contract!Open
  <1>4. ASSUME NEW p \in ProposalIds, EndStep(p)
        PROVE  Contract!Next
    <2>1. PICK type \in {"ProposalClosed", "ProposalFinalized"} :
            log' = Append(log, ProposalEnded(type, p))
      BY <1>4 DEF EndStep
    <2>2. ProposalEnded(type, p) \in Events
      BY DEF ProposalEnded, Events
    <2>3. Contract!Open(p)
      BY <1>3, <1>4 DEF EndStep
    <2>4. Contract!MayFollow(ProposalEnded(type, p))
      BY <2>3 DEF ProposalEnded, Contract!MayFollow
    <2> QED
      BY <2>1, <2>2, <2>4 DEF Contract!Next, Contract!Emit
  <1>5. ASSUME NEW p \in ProposalIds, NEW v \in Voters, NEW c \in Commitments,
               NEW proof \in BOOLEAN, NEW accts \in OptionalAccounts(v),
               CommitVote(p, v, c, proof, accts)
        PROVE  Contract!Next
    <2>1. VoteCommitted(p, v, c) \in Events
      BY DEF VoteCommitted, Events
    <2>2. log' = Append(log, VoteCommitted(p, v, c))
      BY <1>5 DEF CommitVote, Emit
    <2>3. proposals[p].phase = "Commit"
      BY <1>5 DEF CommitVote, CommitOpen
    <2>4. Contract!MayCommit(p)
      BY <1>3, <2>3 DEF LogInv, Contract!MayCommit, Contract!Happened
    <2>5. Contract!MayFollow(VoteCommitted(p, v, c))
      BY <2>4 DEF VoteCommitted, Contract!MayFollow
    <2> QED
      BY <2>1, <2>2, <2>5 DEF Contract!Next, Contract!Emit
  <1>6. ASSUME NEW p \in ProposalIds, NEW v \in Voters, NEW o \in Options,
               NEW s \in Salts, RevealVote(p, v, o, s)
        PROVE  Contract!Next
    <2>1. VoteRevealed(p, v, o) \in Events
      BY DEF VoteRevealed, Events
    <2>2. log' = Append(log, VoteRevealed(p, v, o))
      BY <1>6 DEF RevealVote, Emit
    <2>3. Contract!Open(p)
      BY <1>3, <1>6 DEF RevealVote, RevealOpen
    <2>4. commitments[p][v].commitment # ZERO
      BY <1>6, ConstantsAssumption
         DEF RevealVote, OpensCommitment, VoteCommitment, Hashes
    <2>5. Contract!HappenedTo("VoteCommitted", p, v)
      BY <2>4 DEF LogInv, Committed, EventsOf, Contract!HappenedTo
    <2>6. ~Contract!HappenedTo("VoteRevealed", p, v)
      BY <1>6 DEF RevealVote, AlreadyRevealed, LogInv
    <2>7. Contract!MayFollow(VoteRevealed(p, v, o))
      BY <2>3, <2>5, <2>6 DEF VoteRevealed, Contract!MayFollow, Contract!MayReveal
    <2> QED
      BY <2>1, <2>2, <2>7 DEF Contract!Next, Contract!Emit
  <1> QED
    BY <1>1, <1>2, <1>4, <1>5, <1>6, StepCases

\* The program emits its events in an order a Ballot allows, whatever its
\* callers, clocks and authorities do: what the pipeline is built on.
THEOREM BallotImplemented == Spec => ImplementsBallot
  <1>1. Init => Contract!Init
    BY DEF Init, Contract!Init
  <1>2. TypeOK /\ ActiveInv /\ TallyInv /\ LogInv /\ [Next]_vars => [Contract!Next]_log
    BY ContractStep
  <1>3. Init => ActiveInv
    BY ConstantsAssumption
       DEF Init, ActiveInv, ActiveProposalConsistent, NoProposal, IsActive
  <1>4. TypeOK /\ ActiveInv /\ [Next]_vars => ActiveInv'
    BY ActiveStep
  <1>5. Init => TallyInv
    BY DEF Init, TallyInv, TallyMatchesReveals, NoProposal, NoCommitment
  <1>6. TypeOK /\ TallyInv /\ [Next]_vars => TallyInv'
    BY TallyStep
  <1> QED
    BY <1>1, <1>2, <1>3, <1>4, <1>5, <1>6, TypeCorrect, LogCorrect, PTL
       DEF Spec, ImplementsBallot, Contract!Spec

--------------------------------------------------------------------------------
\* The event at k opens a commitment of p that its voter published before.
Explained(p, k) ==
  \E i \in EventsOf("VoteCommitted", p), s \in Salts :
    /\ i < k
    /\ log[i].voter = log[k].voter
    /\ log[i].commitment = VoteCommitment(p, s, log[k].voter, log[k].option)

\* Later events do not change what an event opened.
LEMMA ExplainedAppend ==
  ASSUME log \in Seq(Events), NEW e, log' = Append(log, e),
         NEW p, NEW k \in DOMAIN log, Explained(p, k)
  PROVE  Explained(p, k)'
  <1>1. PICK i \in EventsOf("VoteCommitted", p) :
          \E s \in Salts :
            /\ i < k
            /\ log[i].voter = log[k].voter
            /\ log[i].commitment = VoteCommitment(p, s, log[k].voter, log[k].option)
    BY DEF Explained
  <1>2. i \in EventsOf("VoteCommitted", p)' /\ log'[i] = log[i] /\ log'[k] = log[k]
    BY LogAppend DEF EventsOf
  <1> QED
    BY <1>1, <1>2 DEF Explained

\* Only reveal_vote reveals, and what it reveals was committed before.
LEMMA RevealsStep ==
  ASSUME TypeOK, LogInv, RevealsOpenEarlierCommits, [Next]_vars
  PROVE  RevealsOpenEarlierCommits'
  <1> USE DEF TypeOK
  <1>1. ASSUME NEW e, log' = Append(log, e), e.type # "VoteRevealed"
        PROVE  RevealsOpenEarlierCommits'
    <2> SUFFICES ASSUME NEW p \in ProposalIds, NEW k \in EventsOf("VoteRevealed", p)'
                 PROVE  Explained(p, k)'
      BY DEF RevealsOpenEarlierCommits, Explained
    <2>1. k \in EventsOf("VoteRevealed", p) /\ k \in DOMAIN log
      BY <1>1, LogAppend DEF EventsOf
    <2>2. Explained(p, k)
      BY <2>1 DEF RevealsOpenEarlierCommits, Explained
    <2> QED
      BY <1>1, <2>1, <2>2, ExplainedAppend
  <1>2. CASE UNCHANGED log
    BY <1>2 DEF RevealsOpenEarlierCommits, EventsOf
  <1>3. CASE QuietStep
    BY <1>1, <1>2, <1>3 DEF QuietStep, Contract!BallotTypes
  <1>4. ASSUME NEW p \in ProposalIds, NEW v \in Voters, NEW o \in Options,
               NEW s \in Salts, RevealVote(p, v, o, s)
        PROVE  RevealsOpenEarlierCommits'
    <2> DEFINE e == VoteRevealed(p, v, o)
               n == Len(log) + 1
    <2>1. log' = Append(log, e)
      BY <1>4 DEF RevealVote, Emit
    <2>2. e.type = "VoteRevealed" /\ e.proposal = p /\ e.voter = v /\ e.option = o
      BY DEF VoteRevealed
    <2>3. commitments[p][v].commitment = VoteCommitment(p, s, v, o)
      BY <1>4 DEF RevealVote, OpensCommitment
    <2>4. commitments[p][v].commitment # ZERO
      BY <2>3, ConstantsAssumption DEF VoteCommitment, Hashes
    <2>5. PICK i \in EventsOf("VoteCommitted", p) :
            log[i].voter = v /\ log[i].commitment = VoteCommitment(p, s, v, o)
      <3>1. Committed(p, v, commitments[p][v].commitment)
        BY <2>4 DEF LogInv
      <3> QED
        BY <2>3, <3>1 DEF Committed
    <2> HIDE DEF e
    <2>6. /\ i \in EventsOf("VoteCommitted", p)' /\ i < n
          /\ log'[i] = log[i] /\ log'[n] = e
      BY <2>1, <2>5, LogAppend DEF EventsOf
    <2> SUFFICES ASSUME NEW q \in ProposalIds, NEW k \in EventsOf("VoteRevealed", q)'
                 PROVE  Explained(q, k)'
      BY DEF RevealsOpenEarlierCommits, Explained
    <2>7. CASE k = n
      <3>1. q = p
        BY <2>2, <2>6, <2>7 DEF EventsOf
      <3> QED
        BY <2>2, <2>5, <2>6, <2>7, <3>1 DEF Explained
    <2>8. CASE k # n
      <3>1. k \in EventsOf("VoteRevealed", q) /\ k \in DOMAIN log
        BY <2>1, <2>8, LogAppend DEF EventsOf
      <3>2. Explained(q, k)
        BY <3>1 DEF RevealsOpenEarlierCommits, Explained
      <3> QED
        BY <2>1, <3>1, <3>2, ExplainedAppend
    <2> QED
      BY <2>7, <2>8
  <1>5. ASSUME NEW p \in ProposalIds, NEW options \in OptionLists,
               NEW ends \in Deadlines,
               CreateProposal(p, options, ends[1], ends[2])
        PROVE  RevealsOpenEarlierCommits'
    BY <1>1, <1>5 DEF CreateProposal, Emit, ProposalCreated
  <1>6. ASSUME NEW p \in ProposalIds, EndStep(p)
        PROVE  RevealsOpenEarlierCommits'
    <2>1. PICK type \in {"ProposalClosed", "ProposalFinalized"} :
            log' = Append(log, ProposalEnded(type, p))
      BY <1>6 DEF EndStep
    <2>2. ProposalEnded(type, p).type # "VoteRevealed"
      BY DEF ProposalEnded
    <2> QED
      BY <1>1, <2>1, <2>2
  <1>7. ASSUME NEW p \in ProposalIds, NEW v \in Voters, NEW c \in Commitments,
               NEW proof \in BOOLEAN, NEW accts \in OptionalAccounts(v),
               CommitVote(p, v, c, proof, accts)
        PROVE  RevealsOpenEarlierCommits'
    BY <1>1, <1>7 DEF CommitVote, Emit, VoteCommitted
  <1> QED
    BY <1>3, <1>4, <1>5, <1>6, <1>7, StepCases

\* Every reveal in the log opens a commitment its voter published before, for
\* the option it names; a commitment of 32 zero bytes can be replaced but never
\* opened.
THEOREM RevealsCorrect == Spec => []RevealsOpenEarlierCommits
  <1>1. Init => RevealsOpenEarlierCommits
    BY DEF Init, RevealsOpenEarlierCommits, EventsOf
  <1>2. TypeOK /\ LogInv /\ RevealsOpenEarlierCommits /\ [Next]_vars
          => RevealsOpenEarlierCommits'
    BY RevealsStep
  <1> QED
    BY <1>1, <1>2, TypeCorrect, LogCorrect, PTL DEF Spec

--------------------------------------------------------------------------------
\* The reveals of p in the log that the option list places at i.
RevealedAt(p, i) ==
  {k \in EventsOf("VoteRevealed", p) : IsOptionIndex(proposals[p].options, log[k].option, i)}

\* They are finitely many: positions of the log.
LEMMA RevealedAtFinite ==
  ASSUME TypeOK, NEW p, NEW i
  PROVE  IsFiniteSet(RevealedAt(p, i))
  <1>1. Len(log) \in Nat /\ RevealedAt(p, i) \subseteq 1..Len(log)
    BY DEF TypeOK, RevealedAt, EventsOf
  <1>2. IsFiniteSet(1..Len(log))
    BY <1>1, FS_Interval
  <1> QED
    BY <1>1, <1>2, FS_Subset

\* A step that emits no reveal and keeps every option list and tally keeps the
\* two equal.
LEMMA ReplayUndisturbed ==
  ASSUME TypeOK, ReplayedTally,
         UNCHANGED log \/ \E e : e.type # "VoteRevealed" /\ log' = Append(log, e),
         \A p \in ProposalIds :
           \/ /\ proposals'[p].options = proposals[p].options
              /\ proposals'[p].option_counts = proposals[p].option_counts
           \/ /\ EventsOf("VoteRevealed", p) = {}
              /\ \A i \in DOMAIN proposals'[p].option_counts :
                   proposals'[p].option_counts[i] = 0
  PROVE  ReplayedTally'
  <1> SUFFICES ASSUME NEW p \in ProposalIds,
                      NEW i \in DOMAIN proposals'[p].option_counts
               PROVE  proposals'[p].option_counts[i] = Cardinality(RevealedAt(p, i)')
    BY DEF ReplayedTally, RevealedAt
  <1>1. /\ EventsOf("VoteRevealed", p)' = EventsOf("VoteRevealed", p)
        /\ \A k \in EventsOf("VoteRevealed", p) : log'[k] = log[k]
    BY LogAppend DEF TypeOK, EventsOf
  <1>2. CASE /\ proposals'[p].options = proposals[p].options
             /\ proposals'[p].option_counts = proposals[p].option_counts
    <2>1. RevealedAt(p, i)' = RevealedAt(p, i)
      BY <1>1, <1>2 DEF RevealedAt
    <2> QED
      BY <1>2, <2>1 DEF ReplayedTally, RevealedAt
  <1>3. CASE /\ EventsOf("VoteRevealed", p) = {}
             /\ \A j \in DOMAIN proposals'[p].option_counts :
                  proposals'[p].option_counts[j] = 0
    <2>1. RevealedAt(p, i)' = {}
      BY <1>1, <1>3 DEF RevealedAt
    <2> QED
      BY <1>3, <2>1, FS_EmptySet
  <1> QED
    BY <1>2, <1>3

\* reveal_vote adds one event and one vote at the same position.
LEMMA ReplayReveal ==
  ASSUME TypeOK, TallyInv, ReplayedTally, NEW p \in ProposalIds, NEW v \in Voters,
         NEW o \in Options, NEW s \in Salts, RevealVote(p, v, o, s)
  PROVE  ReplayedTally'
  <1> DEFINE e == VoteRevealed(p, v, o)
             n == Len(log) + 1
  <1>1. PICK i \in DOMAIN proposals[p].options :
          /\ IsOptionIndex(proposals[p].options, o, i)
          /\ proposals' = [proposals EXCEPT
               ![p].phase = "Reveal",
               ![p].option_counts = CountVote(proposals[p].option_counts, i)]
    BY DEF RevealVote
  <1>2. log' = Append(log, e)
    BY DEF RevealVote, Emit
  <1>3. e.type = "VoteRevealed" /\ e.proposal = p /\ e.option = o
    BY DEF VoteRevealed
  <1>4. /\ \A q \in ProposalIds \ {p} : proposals'[q] = proposals[q]
        /\ proposals'[p].options = proposals[p].options
        /\ proposals'[p].option_counts = CountVote(proposals[p].option_counts, i)
    BY <1>1 DEF TypeOK, Proposal
  <1> HIDE DEF e
  <1>5. /\ n \notin DOMAIN log
        /\ EventsOf("VoteRevealed", p)' = EventsOf("VoteRevealed", p) \cup {n}
        /\ \A q \in ProposalIds \ {p} :
             EventsOf("VoteRevealed", q)' = EventsOf("VoteRevealed", q)
        /\ \A k \in DOMAIN log : log'[k] = log[k]
        /\ log'[n].option = o
    BY <1>2, <1>3, LogAppend DEF TypeOK, EventsOf
  <1>6. ASSUME NEW q \in ProposalIds \ {p}, NEW j \in DOMAIN proposals[q].option_counts
        PROVE  proposals'[q].option_counts[j] = Cardinality(RevealedAt(q, j)')
    <2>1. RevealedAt(q, j)' = RevealedAt(q, j)
      BY <1>4, <1>5 DEF RevealedAt, EventsOf
    <2> QED
      BY <1>4, <2>1 DEF ReplayedTally, RevealedAt
  <1>7. ASSUME NEW j \in DOMAIN proposals[p].option_counts
        PROVE  CountVote(proposals[p].option_counts, i)[j]
                 = Cardinality(RevealedAt(p, j)')
    <2>1. CASE j = i
      <3>1. RevealedAt(p, j)' = RevealedAt(p, j) \cup {n}
        BY <1>1, <1>4, <1>5, <2>1 DEF RevealedAt, EventsOf
      <3>2. n \notin RevealedAt(p, j)
        BY <1>5 DEF RevealedAt, EventsOf
      <3>3. Cardinality(RevealedAt(p, j)') = Cardinality(RevealedAt(p, j)) + 1
        BY <3>1, <3>2, RevealedAtFinite, FS_AddElement
      <3> QED
        BY <2>1, <3>3 DEF CountVote, ReplayedTally, RevealedAt
    <2>2. CASE j # i
      <3>1. ~IsOptionIndex(proposals[p].options, o, j)
        <4>1. proposals[p].options \in Seq(Options)
          BY DEF TypeOK, Proposal
        <4> QED
          BY <1>1, <2>2, <4>1, OptionIndexUnique
      <3>2. RevealedAt(p, j)' = RevealedAt(p, j)
        BY <1>4, <1>5, <3>1 DEF RevealedAt, EventsOf
      <3> QED
        BY <2>2, <3>2 DEF CountVote, ReplayedTally, RevealedAt
    <2> QED
      BY <2>1, <2>2
  <1>8. DOMAIN proposals'[p].option_counts = DOMAIN proposals[p].option_counts
    BY <1>4 DEF CountVote
  <1> QED
    BY <1>4, <1>6, <1>7, <1>8 DEF ReplayedTally, RevealedAt

\* Every step keeps the tally equal to the replay of the log.
LEMMA ReplayStep ==
  ASSUME TypeOK, TallyInv, LogInv, ReplayedTally, [Next]_vars
  PROVE  ReplayedTally'
  <1>1. CASE QuietStep
    BY <1>1, ReplayUndisturbed DEF QuietStep, Contract!BallotTypes
  <1>2. ASSUME NEW p \in ProposalIds, NEW options \in OptionLists,
               NEW ends \in Deadlines,
               CreateProposal(p, options, ends[1], ends[2])
        PROVE  ReplayedTally'
    <2> DEFINE e == ProposalCreated(p, registry.merkle_root, registry.version)
    <2>1. log' = Append(log, e) /\ e.type # "VoteRevealed"
      BY <1>2 DEF CreateProposal, Emit, ProposalCreated
    <2>2. EventsOf("VoteRevealed", p) = {}
      BY <1>2 DEF CreateProposal, LogInv, Contract!Happened, EventsOf
    <2>3. /\ \A q \in ProposalIds \ {p} : proposals'[q] = proposals[q]
          /\ proposals'[p].option_counts = [i \in 1..Len(options) |-> 0]
      BY <1>2 DEF CreateProposal, TypeOK
    <2> QED
      BY <2>1, <2>2, <2>3, ReplayUndisturbed
  <1>3. ASSUME NEW p \in ProposalIds, EndStep(p)
        PROVE  ReplayedTally'
    <2>1. \E e : e.type # "VoteRevealed" /\ log' = Append(log, e)
      BY <1>3 DEF EndStep, ProposalEnded
    <2>2. \A q \in ProposalIds :
            /\ proposals'[q].options = proposals[q].options
            /\ proposals'[q].option_counts = proposals[q].option_counts
      BY <1>3 DEF EndStep, TypeOK, Proposal
    <2> QED
      BY <2>1, <2>2, ReplayUndisturbed
  <1>4. ASSUME NEW p \in ProposalIds, NEW v \in Voters, NEW c \in Commitments,
               NEW proof \in BOOLEAN, NEW accts \in OptionalAccounts(v),
               CommitVote(p, v, c, proof, accts)
        PROVE  ReplayedTally'
    <2>1. \E e : e.type # "VoteRevealed" /\ log' = Append(log, e)
      BY <1>4 DEF CommitVote, Emit, VoteCommitted
    <2>2. UNCHANGED proposals
      BY <1>4 DEF CommitVote
    <2> QED
      BY <2>1, <2>2, ReplayUndisturbed
  <1> QED
    BY <1>1, <1>2, <1>3, <1>4, ReplayReveal, StepCases

\* Counting the VoteRevealed events of the log gives the stored tally: a reader
\* of the events needs nothing else of the chain.
THEOREM ReplayCorrect == Spec => []ReplayedTally
  <1>1. Init => TallyInv /\ ReplayedTally
    BY DEF Init, TallyInv, TallyMatchesReveals, ReplayedTally, NoProposal, NoCommitment
  <1>2. TypeOK /\ TallyInv /\ [Next]_vars => TallyInv'
    BY TallyStep
  <1>3. TypeOK /\ TallyInv /\ LogInv /\ ReplayedTally /\ [Next]_vars => ReplayedTally'
    BY ReplayStep
  <1> QED
    BY <1>1, <1>2, <1>3, TypeCorrect, LogCorrect, PTL DEF Spec

--------------------------------------------------------------------------------
\* An existing proposal pins this version and root.
Pinned(version, root) ==
  \E p \in ProposalIds :
    /\ proposals[p].phase # "Unallocated"
    /\ proposals[p].electorate_registry_version = version
    /\ proposals[p].electorate_merkle_root = root

\* An audit event of the registry carries this version and root.
Announced(version, root) ==
  \E k \in DOMAIN log :
    /\ log[k].type = "EligibleVotersRootUpdated"
    /\ log[k].registry_version = version
    /\ log[k].merkle_root = root

Names(version, root) == Pinned(version, root) \/ Announced(version, root)

\* No version is named before the registry gets to it, the current one is named
\* with the current root, and an older one keeps its root.
VersionInv ==
  \A version \in Nat, root \in SUBSET Voters :
    Names(version, root) =>
      /\ version \in 1..registry.version
      /\ version = registry.version => root = registry.merkle_root
      /\ \A other \in SUBSET Voters : Names(version, other) => other = root

\* A step names nothing new, or the registry's new version and root.
LEMMA NamesStep ==
  ASSUME TypeOK, [Next]_vars
  PROVE  \A version, root :
           Names(version, root)' =>
             \/ Names(version, root)
             \/ /\ registry'.version # 0
                /\ version = registry'.version
                /\ root = registry'.merkle_root
  <1> USE DEF TypeOK
  <1> DEFINE NamesPost ==
        \A version, root :
          Names(version, root)' =>
            \/ Names(version, root)
            \/ /\ registry'.version # 0
               /\ version = registry'.version
               /\ root = registry'.merkle_root
  <1>1. ASSUME UNCHANGED <<proposals, log>>
        PROVE  \A version, root : Names(version, root)' => Names(version, root)
    BY <1>1 DEF Names, Pinned, Announced
  <1>2. ASSUME NEW e, log' = Append(log, e), e.type # "EligibleVotersRootUpdated",
               \A p \in ProposalIds :
                 proposals'[p].phase # "Unallocated" =>
                   /\ proposals[p].phase # "Unallocated"
                   /\ proposals'[p].electorate_registry_version
                        = proposals[p].electorate_registry_version
                   /\ proposals'[p].electorate_merkle_root
                        = proposals[p].electorate_merkle_root
        PROVE  \A version, root : Names(version, root)' => Names(version, root)
    <2>1. \A version, root : Pinned(version, root)' => Pinned(version, root)
      BY <1>2 DEF Pinned
    <2>2. \A version, root : Announced(version, root)' => Announced(version, root)
      BY <1>2, LogAppend DEF Announced
    <2> QED
      BY <2>1, <2>2 DEF Names
  <1>3. CASE Tick \/ UNCHANGED vars
    BY <1>1, <1>3 DEF Tick, vars
  <1>4. ASSUME NEW a \in Admins, NEW root \in Electorates, UpdateMerkleRoot(a, root)
        PROVE  NamesPost
    <2> DEFINE e == RootUpdated(root, NextVersion(registry.version))
    <2>1. log' = Append(log, e) /\ UNCHANGED proposals
      BY <1>4 DEF UpdateMerkleRoot, Emit
    <2>2. e.registry_version = registry'.version /\ e.merkle_root = registry'.merkle_root
      BY <1>4 DEF UpdateMerkleRoot, RootUpdated, VoterRegistry
    <2>3. registry'.version # 0
      BY <1>4 DEF UpdateMerkleRoot, NextVersion, VoterRegistry
    <2> HIDE DEF e
    <2> QED
      <3>1. \A n, x :
              Announced(n, x)' =>
                \/ Announced(n, x)
                \/ n = e.registry_version /\ x = e.merkle_root
        BY <2>1, LogAppend DEF Announced
      <3>2. \A n, x : Pinned(n, x)' => Pinned(n, x)
        BY <2>1 DEF Pinned
      <3> QED
        BY <2>2, <2>3, <3>1, <3>2 DEF Names
  <1>5. ASSUME NEW a \in Admins, NEW v \in Grantable,
               GrantEligibility(a, v) \/ RevokeEligibility(a, v)
        PROVE  NamesPost
    BY <1>2, <1>5 DEF GrantEligibility, RevokeEligibility, Emit, EligibilityChanged
  <1>6. CASE RegistryStep
    BY <1>1, <1>4, <1>5, <1>6 DEF RegistryStep, InitializeRegistry, TransferAuthority
  <1>7. ASSUME NEW p \in ProposalIds, NEW options \in OptionLists,
               NEW ends \in Deadlines,
               CreateProposal(p, options, ends[1], ends[2])
        PROVE  NamesPost
    <2> DEFINE e == ProposalCreated(p, registry.merkle_root, registry.version)
    <2>1. log' = Append(log, e)
      BY <1>7 DEF CreateProposal, Emit
    <2>2. e.type # "EligibleVotersRootUpdated"
      BY DEF ProposalCreated
    <2>3. /\ \A q \in ProposalIds \ {p} : proposals'[q] = proposals[q]
          /\ proposals'[p].electorate_registry_version = registry.version
          /\ proposals'[p].electorate_merkle_root = registry.merkle_root
      BY <1>7 DEF CreateProposal
    <2>4. UNCHANGED registry /\ registry.version # 0
      BY <1>7 DEF CreateProposal, RegistryExists
    <2> HIDE DEF e
    <2> QED
      <3>1. \A version, root : Announced(version, root)' => Announced(version, root)
        BY <2>1, <2>2, LogAppend DEF Announced
      <3>2. \A version, root :
              Pinned(version, root)' =>
                \/ Pinned(version, root)
                \/ version = registry.version /\ root = registry.merkle_root
        BY <2>3 DEF Pinned
      <3> QED
        BY <2>4, <3>1, <3>2 DEF Names
  <1>8. ASSUME NEW p \in ProposalIds, EndStep(p)
        PROVE  NamesPost
    <2>1. PICK end \in {<<"Closed", "ProposalClosed">>, <<"Finalized", "ProposalFinalized">>} :
            /\ IsActive(proposals[p].phase)
            /\ proposals' = [proposals EXCEPT ![p].phase = end[1]]
            /\ log' = Append(log, ProposalEnded(end[2], p))
      BY <1>8 DEF EndStep
    <2>2. ProposalEnded(end[2], p).type # "EligibleVotersRootUpdated"
      BY DEF ProposalEnded
    <2>3. \A q \in ProposalIds :
            /\ proposals'[q].phase # "Unallocated" => proposals[q].phase # "Unallocated"
            /\ proposals'[q].electorate_registry_version
                 = proposals[q].electorate_registry_version
            /\ proposals'[q].electorate_merkle_root = proposals[q].electorate_merkle_root
      BY <2>1 DEF Proposal, IsActive
    <2> QED
      BY <1>2, <2>1, <2>2, <2>3
  <1>9. ASSUME NEW p \in ProposalIds, NEW v \in Voters, NEW c \in Commitments,
               NEW proof \in BOOLEAN, NEW accts \in OptionalAccounts(v),
               CommitVote(p, v, c, proof, accts)
        PROVE  NamesPost
    BY <1>2, <1>9 DEF CommitVote, Emit, VoteCommitted
  <1>10. ASSUME NEW p \in ProposalIds, NEW v \in Voters, NEW o \in Options,
                NEW s \in Salts, RevealVote(p, v, o, s)
         PROVE  NamesPost
    <2>1. log' = Append(log, VoteRevealed(p, v, o))
      BY <1>10 DEF RevealVote, Emit
    <2>2. VoteRevealed(p, v, o).type # "EligibleVotersRootUpdated"
      BY DEF VoteRevealed
    <2>3. \A q \in ProposalIds :
            /\ proposals'[q].phase # "Unallocated" => proposals[q].phase # "Unallocated"
            /\ proposals'[q].electorate_registry_version
                 = proposals[q].electorate_registry_version
            /\ proposals'[q].electorate_merkle_root = proposals[q].electorate_merkle_root
      <3>1. PICK i \in DOMAIN proposals[p].options :
              proposals' = [proposals EXCEPT
                ![p].phase = "Reveal",
                ![p].option_counts = CountVote(proposals[p].option_counts, i)]
        BY <1>10 DEF RevealVote
      <3>2. proposals[p].phase # "Unallocated"
        BY <1>10 DEF RevealVote, RevealOpen, IsActive
      <3> QED
        BY <3>1, <3>2 DEF Proposal
    <2> QED
      BY <1>2, <2>1, <2>2, <2>3
  <1>11. CASE ProposalStep
    BY <1>7, <1>8, <1>11 DEF ProposalStep, CloseProposal, FinalizeProposal, EndStep, Emit
  <1>12. CASE VoteStep
    BY <1>9, <1>10, <1>12 DEF VoteStep
  <1>13. NamesPost
    BY <1>3, <1>6, <1>11, <1>12 DEF Next
  <1> QED
    BY <1>13

\* The registry's version never falls, and keeps its root while it stands.
LEMMA RegistryGrows ==
  ASSUME TypeOK, [Next]_vars
  PROVE  /\ registry'.version >= registry.version
         /\ registry'.version = registry.version
              => registry'.merkle_root = registry.merkle_root
  <1> USE DEF TypeOK, VoterRegistry
  <1>1. CASE RegistryStep
    <2>1. ASSUME NEW a \in Admins, NEW root \in Electorates, InitializeRegistry(a, root)
          PROVE  registry'.version > registry.version
      BY <2>1 DEF InitializeRegistry, RegistryExists
    <2>2. ASSUME NEW a \in Admins, NEW root \in Electorates, UpdateMerkleRoot(a, root)
          PROVE  registry'.version > registry.version
      BY <2>2, ConstantsAssumption DEF UpdateMerkleRoot, NextVersion
    <2>3. ASSUME NEW a \in Admins, NEW b \in Admins, TransferAuthority(a, b)
          PROVE  /\ registry'.version = registry.version
                 /\ registry'.merkle_root = registry.merkle_root
      BY <2>3 DEF TransferAuthority
    <2>4. registry.version \in Nat /\ registry'.version \in Nat
      BY RegistryStepType, ConstantsAssumption, <1>1
    <2> QED
      BY <1>1, <2>1, <2>2, <2>3, <2>4
         DEF RegistryStep, GrantEligibility, RevokeEligibility
  <1>2. CASE UNCHANGED registry
    BY <1>2
  <1>3. CASE Tick \/ ProposalStep \/ VoteStep \/ UNCHANGED vars
    BY <1>2, <1>3 DEF Tick, ProposalStep, CreateProposal, CloseProposal,
       FinalizeProposal, VoteStep, CommitVote, RevealVote, vars
  <1> QED
    BY <1>1, <1>3 DEF Next

\* A version and a root named together before and after the step agree.
LEMMA VersionStep ==
  ASSUME TypeOK, TypeOK', VersionInv, [Next]_vars
  PROVE  VersionInv'
  <1>1. registry.version \in Nat /\ registry'.version \in Nat
    BY ConstantsAssumption DEF TypeOK, VoterRegistry
  <1>2. ASSUME NEW version \in Nat, NEW root \in SUBSET Voters, Names(version, root)'
        PROVE  /\ version \in 1..registry'.version
               /\ version = registry'.version => root = registry'.merkle_root
               /\ \/ Names(version, root)
                  \/ version = registry'.version
    <2>1. CASE Names(version, root)
      BY <1>1, <2>1, RegistryGrows DEF VersionInv
    <2>2. CASE ~Names(version, root)
      BY <1>1, <1>2, <2>2, NamesStep
    <2> QED
      BY <2>1, <2>2
  <1>3. ASSUME NEW version \in Nat, NEW root \in SUBSET Voters,
               NEW other \in SUBSET Voters,
               Names(version, root)', Names(version, other)'
        PROVE  other = root
    <2>1. CASE version = registry'.version
      BY <1>2, <1>3, <2>1
    <2>2. CASE version # registry'.version
      BY <1>2, <1>3, <2>2 DEF VersionInv
    <2> QED
      BY <2>1, <2>2
  <1> QED
    BY <1>2, <1>3 DEF VersionInv

\* A registry version stands for one electorate, across the ballots that pin it
\* and the audit events that announce it.
THEOREM VersionsCorrect == Spec => []VersionNamesElectorate
  <1>1. Init => VersionInv
    BY DEF Init, VersionInv, Names, Pinned, Announced, NoProposal
  <1>2. TypeOK /\ TypeOK' /\ VersionInv /\ [Next]_vars => VersionInv'
    BY VersionStep
  <1>3. TypeOK /\ VersionInv => VersionNamesElectorate
    <2> SUFFICES ASSUME TypeOK, VersionInv, NEW p \in ProposalIds,
                        proposals[p].phase # "Unallocated"
                 PROVE  /\ \A q \in ProposalIds :
                             /\ proposals[q].phase # "Unallocated"
                             /\ proposals[q].electorate_registry_version
                                  = proposals[p].electorate_registry_version
                             => proposals[q].electorate_merkle_root
                                  = proposals[p].electorate_merkle_root
                        /\ \A k \in DOMAIN log :
                             /\ log[k].type = "EligibleVotersRootUpdated"
                             /\ log[k].registry_version
                                  = proposals[p].electorate_registry_version
                             => log[k].merkle_root = proposals[p].electorate_merkle_root
      BY DEF VersionNamesElectorate
    <2> DEFINE version == proposals[p].electorate_registry_version
               root == proposals[p].electorate_merkle_root
    <2>1. version \in Nat /\ root \in SUBSET Voters /\ Names(version, root)
      BY DEF TypeOK, Proposal, Names, Pinned
    <2>2. \A other \in SUBSET Voters : Names(version, other) => other = root
      BY <2>1 DEF VersionInv
    <2>3. \A q \in ProposalIds : proposals[q].electorate_merkle_root \in SUBSET Voters
      BY DEF TypeOK, Proposal
    <2>4. \A k \in DOMAIN log :
            log[k].type = "EligibleVotersRootUpdated" => log[k].merkle_root \in SUBSET Voters
      <3> SUFFICES ASSUME NEW k \in DOMAIN log, log[k].type = "EligibleVotersRootUpdated"
                   PROVE  log[k].merkle_root \in SUBSET Voters
        OBVIOUS
      <3>1. log[k] \in Events
        BY DEF TypeOK
      <3> QED
        BY <3>1 DEF Events
    <2> QED
      BY <2>2, <2>3, <2>4 DEF Names, Pinned, Announced
  <1> QED
    BY <1>1, <1>2, <1>3, TypeCorrect, PTL DEF Spec

--------------------------------------------------------------------------------
\* A commitment that is not zero is still the one its voter's account holds.
FinalInv ==
  /\ NonzeroCommitsAreFinal
  /\ \A p \in ProposalIds : \A i \in EventsOf("VoteCommitted", p) :
       log[i].commitment # ZERO =>
         commitments[p][log[i].voter].commitment = log[i].commitment

LEMMA FinalStep ==
  ASSUME TypeOK, FinalInv, [Next]_vars
  PROVE  FinalInv'
  <1>1. log \in Seq(Events)
    BY DEF TypeOK
  <1>2. ASSUME NEW p \in ProposalIds, NEW i \in EventsOf("VoteCommitted", p)
        PROVE  log[i] \in Events /\ log[i].voter \in Voters
    <2>1. log[i] \in Events /\ log[i].type = "VoteCommitted"
      BY <1>1 DEF EventsOf
    <2> QED
      BY <2>1 DEF Events
  <1>3. ASSUME UNCHANGED log, \A p \in ProposalIds, v \in Voters :
                 commitments'[p][v].commitment = commitments[p][v].commitment
        PROVE  FinalInv'
    BY <1>2, <1>3 DEF FinalInv, NonzeroCommitsAreFinal, EventsOf
  <1>4. ASSUME NEW e, log' = Append(log, e), e.type # "VoteCommitted",
               \A p \in ProposalIds, v \in Voters :
                 commitments'[p][v].commitment = commitments[p][v].commitment
        PROVE  FinalInv'
    <2>1. \A p \in ProposalIds :
            /\ EventsOf("VoteCommitted", p)' = EventsOf("VoteCommitted", p)
            /\ \A i \in EventsOf("VoteCommitted", p) : log'[i] = log[i]
      BY <1>1, <1>4, LogAppend DEF EventsOf
    <2>2. NonzeroCommitsAreFinal'
      BY <2>1 DEF FinalInv, NonzeroCommitsAreFinal
    <2>3. ASSUME NEW p \in ProposalIds, NEW i \in EventsOf("VoteCommitted", p)',
                 log'[i].commitment # ZERO
          PROVE  commitments'[p][log'[i].voter].commitment = log'[i].commitment
      <3>1. i \in EventsOf("VoteCommitted", p) /\ log'[i] = log[i]
        BY <2>1
      <3>2. log[i].voter \in Voters
        BY <1>2, <3>1
      <3> QED
        BY <1>4, <2>3, <3>1, <3>2 DEF FinalInv
    <2> QED
      BY <2>2, <2>3 DEF FinalInv
  <1>5. CASE QuietStep
    <2>1. "VoteCommitted" \in Contract!BallotTypes
      BY DEF Contract!BallotTypes
    <2> QED
      BY <1>3, <1>4, <1>5, <2>1 DEF QuietStep
  <1>6. ASSUME NEW q \in ProposalIds, NEW options \in OptionLists, NEW ends \in Deadlines,
               CreateProposal(q, options, ends[1], ends[2])
        PROVE  FinalInv'
    BY <1>4, <1>6 DEF CreateProposal, Emit, ProposalCreated
  <1>7. ASSUME NEW q \in ProposalIds, EndStep(q)
        PROVE  FinalInv'
    BY <1>4, <1>7 DEF EndStep, ProposalEnded
  <1>8. ASSUME NEW q \in ProposalIds, NEW w \in Voters, NEW o \in Options,
               NEW s \in Salts, RevealVote(q, w, o, s)
        PROVE  FinalInv'
    <2>1. \A p \in ProposalIds, v \in Voters :
            commitments'[p][v].commitment = commitments[p][v].commitment
      BY <1>8 DEF RevealVote, TypeOK, CommitmentAccount
    <2>2. log' = Append(log, VoteRevealed(q, w, o))
          /\ VoteRevealed(q, w, o).type # "VoteCommitted"
      BY <1>8 DEF RevealVote, Emit, VoteRevealed
    <2> QED
      BY <1>4, <2>1, <2>2
  <1>9. ASSUME NEW q \in ProposalIds, NEW w \in Voters, NEW c \in Commitments,
               NEW proof \in BOOLEAN, NEW accts \in OptionalAccounts(w),
               CommitVote(q, w, c, proof, accts)
        PROVE  FinalInv'
    <2> DEFINE e == VoteCommitted(q, w, c)
               k == Len(log) + 1
    <2>1. log' = Append(log, e) /\ commitments[q][w].commitment = ZERO
      BY <1>9 DEF CommitVote, Emit, AlreadyCommitted
    <2>2. e.type = "VoteCommitted" /\ e.proposal = q /\ e.voter = w /\ e.commitment = c
      BY DEF VoteCommitted
    <2>3. \A p \in ProposalIds, v \in Voters :
            commitments'[p][v].commitment =
              IF p = q /\ v = w THEN c ELSE commitments[p][v].commitment
      BY <1>9 DEF CommitVote, TypeOK
    <2> HIDE DEF e
    <2>4. /\ \A p \in ProposalIds :
               EventsOf("VoteCommitted", p)' =
                 IF p = q THEN EventsOf("VoteCommitted", p) \cup {k}
                          ELSE EventsOf("VoteCommitted", p)
          /\ \A i \in DOMAIN log : log'[i] = log[i] /\ i < k
          /\ log'[k] = e
      BY <1>1, <2>1, <2>2, LogAppend DEF EventsOf
    <2>5. \A p \in ProposalIds : \A i \in EventsOf("VoteCommitted", p) :
            i \in DOMAIN log /\ i \in Nat
      BY <1>1 DEF EventsOf
    <2>6. k \in Nat
      BY <1>1
    <2> HIDE DEF k
    <2>7. \A i \in EventsOf("VoteCommitted", q) :
            log[i].voter = w => log[i].commitment = ZERO
      BY <2>1 DEF FinalInv
    <2>8. ASSUME NEW p \in ProposalIds, NEW i \in EventsOf("VoteCommitted", p)',
                 NEW j \in EventsOf("VoteCommitted", p)',
                 log'[i].voter = log'[j].voter, i < j
          PROVE  log'[i].commitment = ZERO
      <3>1. i \in EventsOf("VoteCommitted", p) /\ log'[i] = log[i]
        BY <2>4, <2>5, <2>6, <2>8
      <3>2. CASE j \in EventsOf("VoteCommitted", p)
        BY <2>4, <2>5, <2>8, <3>1, <3>2 DEF FinalInv, NonzeroCommitsAreFinal
      <3>3. CASE j \notin EventsOf("VoteCommitted", p)
        BY <2>2, <2>4, <2>7, <2>8, <3>1, <3>3
      <3> QED
        BY <3>2, <3>3
    <2>9. ASSUME NEW p \in ProposalIds, NEW i \in EventsOf("VoteCommitted", p)',
                 log'[i].commitment # ZERO
          PROVE  commitments'[p][log'[i].voter].commitment = log'[i].commitment
      <3>1. CASE i \in EventsOf("VoteCommitted", p)
        <4>1. log'[i] = log[i] /\ log[i].voter \in Voters
          BY <1>2, <2>4, <2>5, <3>1
        <4>2. ~(p = q /\ log[i].voter = w)
          BY <2>7, <2>9, <3>1, <4>1
        <4> QED
          BY <2>3, <2>9, <3>1, <4>1, <4>2 DEF FinalInv
      <3>2. CASE i \notin EventsOf("VoteCommitted", p)
        BY <2>2, <2>3, <2>4, <2>9, <3>2
      <3> QED
        BY <3>1, <3>2
    <2> QED
      BY <2>8, <2>9 DEF FinalInv, NonzeroCommitsAreFinal
  <1> QED
    BY <1>5, <1>6, <1>7, <1>8, <1>9, StepCases

\* Whatever the calls and their order, only a zero commitment is followed by another
\* one of the same voter: what commit_vote promises, up to the zero bytes.
THEOREM CommitsFinal == Spec => []NonzeroCommitsAreFinal
  <1>1. Init => FinalInv
    BY DEF Init, FinalInv, NonzeroCommitsAreFinal, EventsOf
  <1>2. TypeOK /\ FinalInv /\ [Next]_vars => FinalInv'
    BY FinalStep
  <1>3. FinalInv => NonzeroCommitsAreFinal
    BY DEF FinalInv
  <1> QED
    BY <1>1, <1>2, <1>3, TypeCorrect, PTL DEF Spec
================================================================================
