-------------------------- MODULE OperatorToolsProofs --------------------------
(***************************************************************************)
(* Proofs about OperatorTools for every value of its constants.            *)
(*                                                                         *)
(* What the tools do to the chain is what the program allows: Program is   *)
(* the program called with any arguments of their types, and every step of *)
(* the tools is a step of it.  So the theorems about the program hold of   *)
(* the tools' behaviours, and its lemmas of the tools' steps.              *)
(***************************************************************************)
EXTENDS OperatorTools, TLAPS

Program ==
  INSTANCE VotingLogProofs WITH OptionLists <- Seq(Options), Deadlines <- Nat \X Nat,
                                Electorates <- SUBSET Voters

\* What ConstantsAssumption says of Program.
LEMMA ProgramConstants ==
  /\ Program!IsFiniteSet(Voters)
  /\ Grantable \subseteq Voters
  /\ Seq(Options) \subseteq Seq(Options)
  /\ Nat \X Nat \subseteq Nat \X Nat
  /\ SUBSET Voters \subseteq SUBSET Voters
  /\ ZERO \notin Program!Hashes
  /\ NONE \notin ProposalIds \cup Admins
  /\ MaxU64 \in Nat \ {0}
  /\ MaxSlot \in Nat
  /\ MaxTime \in Nat
  /\ MaxEvents \in Nat
  BY ConstantsAssumption DEF Hashes, Program!Hashes, IsFiniteSet, Program!IsFiniteSet

\* The two have the same accounts.
LEMMA SameTypes == Program!TypeOK <=> TypeOK
  BY DEF TypeOK, Program!TypeOK, VoterRegistry, Program!VoterRegistry,
     Proposal, Program!Proposal, Phases, Program!Phases,
     CommitmentAccount, Program!CommitmentAccount, Commitments, Program!Commitments,
     Hashes, Program!Hashes, Events, Program!Events

ChainStep == [Program!Next]_(Program!vars)

\* The registry instructions, whatever the root.
LEMMA RegistryCalls ==
  ASSUME NEW a \in Admins
  PROVE  /\ \A root \in SUBSET Voters :
              InitializeRegistry(a, root) \/ UpdateMerkleRoot(a, root) => ChainStep
         /\ \A v \in Grantable :
              GrantEligibility(a, v) \/ RevokeEligibility(a, v) => ChainStep
  <1> USE DEF IsAuthority, Program!IsAuthority, RegistryExists, Program!RegistryExists,
              Emit, Program!Emit, ChainStep, Program!Next, Program!RegistryStep
  <1>1. ASSUME NEW root \in SUBSET Voters,
               InitializeRegistry(a, root) \/ UpdateMerkleRoot(a, root)
        PROVE  ChainStep
    BY <1>1 DEF InitializeRegistry, Program!InitializeRegistry, UpdateMerkleRoot,
       Program!UpdateMerkleRoot, NextVersion, Program!NextVersion,
       RootUpdated, Program!RootUpdated
  <1>2. ASSUME NEW v \in Grantable, GrantEligibility(a, v) \/ RevokeEligibility(a, v)
        PROVE  ChainStep
    BY <1>2 DEF GrantEligibility, Program!GrantEligibility, RevokeEligibility,
       Program!RevokeEligibility, EligibilityChanged, Program!EligibilityChanged
  <1> QED
    BY <1>1, <1>2

\* The proposal instructions, whatever the options and deadlines.
LEMMA ProposalCalls ==
  ASSUME NEW p \in ProposalIds
  PROVE  /\ \A options \in Seq(Options), c, d \in Nat :
              CreateProposal(p, options, c, d) => ChainStep
         /\ \A a \in Admins : CloseProposal(a, p) => ChainStep
         /\ FinalizeProposal(p) => ChainStep
  <1> USE DEF IsActive, Program!IsActive, Emit, Program!Emit,
              ChainStep, Program!Next, Program!ProposalStep
  <1>1. ASSUME NEW options \in Seq(Options), NEW c \in Nat, NEW d \in Nat,
               CreateProposal(p, options, c, d)
        PROVE  ChainStep
    <2>1. Program!CreateProposal(p, options, <<c, d>>[1], <<c, d>>[2])
      BY <1>1 DEF CreateProposal, Program!CreateProposal, RegistryExists,
         Program!RegistryExists, ValidOptions, Program!ValidOptions, MAX_OPTIONS,
         Program!MAX_OPTIONS, NoActiveProposal, Program!NoActiveProposal, SnapshotSlot,
         Program!SnapshotSlot, ProposalCreated, Program!ProposalCreated
    <2>2. <<c, d>> \in Nat \X Nat
      OBVIOUS
    <2> QED
      BY <2>1, <2>2
  <1> USE DEF ClearActiveIfMatch, Program!ClearActiveIfMatch,
              ProposalEnded, Program!ProposalEnded
  <1>2. ASSUME NEW a \in Admins, CloseProposal(a, p)
        PROVE  ChainStep
    BY <1>2 DEF CloseProposal, Program!CloseProposal, IsAuthority, Program!IsAuthority,
       RegistryExists, Program!RegistryExists
  <1>3. ASSUME FinalizeProposal(p)
        PROVE  ChainStep
    BY <1>3 DEF FinalizeProposal, Program!FinalizeProposal, RevealEnded,
       Program!RevealEnded
  <1> QED
    BY <1>1, <1>2, <1>3

\* The vote instructions.
LEMMA VoteCalls ==
  ASSUME NEW p \in ProposalIds, NEW v \in Voters, NEW o \in Options, NEW s \in Salts,
         NEW proof \in BOOLEAN,
         \/ CommitVote(p, v, VoteCommitment(p, s, v, o), proof, {})
         \/ RevealVote(p, v, o, s)
  PROVE  ChainStep
  <1> DEFINE c == VoteCommitment(p, s, v, o)
  <1>1. \/ Program!CommitVote(p, v, c, proof, {}) \/ Program!RevealVote(p, v, o, s)
    BY DEF CommitVote, Program!CommitVote, CommitOpen, Program!CommitOpen,
       IsVoterEligible, Program!IsVoterEligible, GrantCounts, Program!GrantCounts,
       AlreadyCommitted, Program!AlreadyCommitted, VoteCommitted, Program!VoteCommitted,
       RevealVote, Program!RevealVote, RevealOpen, Program!RevealOpen,
       IsActive, Program!IsActive, AlreadyRevealed, Program!AlreadyRevealed,
       OpensCommitment, Program!OpensCommitment, VoteCommitment, Program!VoteCommitment,
       IsOptionIndex, Program!IsOptionIndex, CountFits, Program!CountFits,
       CountVote, Program!CountVote, Emit, Program!Emit, VoteRevealed, Program!VoteRevealed
  <1>2. c \in Program!Commitments
    BY DEF VoteCommitment, Program!Commitments, Program!Hashes
  <1>3. {} \in Program!OptionalAccounts(v)
    BY DEF Program!OptionalAccounts
  <1> QED
    BY <1>1, <1>2, <1>3 DEF ChainStep, Program!Next, Program!VoteStep

--------------------------------------------------------------------------------
(* The steps of a run.                                                     *)

\* What a process is started with: its list and, for a lifecycle, flags that fit
\* each other.
Bootstrap(list) == [Idle EXCEPT !.pc = "exists", !.list = list, !.since = clock]

Lifecycle(list, p, o, window) ==
  [Idle EXCEPT !.pc = "exists", !.cmd = "lifecycle", !.list = list, !.proposal = p,
               !.option = o, !.window = window, !.since = clock]

Begins(r) ==
  /\ run[r].pc \in Stopped
  /\ \E list \in SUBSET Voters :
       \/ run'[r] = Bootstrap(list)
       \/ \E p \in ProposalIds, o \in OptionFlags, window \in Windows :
            ValidWindow(window) /\ run'[r] = Lifecycle(list, p, o, window)

\* The calls before the ballot of r.
Prepares(r) ==
  \/ run[r].pc = "exists" /\ run'[r] \in {At(r, "update"), At(r, "init")}
  \/ run[r].pc = "init" /\ run'[r] = At(r, "update")
  \/ run[r].pc = "update" /\ run'[r] = At(r, AfterUpdate(r))
  \/ /\ run[r].pc = "config"
     /\ active_proposal # NONE
     /\ run'[r] = [At(r, "close") EXCEPT !.active = active_proposal]
  \/ run[r].pc \in {"config", "close"} /\ run'[r] = Prepared(r)

\* The successful calls of the ballot of r, and the ends of its waits.
Votes(r) ==
  \/ /\ run[r].pc = "create"
     /\ CreateProposal(run[r].proposal, LifecycleOptions, run[r].commit_ends_at,
                       run[r].reveal_ends_at)
     /\ run'[r] = At(r, "commit")
  \/ \E s \in Salts :
       /\ run[r].pc = "commit"
       /\ CommitVote(run[r].proposal, Authority(r),
                     VoteCommitment(run[r].proposal, s, Authority(r), run[r].option),
                     ProofFits(r), {})
       /\ run'[r] = [WaitFor(r, "wait_reveal", run[r].commit_ends_at) EXCEPT !.salt = s]
  \/ /\ run[r].pc = "wait_reveal"
     /\ clock >= run[r].since
     /\ UNCHANGED vars
     /\ run'[r] = At(r, "reveal")
  \/ /\ run[r].pc = "reveal"
     /\ RevealVote(run[r].proposal, Authority(r), run[r].option, run[r].salt)
     /\ run'[r] = WaitFor(r, "wait_finalize", run[r].reveal_ends_at)
  \/ /\ run[r].pc = "wait_finalize"
     /\ clock >= run[r].since
     /\ UNCHANGED vars
     /\ run'[r] = At(r, "finalize")
  \/ /\ run[r].pc = "finalize"
     /\ FinalizeProposal(run[r].proposal)
     /\ run'[r] = At(r, "done")

\* The operators' clock stands still, or moves while no call takes too long.
ClockMoves ==
  \/ UNCHANGED clock
  \/ /\ UNCHANGED <<vars, run>>
     /\ clock' = clock + 1
     /\ clock < now + MaxLag
     /\ \A r \in Runs : run[r].pc \notin Stopped => clock < run[r].since + MaxCallTime

RunMoves(r) == Begins(r) \/ run'[r] = Failed(r) \/ Prepares(r) \/ Votes(r)

\* Every step leaves a run alone or moves it, at a standstill of the clock.
LEMMA RunSteps ==
  ASSUME ToolsInv, [SystemNext]_allVars, NEW r \in Runs
  PROVE  run'[r] = run[r] \/ (RunMoves(r) /\ UNCHANGED clock)
  <1> DEFINE Goal == run'[r] = run[r] \/ (RunMoves(r) /\ UNCHANGED clock)
  <1> USE DEF ToolsInv, SystemTypeOK
  <1>1. ASSUME NEW q \in Runs, Start(q)
        PROVE  Goal
    <2>1. \A list \in Lists \cup {WrittenList(q)} : list \in SUBSET Voters
      BY ToolsAssumption DEF WrittenList, Authority
    <2>2. PICK list \in Lists \cup {WrittenList(q)} :
            \/ StartBootstrap(q, list)
            \/ \E p \in ProposalIds, o \in OptionFlags, window \in Windows :
                 StartLifecycle(q, list, p, o, window)
      BY <1>1 DEF Start
    <2>3. CASE StartBootstrap(q, list)
      BY <2>1, <2>3 DEF StartBootstrap, RunMoves, Begins, Bootstrap
    <2>4. ASSUME NEW p \in ProposalIds, NEW o \in OptionFlags, NEW window \in Windows,
                 StartLifecycle(q, list, p, o, window)
          PROVE  Goal
      <3>1. CASE q # r
        BY <2>4, <3>1 DEF StartLifecycle
      <3>2. CASE q = r
        <4>1. Begins(r) /\ UNCHANGED clock
          BY <2>1, <2>4, <3>2 DEF StartLifecycle, Begins, Lifecycle
        <4> QED
          BY <4>1 DEF RunMoves
      <3> QED
        BY <3>1, <3>2
    <2> QED
      BY <2>2, <2>3, <2>4
  <1>2. ASSUME NEW q \in Runs, Crash(q)
        PROVE  Goal
    BY <1>2 DEF Crash, RunMoves
  <1>3. ASSUME NEW q \in Runs, Step(q)
        PROVE  Goal
    <2>1. UNCHANGED clock
      BY <1>3 DEF Step
    <2>2. CASE CheckRegistry(q)
      BY <2>1, <2>2 DEF CheckRegistry, RunMoves, Prepares
    <2>3. CASE InitializeIfNeeded(q)
      BY <2>1, <2>3 DEF InitializeIfNeeded, Call, RunMoves, Prepares
    <2>4. CASE UpdateRoot(q)
      BY <2>1, <2>4 DEF UpdateRoot, Call, RunMoves, Prepares
    <2>5. CASE FetchConfig(q)
      BY <2>1, <2>5 DEF FetchConfig, RunMoves, Prepares
    <2>6. CASE CloseActive(q)
      BY <2>1, <2>6 DEF CloseActive, AfterFailedClose, Call, RunMoves, Prepares
    <2>7. CASE Create(q)
      BY <2>1, <2>7 DEF Create, Call, RunMoves, Votes
    <2>8. CASE Commit(q)
      BY <2>1, <2>8 DEF Commit, Call, RunMoves, Votes
    <2>9. CASE Wake(q)
      BY <2>1, <2>9 DEF Wake, Waits, RunMoves, Votes
    <2>10. CASE Reveal(q)
      BY <2>1, <2>10 DEF Reveal, AfterFailedReveal, Call, RunMoves, Votes
    <2>11. CASE Finalize(q)
      BY <2>1, <2>11 DEF Finalize, Call, RunMoves, Votes
    <2> QED
      BY <1>3, <2>2, <2>3, <2>4, <2>5, <2>6, <2>7, <2>8, <2>9, <2>10, <2>11 DEF Step
  <1>4. CASE AdminCommand \/ OthersFinalize \/ ChainTick \/ ClockTick \/ UNCHANGED allVars
    BY <1>4 DEF AdminCommand, OthersFinalize, ChainTick, ClockTick, allVars, tools
  <1>5. Goal
    BY <1>1, <1>2, <1>3, <1>4 DEF SystemNext
  <1> QED
    BY <1>5

\* Every step of the tools and of the clocks is a step of the program.
LEMMA ChainSteps ==
  ASSUME ToolsInv, [SystemNext]_allVars
  PROVE  ChainStep
  <1> USE DEF ToolsInv, SystemTypeOK
  <1>1. CASE UNCHANGED vars
    BY <1>1 DEF ChainStep, vars, Program!vars
  <1>2. \A r \in Runs : Authority(r) \in Admins \cap Voters
    BY ToolsAssumption DEF Authority
  <1>3. ASSUME NEW r \in Runs, Start(r) \/ Crash(r)
        PROVE  ChainStep
    BY <1>1, <1>3 DEF Start, StartBootstrap, StartLifecycle, Crash
  <1>4. ASSUME NEW r \in Runs, Step(r)
        PROVE  ChainStep
    <2> USE <1>2
    <2>1. run[r] \in Run
      OBVIOUS
    <2>2. CASE CheckRegistry(r) \/ FetchConfig(r) \/ Wake(r)
      BY <1>1, <2>2 DEF CheckRegistry, FetchConfig, Wake
    <2>3. CASE InitializeIfNeeded(r) \/ UpdateRoot(r)
      <3>1. run[r].list \in SUBSET Voters
        BY <2>1 DEF Run
      <3>2. \/ InitializeRegistry(Authority(r), run[r].list)
            \/ UpdateMerkleRoot(Authority(r), run[r].list)
            \/ UNCHANGED vars
        BY <2>3 DEF InitializeIfNeeded, UpdateRoot, Call
      <3> QED
        BY <1>1, <3>1, <3>2, RegistryCalls
    <2>4. CASE CloseActive(r)
      <3>1. run[r].active \in ProposalIds
        BY <2>1, <2>4 DEF CloseActive, Run
      <3>2. CloseProposal(Authority(r), run[r].active) \/ UNCHANGED vars
        BY <2>4 DEF CloseActive, Call
      <3> QED
        BY <1>1, <3>1, <3>2, ProposalCalls
    <2>5. CASE Create(r) \/ Commit(r) \/ Reveal(r) \/ Finalize(r)
      <3>1. run[r].proposal \in ProposalIds /\ run[r].option \in Options
        BY <2>5, ToolsAssumption
           DEF Create, Commit, Reveal, Finalize, FlagsKept, Stopped
      <3>2. CASE Create(r)
        <4>1. /\ run[r].commit_ends_at \in Nat /\ run[r].reveal_ends_at \in Nat
              /\ LifecycleOptions \in Seq(Options)
          BY <2>1, ToolsAssumption DEF Run
        <4>2. \/ CreateProposal(run[r].proposal, LifecycleOptions, run[r].commit_ends_at,
                                run[r].reveal_ends_at)
              \/ UNCHANGED vars
          BY <3>2 DEF Create, Call
        <4> QED
          BY <1>1, <3>1, <4>1, <4>2, ProposalCalls
      <3>3. CASE Commit(r)
        <4>1. ProofFits(r) \in BOOLEAN
          BY DEF ProofFits
        <4>2. PICK s \in Salts :
                \/ CommitVote(run[r].proposal, Authority(r),
                              VoteCommitment(run[r].proposal, s, Authority(r), run[r].option),
                              ProofFits(r), {})
                \/ UNCHANGED vars
          BY <3>3 DEF Commit, Call
        <4> QED
          BY <1>1, <3>1, <4>1, <4>2, VoteCalls
      <3>4. CASE Reveal(r)
        <4>1. run[r].salt \in Salts
          BY <2>1, <3>4 DEF Reveal, Run
        <4>2. \/ RevealVote(run[r].proposal, Authority(r), run[r].option, run[r].salt)
              \/ UNCHANGED vars
          BY <3>4 DEF Reveal, Call
        <4> QED
          BY <1>1, <3>1, <4>1, <4>2, VoteCalls
      <3>5. CASE Finalize(r)
        <4>1. FinalizeProposal(run[r].proposal) \/ UNCHANGED vars
          BY <3>5 DEF Finalize, Call
        <4> QED
          BY <1>1, <3>1, <4>1, ProposalCalls
      <3> QED
        BY <2>5, <3>2, <3>3, <3>4, <3>5
    <2> QED
      BY <1>4, <2>2, <2>3, <2>4, <2>5 DEF Step
  <1>5. CASE AdminCommand
    <2>1. \A root \in Electorates \cup Lists : root \in SUBSET Voters
      BY ConstantsAssumption, ToolsAssumption
    <2> QED
      BY <1>5, <2>1, RegistryCalls
         DEF AdminCommand, CmdInitRegistry, CmdUpdateRoot, CmdGrant, CmdRevoke
  <1>6. CASE OthersFinalize
    BY <1>6, ProposalCalls DEF OthersFinalize
  <1>7. CASE ChainTick
    BY <1>7 DEF ChainTick, Tick, ChainStep, Program!Next, Program!Tick
  <1>8. CASE ClockTick \/ UNCHANGED allVars
    BY <1>1, <1>8 DEF ClockTick, allVars
  <1> QED
    BY <1>3, <1>4, <1>5, <1>6, <1>7, <1>8 DEF SystemNext

\* A step moves at most one run.
LEMMA OneRunMoves ==
  ASSUME [SystemNext]_allVars
  PROVE  \/ UNCHANGED run
         \/ \E r \in Runs : \E x : run' = [run EXCEPT ![r] = x]
  <1>1. ASSUME NEW r \in Runs, Start(r) \/ Crash(r)
        PROVE  \E x : run' = [run EXCEPT ![r] = x]
    BY <1>1 DEF Start, StartBootstrap, StartLifecycle, Crash
  <1>2. ASSUME NEW r \in Runs, Step(r)
        PROVE  \E x : run' = [run EXCEPT ![r] = x]
    BY <1>2 DEF Step, CheckRegistry, InitializeIfNeeded, UpdateRoot, FetchConfig,
       CloseActive, Create, Commit, Wake, Reveal, Finalize, Call
  <1>3. CASE AdminCommand \/ OthersFinalize \/ ChainTick \/ ClockTick \/ UNCHANGED allVars
    BY <1>3 DEF AdminCommand, OthersFinalize, ChainTick, ClockTick, allVars, tools
  <1> QED
    BY <1>1, <1>2, <1>3 DEF SystemNext

\* The clocks: the chain's moves by a second at most, and the operators' only
\* as the model's assumptions on lag and call times allow.
LEMMA ClockSteps ==
  ASSUME ToolsInv, [SystemNext]_allVars
  PROVE  now' \in {now, now + 1} /\ ClockMoves
  <1>1. CASE ChainTick \/ ClockTick \/ UNCHANGED allVars
    BY <1>1 DEF ChainTick, ClockTick, ClockMoves, allVars, tools, vars
  <1>2. UNCHANGED clock \/ ClockTick
    BY DEF SystemNext, Start, StartBootstrap, StartLifecycle, Step, Crash, AdminCommand,
       OthersFinalize, ChainTick, ClockTick, allVars, tools
  <1>3. now' \in {now, now + 1}
    BY ChainSteps DEF ChainStep, Program!Next, Program!vars, Program!Tick,
       Program!RegistryStep, Program!InitializeRegistry, Program!UpdateMerkleRoot,
       Program!TransferAuthority, Program!GrantEligibility, Program!RevokeEligibility,
       Program!ProposalStep, Program!CreateProposal, Program!CloseProposal,
       Program!FinalizeProposal, Program!VoteStep, Program!CommitVote, Program!RevealVote
  <1> QED
    BY <1>1, <1>2, <1>3 DEF ClockMoves

--------------------------------------------------------------------------------
(* Types.                                                                  *)

\* What the record x of a process must hold at each step.
RunOK(x) ==
  /\ x \in Run
  /\ x.pc = "create" => x.commit_ends_at < x.reveal_ends_at
  /\ x.pc = "close" => x.active # NONE
  /\ x.pc \in {"wait_reveal", "reveal"} => x.salt # NONE
  /\ IF x.cmd = "lifecycle"
     THEN /\ x.proposal \in ProposalIds
          /\ x.option \in OptionFlags
          /\ x.window \in Windows /\ ValidWindow(x.window)
     ELSE x.pc \in {"exists", "init", "update"} \cup Stopped

\* x and y are records of the same invocation.
SameRun(x, y) ==
  /\ y.cmd = x.cmd /\ y.list = x.list /\ y.proposal = x.proposal
  /\ y.option = x.option /\ y.window = x.window

\* A process that goes on has its flags, its deadlines and its salt.
LEMMA AtRun ==
  ASSUME clock \in Nat, NEW r \in Runs, run[r] \in Run,
         NEW pc \in Calls \cup Waits \cup Stopped
  PROVE  /\ At(r, pc) \in Run /\ SameRun(run[r], At(r, pc))
         /\ At(r, pc).pc = pc /\ At(r, pc).since = clock
         /\ At(r, pc).active = run[r].active /\ At(r, pc).salt = run[r].salt
         /\ At(r, pc).commit_ends_at = run[r].commit_ends_at
         /\ At(r, pc).reveal_ends_at = run[r].reveal_ends_at
  BY DEF At, Run, SameRun

\* A process that fails has its flags.
LEMMA FailedRun ==
  ASSUME NEW r \in Runs, run[r] \in Run
  PROVE  Failed(r) \in Run /\ SameRun(run[r], Failed(r)) /\ Failed(r).pc = "failed"
  BY DEF Failed, Run, SameRun, Stopped

\* A process that is started holds its list and, for a lifecycle, its flags.
LEMMA BootstrapRun ==
  ASSUME clock \in Nat, NEW list \in SUBSET Voters
  PROVE  /\ Bootstrap(list) \in Run /\ Bootstrap(list).pc = "exists"
         /\ Bootstrap(list).cmd = "bootstrap" /\ Bootstrap(list).since = clock
  BY DEF Bootstrap, Idle, Run, Calls

LEMMA LifecycleRun ==
  ASSUME clock \in Nat, NEW list \in SUBSET Voters, NEW p \in ProposalIds,
         NEW o \in OptionFlags, NEW window \in Windows, NEW y,
         y = Lifecycle(list, p, o, window)
  PROVE  /\ y \in Run /\ y.pc = "exists" /\ y.cmd = "lifecycle" /\ y.since = clock
         /\ y.proposal = p /\ y.option = o /\ y.window = window
  <1>1. window \in Nat \X Nat /\ o \in Options
    BY ToolsAssumption
  <1> QED
    BY <1>1 DEF Lifecycle, Idle, Run, Calls

\* A wait ends at a time, not before the present.
LEMMA WakeUpType ==
  ASSUME clock \in Nat, NEW target \in Nat
  PROVE  WakeUp(target) \in Nat /\ WakeUp(target) >= clock
  BY ToolsAssumption DEF WakeUp

\* So does a process that waits.
LEMMA WaitForRun ==
  ASSUME clock \in Nat, NEW r \in Runs, run[r] \in Run, NEW pc \in Waits,
         NEW target \in Nat, NEW z, z = WaitFor(r, pc, target)
  PROVE  /\ z \in Run /\ SameRun(run[r], z) /\ z.pc = pc /\ z.since = WakeUp(target)
         /\ z.commit_ends_at = run[r].commit_ends_at
         /\ z.reveal_ends_at = run[r].reveal_ends_at
  <1>1. WakeUp(target) \in Nat
    BY WakeUpType
  <1> QED
    BY <1>1 DEF WaitFor, Run, SameRun

\* What the beginning of a run, its failure and the calls before its ballot leave
\* of its record.
LEMMA EarlyMovesRun ==
  ASSUME clock \in Nat, active_proposal \in ProposalIds \cup {NONE}, NEW r \in Runs,
         RunOK(run[r]), Begins(r) \/ run'[r] = Failed(r) \/ Prepares(r)
  PROVE  /\ run'[r] \in Run
         /\ \/ /\ run'[r].pc = "exists" /\ run'[r].since = clock
               /\ run'[r].cmd = "lifecycle" =>
                    /\ run'[r].proposal \in ProposalIds
                    /\ run'[r].option \in OptionFlags
                    /\ run'[r].window \in Windows /\ ValidWindow(run'[r].window)
            \/ SameRun(run[r], run'[r]) /\ run'[r].pc = "failed"
            \/ /\ SameRun(run[r], run'[r])
               /\ run'[r].pc \in {"update", "init", "done", "config"}
               /\ run'[r].pc = "done" => run[r].cmd = "bootstrap"
               /\ run'[r].pc = "config" => run[r].cmd = "lifecycle"
               /\ run'[r].since = clock
            \/ /\ SameRun(run[r], run'[r]) /\ run[r].cmd = "lifecycle"
               /\ run'[r].pc = "close" /\ run'[r].active # NONE /\ run'[r].since = clock
            \/ /\ SameRun(run[r], run'[r]) /\ run[r].cmd = "lifecycle"
               /\ run'[r].pc = "create" /\ run'[r].since = clock
               /\ run'[r].commit_ends_at = clock + run[r].window[1]
               /\ run'[r].reveal_ends_at = clock + run[r].window[2]
  <1> DEFINE x == run[r]
             y == run'[r]
  <1>1. x \in Run
    BY DEF RunOK
  <1>2. CASE Begins(r)
    <2>1. PICK list \in SUBSET Voters :
            \/ y = Bootstrap(list)
            \/ \E p \in ProposalIds, o \in OptionFlags, window \in Windows :
                 ValidWindow(window) /\ y = Lifecycle(list, p, o, window)
      BY <1>2 DEF Begins
    <2>2. CASE y = Bootstrap(list)
      BY <2>2, BootstrapRun
    <2>3. ASSUME NEW p \in ProposalIds, NEW o \in OptionFlags, NEW window \in Windows,
                 ValidWindow(window), y = Lifecycle(list, p, o, window)
          PROVE  /\ y \in Run /\ y.pc = "exists" /\ y.since = clock
                 /\ y.proposal \in ProposalIds /\ y.option \in OptionFlags
                 /\ y.window \in Windows /\ ValidWindow(y.window)
      <3>1. /\ y \in Run /\ y.pc = "exists" /\ y.cmd = "lifecycle" /\ y.since = clock
            /\ y.proposal = p /\ y.option = o /\ y.window = window
        BY <2>3, LifecycleRun
      <3> QED
        BY <2>3, <3>1
    <2> QED
      BY <2>1, <2>2, <2>3
  <1>3. CASE y = Failed(r)
    BY <1>1, <1>3, FailedRun
  <1>4. ASSUME NEW pc \in {"update", "init", "done", "config"}, y = At(r, pc)
        PROVE  y \in Run /\ SameRun(x, y) /\ y.pc = pc /\ y.since = clock
    BY <1>1, <1>4, AtRun DEF Calls, Stopped
  <1>5. CASE x.pc \in {"config", "close"} /\ y = Prepared(r) /\ Authority(r) \in x.list
    <2>1. x.cmd = "lifecycle"
      BY <1>5 DEF RunOK, Stopped
    <2>2. x.window[1] \in Nat /\ x.window[2] \in Nat
      BY <2>1, ToolsAssumption DEF RunOK
    <2>3. PICK z : z = At(r, "create")
      OBVIOUS
    <2>4. z \in Run /\ SameRun(x, z) /\ z.pc = "create" /\ z.since = clock
      BY <1>1, <2>3, AtRun DEF Calls
    <2>5. y = [z EXCEPT !.commit_ends_at = clock + x.window[1],
                        !.reveal_ends_at = clock + x.window[2]]
      BY <1>5, <2>3 DEF Prepared
    <2>6. PICK c \in Nat, d \in Nat : c = clock + x.window[1] /\ d = clock + x.window[2]
      <3>1. \A m, n \in Nat : clock + m \in Nat /\ clock + n \in Nat
        OBVIOUS
      <3> QED
        BY <2>2, <3>1
    <2>7. y = [z EXCEPT !.commit_ends_at = c, !.reveal_ends_at = d]
      BY <2>5, <2>6
    <2>8. y \in Run /\ y.commit_ends_at = c /\ y.reveal_ends_at = d
      BY <2>4, <2>7 DEF Run
    <2>9. SameRun(z, y) /\ y.pc = "create" /\ y.since = clock
      BY <2>4, <2>7 DEF Run, SameRun
    <2> QED
      BY <2>1, <2>4, <2>6, <2>8, <2>9 DEF SameRun
  <1>6. CASE /\ x.pc = "config"
             /\ active_proposal # NONE
             /\ y = [At(r, "close") EXCEPT !.active = active_proposal]
    <2>1. PICK z : z = At(r, "close")
      OBVIOUS
    <2>2. z \in Run /\ SameRun(x, z) /\ z.pc = "close" /\ z.since = clock
      BY <1>1, <2>1, AtRun DEF Calls
    <2>3. /\ y \in Run /\ SameRun(z, y) /\ y.pc = "close"
          /\ y.active = active_proposal /\ y.since = clock
      BY <1>6, <2>1, <2>2 DEF Run, SameRun
    <2>4. x.cmd = "lifecycle"
      BY <1>6 DEF RunOK, Stopped
    <2> QED
      BY <1>6, <2>2, <2>3, <2>4 DEF SameRun
  <1>7. x.cmd \in {"bootstrap", "lifecycle"}
    BY <1>1 DEF Run
  <1> QED
    BY <1>2, <1>3, <1>4, <1>5, <1>6, <1>7 DEF Prepares, AfterUpdate, Prepared

LEMMA EarlyMovesType ==
  ASSUME clock \in Nat, active_proposal \in ProposalIds \cup {NONE}, NEW r \in Runs,
         RunOK(run[r]), Begins(r) \/ run'[r] = Failed(r) \/ Prepares(r)
  PROVE  RunOK(run'[r])
  <1> DEFINE x == run[r]
             y == run'[r]
  <1>1. y \in Run
    BY EarlyMovesRun
  <1>2. CASE y.pc = "exists"
    BY <1>1, <1>2, EarlyMovesRun DEF RunOK
  <1>3. CASE SameRun(x, y) /\ y.pc \in {"failed", "update", "init", "done", "config"}
    BY <1>1, <1>3, EarlyMovesRun DEF RunOK, SameRun, Stopped
  <1>4. CASE SameRun(x, y) /\ x.cmd = "lifecycle" /\ y.pc = "close" /\ y.active # NONE
    BY <1>1, <1>4 DEF RunOK, SameRun
  <1>5. CASE /\ SameRun(x, y) /\ x.cmd = "lifecycle" /\ y.pc = "create"
             /\ y.commit_ends_at = clock + x.window[1]
             /\ y.reveal_ends_at = clock + x.window[2]
    <2>1. x.window[1] \in Nat /\ x.window[2] \in Nat /\ x.window[1] < x.window[2]
      BY <1>5, ToolsAssumption DEF RunOK, ValidWindow
    <2>2. clock + x.window[1] < clock + x.window[2]
      BY <2>1
    <2>3. y.commit_ends_at < y.reveal_ends_at
      BY <1>5, <2>2
    <2> QED
      BY <1>1, <1>5, <2>3 DEF RunOK, SameRun
  <1> QED
    BY <1>2, <1>3, <1>4, <1>5, EarlyMovesRun

\* What the successful calls of its ballot, and the ends of its waits, leave of
\* the record of a run.
LEMMA VotesRun ==
  ASSUME clock \in Nat, NEW r \in Runs, RunOK(run[r]), Votes(r)
  PROVE  /\ run'[r] \in Run /\ SameRun(run[r], run'[r])
         /\ run'[r].commit_ends_at = run[r].commit_ends_at
         /\ run'[r].reveal_ends_at = run[r].reveal_ends_at
         /\ \/ /\ run[r].pc = "create" /\ run'[r].pc = "commit"
               /\ run'[r].since = clock
            \/ /\ run[r].pc = "commit" /\ run'[r].pc = "wait_reveal"
               /\ run'[r].since = WakeUp(run[r].commit_ends_at)
               /\ run'[r].salt \in Salts
            \/ /\ run[r].pc = "wait_reveal" /\ run'[r].pc = "reveal"
               /\ run'[r].since = clock
               /\ run'[r].salt = run[r].salt
            \/ /\ run[r].pc = "reveal" /\ run'[r].pc = "wait_finalize"
               /\ run'[r].since = WakeUp(run[r].reveal_ends_at)
            \/ /\ run[r].pc = "wait_finalize" /\ run'[r].pc = "finalize"
               /\ run'[r].since = clock
            \/ /\ run[r].pc = "finalize" /\ run'[r].pc = "done"
  <1> DEFINE x == run[r]
             y == run'[r]
  <1>1. x \in Run
    BY DEF RunOK
  <1>2. x.commit_ends_at \in Nat /\ x.reveal_ends_at \in Nat
    BY <1>1 DEF Run
  <1>3. ASSUME NEW pc \in {"commit", "reveal", "finalize", "done"}, y = At(r, pc)
        PROVE  /\ y \in Run /\ SameRun(x, y) /\ y.pc = pc /\ y.since = clock
               /\ y.salt = x.salt
               /\ y.commit_ends_at = x.commit_ends_at
               /\ y.reveal_ends_at = x.reveal_ends_at
    BY <1>1, <1>3, AtRun DEF Calls, Stopped
  <1>4. ASSUME NEW pc \in Waits, NEW target \in Nat, NEW z, z = WaitFor(r, pc, target)
        PROVE  /\ z \in Run /\ SameRun(x, z) /\ z.pc = pc /\ z.since = WakeUp(target)
               /\ z.commit_ends_at = x.commit_ends_at
               /\ z.reveal_ends_at = x.reveal_ends_at
    BY <1>1, <1>4, WaitForRun
  <1>5. ASSUME NEW s \in Salts,
               y = [WaitFor(r, "wait_reveal", x.commit_ends_at) EXCEPT !.salt = s]
        PROVE  /\ y \in Run /\ SameRun(x, y) /\ y.pc = "wait_reveal"
               /\ y.since = WakeUp(x.commit_ends_at) /\ y.salt \in Salts
               /\ y.commit_ends_at = x.commit_ends_at
               /\ y.reveal_ends_at = x.reveal_ends_at
    <2>1. PICK z : z = WaitFor(r, "wait_reveal", x.commit_ends_at)
      OBVIOUS
    <2>2. /\ z \in Run /\ SameRun(x, z) /\ z.pc = "wait_reveal"
          /\ z.since = WakeUp(x.commit_ends_at)
          /\ z.commit_ends_at = x.commit_ends_at /\ z.reveal_ends_at = x.reveal_ends_at
      BY <1>2, <1>4, <2>1 DEF Waits
    <2> QED
      BY <1>5, <2>1, <2>2 DEF Run, SameRun
  <1>6. CASE x.pc = "reveal" /\ y = WaitFor(r, "wait_finalize", x.reveal_ends_at)
    BY <1>2, <1>4, <1>6 DEF Waits
  <1> QED
    BY <1>3, <1>5, <1>6 DEF Votes

LEMMA VotesType ==
  ASSUME clock \in Nat, NEW r \in Runs, RunOK(run[r]), Votes(r)
  PROVE  RunOK(run'[r])
  BY VotesRun, ToolsAssumption DEF RunOK, SameRun, Stopped

\* Every step keeps what a run must hold, and the types of the accounts: the
\* program's steps do.
LEMMA ToolsStep ==
  ASSUME ToolsInv, [SystemNext]_allVars
  PROVE  ToolsInv'
  <1>1. TypeOK /\ clock \in Nat /\ run \in [Runs -> Run] /\ invocations \in 0..MaxInvocations
    BY DEF ToolsInv, SystemTypeOK
  <1>2. \A r \in Runs : RunOK(run[r])
    BY DEF ToolsInv, SystemTypeOK, FlagsKept, RunOK
  <1>3. TypeOK'
    <2>1. Program!TypeOK /\ ChainStep
      BY <1>1, SameTypes, ChainSteps
    <2>2. Program!TypeOK'
      BY <2>1, ProgramConstants, Program!TypeStep DEF ChainStep
    <2>3. Program!TypeOK' <=> TypeOK'
      BY SameTypes, PTL
    <2> QED
      BY <2>2, <2>3
  <1>4. ASSUME NEW r \in Runs
        PROVE  RunOK(run'[r])
    <2>1. active_proposal \in ProposalIds \cup {NONE}
      BY <1>1 DEF TypeOK
    <2> QED
      BY <1>1, <1>2, <2>1, RunSteps, EarlyMovesType, VotesType DEF RunMoves
  <1>5. run' \in [Runs -> Run]
    <2>1. \A r \in Runs : run'[r] \in Run
      BY <1>4 DEF RunOK
    <2> QED
      BY <1>1, <2>1, OneRunMoves
  <1>6. clock' \in Nat
    BY <1>1, ClockSteps DEF ClockMoves
  <1>7. invocations' \in 0..MaxInvocations
    <2>1. ASSUME NEW r \in Runs, Start(r)
          PROVE  MayInvoke /\ invocations' = invocations + 1
      BY <2>1 DEF Start, StartBootstrap, StartLifecycle
    <2>2. \/ UNCHANGED invocations
          \/ MayInvoke /\ invocations' = invocations + 1
      BY <2>1 DEF SystemNext, Step, Crash, AdminCommand, OthersFinalize, ChainTick,
         ClockTick, allVars, tools
    <2> QED
      BY <1>1, <2>2, ToolsAssumption DEF MayInvoke
  <1> QED
    BY <1>3, <1>4, <1>5, <1>6, <1>7 DEF ToolsInv, SystemTypeOK, FlagsKept, RunOK

LEMMA ToolsInit == SystemInit => ToolsInv
  <1> SUFFICES ASSUME SystemInit PROVE ToolsInv
    OBVIOUS
  <1>1. TypeOK
    <2>1. Program!Init
      BY DEF SystemInit, Init, Program!Init, NoRegistry, Program!NoRegistry, NoProposal,
         Program!NoProposal, NoCommitment, Program!NoCommitment
    <2>2. Program!TypeOK
      BY <2>1, ProgramConstants, Program!TypeInit
    <2> QED
      BY <2>2, SameTypes
  <1>2. Idle \in Run /\ Idle.pc = "idle" /\ Idle.cmd = "bootstrap"
    BY DEF Idle, Run, Stopped
  <1>3. run \in [Runs -> Run] /\ \A r \in Runs : run[r] = Idle
    BY <1>2 DEF SystemInit
  <1>4. clock \in Nat /\ invocations \in 0..MaxInvocations
    BY ToolsAssumption DEF SystemInit
  <1> QED
    BY <1>1, <1>2, <1>3, <1>4 DEF ToolsInv, SystemTypeOK, FlagsKept, Stopped

\* Every process and the chain below it hold values of their types, and a
\* process that is about to make a call holds what the call needs, whatever
\* failed before.
THEOREM SystemTypeCorrect == SystemSpec => []SystemTypeOK
  <1>1. ToolsInv /\ [SystemNext]_allVars => ToolsInv'
    BY ToolsStep
  <1>2. ToolsInv => SystemTypeOK
    BY DEF ToolsInv
  <1> QED
    BY <1>1, <1>2, ToolsInit, PTL DEF SystemSpec

\* What the tools do is what the program allows: every behaviour of the tools is
\* one of the program, with root lists, options and deadlines of any value.
THEOREM ToolsUseProgram == SystemSpec => Program!Spec
  <1>1. SystemInit => Program!Init
    BY DEF SystemInit, Init, Program!Init, NoRegistry, Program!NoRegistry, NoProposal,
       Program!NoProposal, NoCommitment, Program!NoCommitment
  <1>2. ToolsInv /\ [SystemNext]_allVars => [Program!Next]_(Program!vars)
    BY ChainSteps DEF ChainStep
  <1>3. ToolsInv /\ [SystemNext]_allVars => ToolsInv'
    BY ToolsStep
  <1> QED
    BY <1>1, <1>2, <1>3, ToolsInit, PTL DEF SystemSpec, Program!Spec

--------------------------------------------------------------------------------
(* Time.                                                                   *)

\* A run stays on schedule: its calls return, and its waits end, in time.
LEMMA ScheduleStep ==
  ASSUME TimelyFlags, ToolsInv, TimeInv, [SystemNext]_allVars, NEW r \in Runs
  PROVE  OnSchedule(r)'
  <1> DEFINE x == run[r]
             y == run'[r]
  <1>1. /\ TypeOK /\ clock \in Nat /\ x \in Run
        /\ {WaitBuffer, MaxLag, MaxCallTime} \subseteq Nat
    BY ToolsAssumption DEF ToolsInv, SystemTypeOK
  <1>2. RunOK(x)
    BY DEF ToolsInv, SystemTypeOK, FlagsKept, RunOK
  <1>3. x.since \in Nat /\ x.commit_ends_at \in Nat /\ x.reveal_ends_at \in Nat
    BY <1>1 DEF Run
  <1>4. OnSchedule(r)
    BY DEF TimeInv
  <1>5. CASE y = x
    <2>1. CASE UNCHANGED clock
      BY <1>4, <1>5, <2>1 DEF OnSchedule
    <2>2. CASE clock' = clock + 1 /\ (x.pc \notin Stopped => clock < x.since + MaxCallTime)
      BY <1>1, <1>3, <1>4, <1>5, <2>2 DEF OnSchedule
    <2> QED
      BY <2>1, <2>2, ClockSteps DEF ClockMoves
  <1>6. CASE /\ Begins(r) \/ y = Failed(r) \/ Prepares(r)
             /\ UNCHANGED clock
    <2>1. active_proposal \in ProposalIds \cup {NONE}
      BY <1>1 DEF TypeOK
    <2>2. CASE y.pc \in {"exists", "update", "init", "done", "config", "close"}
      <3>1. y.since = clock
        BY <1>1, <1>2, <1>6, <2>1, <2>2, EarlyMovesRun
      <3> QED
        BY <1>1, <1>6, <2>2, <3>1 DEF OnSchedule, Waits
    <2>3. CASE y.pc = "failed"
      BY <2>3 DEF OnSchedule, Stopped
    <2>4. CASE /\ SameRun(x, y) /\ x.cmd = "lifecycle" /\ y.pc = "create"
               /\ y.since = clock /\ y.commit_ends_at = clock + x.window[1]
               /\ y.reveal_ends_at = clock + x.window[2]
      <3>1. x.window[1] \in Nat /\ x.window[2] \in Nat
        BY <1>2, <2>4, ToolsAssumption DEF RunOK
      <3> QED
        BY <1>1, <1>6, <2>4, <3>1 DEF OnSchedule, Waits, SameRun
    <2> QED
      BY <1>1, <1>2, <1>6, <2>1, <2>2, <2>3, <2>4, EarlyMovesRun
  <1>7. CASE Votes(r) /\ UNCHANGED clock
    <2>1. x.cmd = "lifecycle"
      BY <1>2, <1>7 DEF Votes, RunOK, Stopped
    <2>2. /\ x.window[1] \in Nat /\ x.window[2] \in Nat
          /\ MaxLag <= WaitBuffer
          /\ 2 * MaxCallTime < x.window[1]
          /\ x.window[1] + WaitBuffer + 2 * MaxCallTime < x.window[2]
      BY <1>2, <2>1, ToolsAssumption DEF RunOK, TimelyFlags
    <2>3. /\ SameRun(x, y)
          /\ y.commit_ends_at = x.commit_ends_at /\ y.reveal_ends_at = x.reveal_ends_at
          /\ y.window = x.window
      BY <1>1, <1>2, <1>7, VotesRun DEF SameRun
    <2>4. CASE x.pc = "create" /\ y.pc = "commit" /\ y.since = clock
      BY <1>1, <1>3, <1>4, <1>7, <2>2, <2>3, <2>4 DEF OnSchedule, Waits, Stopped
    <2>5. CASE x.pc = "commit" /\ y.pc = "wait_reveal" /\ y.since = WakeUp(x.commit_ends_at)
      <3>1. clock < x.commit_ends_at
        BY <1>1, <1>3, <1>4, <2>2, <2>5 DEF OnSchedule, Waits, Stopped
      <3>2. y.since = x.commit_ends_at + WaitBuffer
        BY <1>1, <1>3, <2>5, <3>1 DEF WakeUp
      <3> QED
        BY <1>1, <1>3, <1>4, <1>7, <2>3, <2>5, <3>1, <3>2 DEF OnSchedule, Waits, Stopped
    <2>6. CASE /\ x.pc = "wait_reveal" /\ clock >= x.since
               /\ y.pc = "reveal" /\ y.since = clock
      BY <1>1, <1>3, <1>4, <1>7, <2>3, <2>6 DEF OnSchedule, Waits, Stopped
    <2>7. CASE x.pc = "reveal" /\ y.pc = "wait_finalize" /\ y.since = WakeUp(x.reveal_ends_at)
      <3>1. clock < x.reveal_ends_at
        BY <1>1, <1>3, <1>4, <2>2, <2>7 DEF OnSchedule, Waits, Stopped
      <3>2. y.since = x.reveal_ends_at + WaitBuffer
        BY <1>1, <1>3, <2>7, <3>1 DEF WakeUp
      <3> QED
        BY <1>1, <1>3, <1>7, <2>3, <2>7, <3>1, <3>2 DEF OnSchedule, Waits, Stopped
    <2>8. CASE /\ x.pc = "wait_finalize" /\ clock >= x.since
               /\ y.pc = "finalize" /\ y.since = clock
      BY <1>1, <1>3, <1>4, <1>7, <2>3, <2>8 DEF OnSchedule, Waits, Stopped
    <2>9. CASE y.pc = "done"
      BY <2>9 DEF OnSchedule, Waits, Stopped
    <2>10. \/ x.pc \notin Waits \/ clock >= x.since
      BY <1>7 DEF Votes, Waits
    <2> QED
      BY <1>1, <1>2, <1>7, <2>4, <2>5, <2>6, <2>7, <2>8, <2>9, <2>10, VotesRun DEF Waits
  <1> QED
    BY <1>5, <1>6, <1>7, RunSteps DEF RunMoves

LEMMA TimeStep ==
  ASSUME TimelyFlags, ToolsInv, TimeInv, [SystemNext]_allVars
  PROVE  TimeInv'
  <1>1. clock \in Nat /\ now \in Nat /\ MaxLag \in Nat
    BY ToolsAssumption DEF ToolsInv, SystemTypeOK, TypeOK
  <1>2. clock' <= now' + MaxLag
    BY <1>1, ClockSteps DEF TimeInv, ClockMoves, vars
  <1> QED
    BY <1>2, ScheduleStep DEF TimeInv

\* When waitUntilUnix returns, the deadline has passed on chain too: the buffer
\* covers the lag of the chain's clock, and the flags leave every call that comes
\* before a wait enough time to return before its target.
THEOREM WaitsLongEnough ==
  ASSUME TimelyFlags
  PROVE  SystemSpec => []WaitedLongEnough
  <1>1. ToolsInv /\ [SystemNext]_allVars => ToolsInv'
    BY ToolsStep
  <1>2. SystemInit => TimeInv
    <2> SUFFICES ASSUME SystemInit PROVE TimeInv
      OBVIOUS
    <2>1. clock <= now + MaxLag
      BY ToolsAssumption DEF SystemInit, Init
    <2>2. \A r \in Runs : run[r].pc = "idle"
      BY DEF SystemInit, Idle
    <2> QED
      BY <2>1, <2>2 DEF TimeInv, OnSchedule, Stopped, Waits
  <1>3. ToolsInv /\ TimeInv /\ [SystemNext]_allVars => TimeInv'
    BY TimeStep
  <1>4. ASSUME ToolsInv, TimeInv
        PROVE  WaitedLongEnough
    <2> SUFFICES ASSUME NEW r \in Runs
                 PROVE  /\ run[r].pc = "reveal" => now >= run[r].commit_ends_at
                        /\ run[r].pc = "finalize" => now >= run[r].reveal_ends_at
      BY DEF WaitedLongEnough
    <2>1. /\ run[r] \in Run /\ clock \in Nat /\ now \in Nat
          /\ WaitBuffer \in Nat /\ MaxLag \in Nat /\ MaxLag <= WaitBuffer
      BY <1>4, ToolsAssumption DEF ToolsInv, SystemTypeOK, TypeOK, TimelyFlags
    <2>2. /\ run[r].commit_ends_at \in Nat /\ run[r].reveal_ends_at \in Nat
          /\ run[r].since \in Nat
      BY <2>1 DEF Run
    <2>3. clock <= now + MaxLag /\ OnSchedule(r)
      BY <1>4 DEF TimeInv
    <2> QED
      BY <2>1, <2>2, <2>3 DEF OnSchedule, Stopped, Waits
  <1> QED
    BY <1>1, <1>2, <1>3, <1>4, ToolsInit, PTL DEF SystemSpec

--------------------------------------------------------------------------------
(* Votes.                                                                  *)

\* Whoever acts, the ballot of r stays, with the vote of r once it is opened, and
\* once it is final.
LEMMA AchievedKept ==
  ASSUME ToolsInv, [SystemNext]_allVars, NEW r \in Runs, run[r].cmd = "lifecycle",
         HasBallot(r), run'[r].proposal = run[r].proposal,
         run'[r].option = run[r].option
  PROVE  /\ HasBallot(r)'
         /\ VoteOpened(run[r].proposal, Authority(r), run[r].option) =>
              VoteOpened(run[r].proposal, Authority(r), run[r].option)'
         /\ proposals[run[r].proposal].phase = "Finalized" =>
              (proposals[run[r].proposal].phase = "Finalized")'
  <1> DEFINE p == run[r].proposal
             v == Authority(r)
  <1>1. p \in ProposalIds /\ v \in Voters
    BY ToolsAssumption DEF ToolsInv, FlagsKept, Authority
  <1>2. Program!TypeOK /\ ChainStep
    BY SameTypes, ChainSteps DEF ToolsInv, SystemTypeOK
  <1>3. proposals[p].phase # "Unallocated" /\ proposals[p].options = LifecycleOptions
    BY DEF HasBallot
  <1>4. /\ proposals'[p].phase # "Unallocated" /\ proposals'[p].options = LifecycleOptions
        /\ commitments[p][v].commitment # ZERO =>
             /\ commitments'[p][v].commitment = commitments[p][v].commitment
             /\ commitments[p][v].revealed => commitments'[p][v].revealed
    BY <1>1, <1>2, <1>3, ProgramConstants, Program!VotesKept DEF ChainStep
  <1>5. proposals[p].phase = "Finalized" => proposals'[p] = proposals[p]
    BY <1>1, <1>2, ProgramConstants, Program!EndedStep DEF ChainStep
  <1> QED
    BY <1>4, <1>5 DEF HasBallot, VoteOpened, Authority, IsOptionIndex

\* What r achieves with its own calls.
LEMMA AchievedByVotes ==
  ASSUME ToolsInv, NEW r \in Runs, run[r].cmd = "lifecycle", Votes(r),
         run'[r].proposal = run[r].proposal, run'[r].option = run[r].option,
         run[r].pc # "create" => HasBallot(r)
  PROVE  /\ run[r].pc = "create" => HasBallot(r)'
         /\ run[r].pc = "reveal" =>
              VoteOpened(run[r].proposal, Authority(r), run[r].option)'
         /\ run[r].pc = "finalize" =>
              (proposals[run[r].proposal].phase = "Finalized")'
  <1> DEFINE p == run[r].proposal
             v == Authority(r)
             o == run[r].option
  <1>1. p \in ProposalIds /\ v \in Voters /\ o \in Options
    BY ToolsAssumption DEF ToolsInv, FlagsKept, Authority
  <1>2. TypeOK /\ run[r] \in Run
    BY DEF ToolsInv, SystemTypeOK
  <1>3. CASE run[r].pc = "create"
    <2>1. CreateProposal(p, LifecycleOptions, run[r].commit_ends_at, run[r].reveal_ends_at)
      BY <1>3 DEF Votes, Waits
    <2>2. proposals'[p].phase = "Commit" /\ proposals'[p].options = LifecycleOptions
      BY <1>1, <1>2, <2>1 DEF CreateProposal, TypeOK
    <2> QED
      BY <1>3, <2>2 DEF HasBallot
  <1>4. CASE run[r].pc = "reveal"
    <2>1. RevealVote(p, v, o, run[r].salt) /\ proposals[p].options = LifecycleOptions
      BY <1>4 DEF Votes, HasBallot
    <2>2. run[r].salt \in Salts
      BY <1>2, <1>4 DEF ToolsInv, SystemTypeOK, Run
    <2>3. /\ commitments[p][v].commitment = VoteCommitment(p, run[r].salt, v, o)
          /\ \E i \in DOMAIN LifecycleOptions : IsOptionIndex(LifecycleOptions, o, i)
      BY <2>1 DEF RevealVote, OpensCommitment
    <2>4. VoteCommitment(p, run[r].salt, v, o) # ZERO
      BY <1>1, <2>2, ConstantsAssumption DEF VoteCommitment, Hashes
    <2>5. commitments' = [commitments EXCEPT ![p][v].revealed = TRUE]
      BY <2>1 DEF RevealVote
    <2>6. /\ commitments'[p][v].revealed
          /\ commitments'[p][v].commitment = commitments[p][v].commitment
      BY <1>1, <1>2, <2>5 DEF TypeOK, CommitmentAccount
    <2>7. VoteCommitment(p, run[r].salt, v, o).option = o
      BY DEF VoteCommitment
    <2> QED
      BY <1>4, <2>3, <2>4, <2>6, <2>7 DEF VoteOpened, Authority, IsOptionIndex
  <1>5. CASE run[r].pc = "finalize"
    <2>1. FinalizeProposal(p)
      BY <1>5 DEF Votes, Waits
    <2>2. proposals'[p].phase = "Finalized"
      BY <1>1, <1>2, <2>1 DEF FinalizeProposal, TypeOK, Proposal
    <2> QED
      BY <1>5, <2>2
  <1> QED
    BY <1>3, <1>4, <1>5

\* A lifecycle gets to a step only with what the steps before it achieve, and
\* what they achieved nobody takes back.
LEMMA VotingStep ==
  ASSUME ToolsInv, VotingInv, [SystemNext]_allVars
  PROVE  VotingInv'
  <1> SUFFICES ASSUME NEW r \in Runs, run'[r].cmd = "lifecycle"
               PROVE  Achieved(r)'
    BY DEF VotingInv
  <1> DEFINE x == run[r]
             y == run'[r]
  <1>1. RunOK(x) /\ clock \in Nat /\ active_proposal \in ProposalIds \cup {NONE}
    BY DEF ToolsInv, SystemTypeOK, FlagsKept, RunOK, TypeOK
  <1>2. x.cmd = "lifecycle" => Achieved(r)
    BY DEF VotingInv
  <1>3. CASE y = x
    <2>1. Achieved(r) /\ y.proposal = x.proposal /\ y.option = x.option
      BY <1>2, <1>3
    <2>2. CASE HasBallot(r)
      BY <1>2, <1>3, <2>1, <2>2, AchievedKept DEF Achieved
    <2>3. CASE ~HasBallot(r)
      BY <1>3, <2>1, <2>3 DEF Achieved, Waits
    <2> QED
      BY <2>2, <2>3
  <1>4. CASE Begins(r) \/ y = Failed(r) \/ Prepares(r)
    <2>1. y.pc \in {"exists", "failed", "update", "init", "config", "close", "create"}
      BY <1>1, <1>4, EarlyMovesRun DEF SameRun
    <2> QED
      BY <2>1 DEF Achieved, Waits
  <1>5. CASE Votes(r)
    <2>1. x.cmd = "lifecycle" /\ y.proposal = x.proposal /\ y.option = x.option
      BY <1>1, <1>5, VotesRun DEF SameRun
    <2>2. x.pc # "create" => HasBallot(r)
      BY <1>2, <1>5, <2>1 DEF Achieved, Votes, Waits
    <2>3. HasBallot(r)'
      BY <1>5, <2>1, <2>2, AchievedKept, AchievedByVotes
    <2>4. y.pc \in {"wait_finalize", "finalize", "done"} =>
            VoteOpened(x.proposal, Authority(r), x.option)'
      BY <1>1, <1>2, <1>5, <2>1, <2>2, VotesRun, AchievedKept, AchievedByVotes DEF Achieved
    <2>5. y.pc = "done" => (proposals[x.proposal].phase = "Finalized")'
      BY <1>1, <1>5, <2>1, <2>2, VotesRun, AchievedByVotes
    <2> QED
      BY <2>3, <2>4, <2>5 DEF Achieved
  <1> QED
    BY <1>3, <1>4, <1>5, RunSteps DEF RunMoves

\* A run that reports success has a final ballot with its vote in the tally,
\* whatever other operators, failed closes and lost calls did meanwhile: its vote
\* is one of those the program's tally counts.
THEOREM CompletedCounted == SystemSpec => []CompletedRunIsCounted
  <1>1. ToolsInv /\ [SystemNext]_allVars => ToolsInv'
    BY ToolsStep
  <1>2. SystemInit => VotingInv
    BY DEF SystemInit, Idle, VotingInv
  <1>3. ToolsInv /\ VotingInv /\ [SystemNext]_allVars => VotingInv'
    BY VotingStep
  <1>4. SystemSpec => []Program!TallyInv
    <2>1. Program!Spec => []Program!TallyInv
      BY ProgramConstants, Program!TallyInvariant
    <2> QED
      BY <2>1, ToolsUseProgram, PTL
  <1>5. ASSUME ToolsInv, VotingInv, Program!TallyInv
        PROVE  CompletedRunIsCounted
    <2> SUFFICES ASSUME NEW r \in Runs, run[r].pc = "done", run[r].cmd = "lifecycle"
                 PROVE  VoteCounted(r)
      BY DEF CompletedRunIsCounted
    <2> DEFINE p == run[r].proposal
               v == Authority(r)
    <2>1. /\ p \in ProposalIds /\ v \in Voters /\ TypeOK
      BY <1>5, ToolsAssumption DEF ToolsInv, SystemTypeOK, FlagsKept, Authority
    <2>2. /\ proposals[p].options = LifecycleOptions
          /\ VoteOpened(p, v, run[r].option) /\ proposals[p].phase = "Finalized"
      BY <1>5 DEF VotingInv, Achieved, HasBallot
    <2>3. PICK i \in DOMAIN LifecycleOptions :
            IsOptionIndex(LifecycleOptions, run[r].option, i)
      BY <2>2 DEF VoteOpened
    <2>4. v \in Program!CountedAt(p, i)
      BY <2>1, <2>2, <2>3
         DEF VoteOpened, Program!CountedAt, IsOptionIndex, Program!IsOptionIndex
    <2>5. proposals[p].option_counts[i] > 0
      BY <1>5, <2>1, <2>2, <2>4, ProgramConstants, Program!CountedIsInTally
    <2> QED
      BY <2>1, <2>2, <2>3, <2>5 DEF VoteCounted, VoteOpened
  <1> QED
    BY <1>1, <1>2, <1>3, <1>4, <1>5, ToolsInit, PTL DEF SystemSpec
================================================================================
