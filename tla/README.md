# Verification of the voting pipeline

TLA+ models of the commit–reveal voting program, of the operators' tools that
drive it and of the services that carry its events to the cloud, the TLC
configurations that check them on small instances, and TLAPS proofs about the
program, the voter lists and their Merkle trees, the tools, Ingestion, the
Aggregator and their composition. Every definition is translated from the
source; `PROJECT.json` maps each one to the lines it models.

## The system

    voting program --logs--> Ingestion --SNS/SQS--> Aggregator --> projections
      (Solana)                (Lambda)    (AWS)      (Lambda)      (DynamoDB)
         ^
    eligibility-admin, devnet-pipeline, voters (clients)

| Component | State | Operations | What is hard | What makes it correct |
|---|---|---|---|---|
| Voting program (`smart-contract/programs/voting`) | registry (authority, root, version), config (active proposal), proposals, commitments, granted and revoked voters; the clock | nine instructions, each all-or-nothing | any order of calls by any signer; deadlines against the clock; two accounts that must agree; a registry that changes during a ballot | the tally is the votes that were opened; one ballot at a time; ended ballots never change; who may vote is pinned |
| Voting crypto and voter lists (`crates/voting-crypto`, `tools/voting-shared`) | none | read a list file; Merkle root, proof, check; commitment hash | odd levels, lists of one; blank, invalid and repeated lines; the order of a list | a root stands for exactly the voters of its list, however the file orders them |
| Ingestion (`services/ingestion`) | none between cycles | a scheduled cycle: slot, signatures, transactions, decode, publish one by one | the chain moves between the calls; cycles overlap or abort; window and limit; payloads that make a cycle throw | no event is missed; reverted ones are not published; no payload blocks the others |
| Aggregator (`services/aggregator`) | `processed_events`, `proposals`, `voter_activity` | a batch of messages; per event: look up, apply, mark, roll back | concurrent invocations, redelivery, crashes between calls, failing calls, stale reads | each vote counts once; no message is deleted unseen; results appear only at the end |
| Projection stores | in-memory maps or DynamoDB tables | the repository calls | the two backends differ in what they reject | |
| AWS pipeline (`infra/aws`) | queue, dead-letter queue | deliver, reappear, redrive, delete | at-least-once, no order, visibility shorter than the Lambda timeout | a message leaves only as projected, reported or dead |
| devnet-pipeline, eligibility-admin | a process: what it read, its deadlines, its salt | sequences of instructions with two waits; single registry commands | clocks that differ, interrupted processes, lost requests and responses, other operators with the same wallet | success means a counted vote; no call comes too early; a rerun recovers from any failure |
| Forwarder, Analytics, gRPC API, UI | – | – | – | only documented; there is no code |

Interaction is by messages only: the program's events are read from transaction
logs, each published event becomes a message of the queue. No component calls
another one's state.

## Modules

| Module | Models | State and actions |
|---|---|---|
| `VotingProgram` | the program | one variable per kind of account, the clock (`slot`, `now`) and the `log` of events; one action per instruction, enabled exactly when every `require!` and account constraint of its handler holds, because a failing instruction reverts |
| `Ballot` | the promise of the chain to its readers | the `log` alone: which event may follow which |
| `VotingProgramProofs`, `VotingLogProofs` | theorems about `VotingProgram`: its accounts, and the events it emits | – |
| `OperatorTools` | both tools over `VotingProgram` (EXTENDS it) | one `run` per process, the operators' `clock`; one action per remote call, which is an instruction of the program or its rejection |
| `OperatorToolsProofs` | theorems about `OperatorTools` | – |
| `MerkleElectorate` | list files, tree, proofs, check | for each command (the admin's `build`, the client's `proof`) its list and the levels of its tree, the variables of the other two loops, one request, its answer. Reading a file, finding the voter, `commit_vote` and each iteration of the three loops is an action |
| `MerkleElectorateProofs` | theorems about `MerkleElectorate` | – |
| `EventDecoding` | what parsing and normalizing do to an event's fields | pure: known types, what a payload reads as, what throws |
| `Ingestion` | the Lambda with the RPC node and SNS, over `EventDecoding` | `chain`, `slot`, one `cycle` per invocation, `published`; one action per remote call. The lists of a cycle are sets: position in the chain and in the transaction give their order |
| `IngestionProofs` | theorems about `Ingestion` | – |
| `ProjectionStore` | the repository calls of both backends | pure: when a call is accepted and what it leaves |
| `Aggregator` | Lambda, queue and mapping over `ProjectionStore` | the three tables, `queue`, one record per `worker`; one action per repository call |
| `VoteCount` | what the Aggregator promises | a set of counted votes and a tally; one vote counts in one step, once |
| `AggregatorProofs` | theorems about `Aggregator` | – |
| `Pipeline` | chain, `Ingestion`, topic, `Aggregator` | INSTANCEs `Ingestion` and `Aggregator` over shared events, and `Ballot` for what the chain may emit next; `sent` is what SNS delivered |
| `PipelineProofs` | theorems about `Pipeline`, over INSTANCEs of `IngestionProofs` and `AggregatorProofs` | – |
| `MCVotingProgram`, `MCOperatorTools`, `MCMerkleElectorate`, `MCIngestion`, `MCAggregator`, `MCPipeline` | instances for TLC | – |

Refinements: the tools use the program as it is (`SystemSpec` implements the
`Spec` of `VotingProgram`), and `Pipeline` implements both `Ingestion` and
`Aggregator`, each with the other as its environment. `VotingProgram` implements `Ballot` (the log mapped to itself),
`Aggregator` implements `VoteCount` (counted = the marked reveals, tally = the
counters less the increments still in hand). `Pipeline` uses `Ballot` as the
chain, which the first refinement entitles it to.

`Faulty…` operators are deliberate slips placed before the definition they
would replace. No action uses them; with any one of them in its place a
property fails, which shows that the property depends on the code.

### Abstractions

- SHA-256 and keccak-256 are injective. A commitment is the record of what was
  hashed; the 32 zero bytes, which clients can also send, are the constant
  `ZERO`. (The hash concatenates proposal id, salt, voter and option without
  separators; that two different splits can give the same bytes is outside.)
- In `VotingProgram` a root is the set of voters that can prove themselves
  against it. `MerkleElectorate` shows what entitles it to: members can,
  others cannot, and different sets have different roots. There a digest is the
  tagged record of what was hashed, so that no leaf equals the hash of a pair.
  The code keeps only the last level of a tree; the model's earlier ones are a
  history, which no action reads.
- An account that does not exist is its zeroed content, which is what
  `init` and `init_if_needed` hand to a handler. Lengths of strings, rent,
  bumps and account sizes are left out.
- A DynamoDB update is atomic per item. A call that is refused has no effect
  (`refuse`); a call may also take effect and lose its response
  (`lost_update`, `lost_marker`). A lookup of the marker is eventually
  consistent and may miss a marker that exists.
- In `OperatorTools` a call is accepted exactly when the instruction's action is
  enabled. A lost request changes nothing, a lost response leaves its effect,
  and either way the process sees an error.
- In `Pipeline` every transaction holds one instruction, and an invocation
  receives one message. Messages reappear and are redriven as in `Aggregator`;
  invocations do not crash there, because one that stops midway leaves a vote
  that is counted again (`faults` bounds by how much).
- `duplicates` has copies of a message instead of deliveries that overlap: to the
  handler a copy and a second delivery are the same, and the copies leave the
  queue's timers out of a run that is about races in the tables.
- Payload fields that no decision depends on (titles, timestamps, deadlines in
  the projections, slots in the events) are left out.

## Runs

All sets of voters, workers and messages are model values; `SYMMETRY` is used
only where the specification treats the values alike. `CHECK_DEADLOCK FALSE`
is set where a model really stops: the clock reaches its bound, the queue
drains, the request is answered. `pipeline` runs with deadlock checked, because
the schedule never ends.

| Run | Properties | Instance, and why it is enough |
|---|---|---|
| `ballot` | `TypeOK`, `TallyMatchesReveals`, `ReplayedTally`, `RevealsOpenEarlierCommits`, `PhasesFollowClock`, `NonzeroCommitsAreFinal`, `EndedProposalsImmutable` | two voters, one ballot, options with and without a duplicate, four pairs of deadlines (two of them must be refused), every commitment including `ZERO` and other voters' hashes. `MaxU64 = 1`: two voters for one option reach the counter's limit. The log has room for create, two commits and a repeated one, two reveals and the end |
| `electorate` | `ActiveProposalConsistent`, `TallyMatchesReveals`, `CommittersWereAdmitted`, `VersionNamesElectorate`, `ImplementsBallot`, `FrozenAfterSnapshotSlot` | two ballots in turn (the first closed, or finalized while the second's deadlines are still ahead), two admins, one voter of the root and one that is granted and revoked, the zero root and a root of one. `MaxU64 = 2`: the limit hides no second reveal of one vote (in `ballot` it would). Five events: a registry change before, between or after the ballots and votes |
| `zero_commitment` (violation) | `OneCommitPerVoter` | as `electorate` |
| `revoked` (violation) | `RevokedCannotCommit` | an empty root and a voter who is granted and revoked before the ballot |
| `lifecycle` | `SystemTypeOK`, `CompletedRunIsCounted`, `WaitedLongEnough`, `RerunSucceeds` | two processes and the registry commands with one wallet, so that either can close, replace or finalize what the other does; a list with the operator and one without, a valid and an invalid `--option`, crashes and lost calls at every point, a chain clock up to `MaxLag` behind. Two invocations: a failed run and the one that recovers |
| `merkle` | `ProofsNameMembers`, `MembersCanProve`, `RootNamesVoters` | every file of up to three lines (voters, blank, invalid) over two voters, lists of one to five voters, so every shape up to height three: odd leaves, an odd inner level. Admin and client each read any of the files, so also copies in another order and with blank lines. `MAX_MERKLE_PROOF_LEN = 3` (32 in the code) and proofs of up to one digest more, each from the nodes of the published tree, all leaves and a node of another tree; an even and an odd index |
| `duplicates` | `ExactTally`, `ImplementsVoteCount` | the deployed backend and mapping (DynamoDB, failed messages deleted); one vote published twice and another once, a commitment, another ballot, a registry event and a message that cannot be read; two workers, batches of two, stale lookups: two invocations race for one event at every point of its way through the tables, beside any other event. The voter of the second vote has no map, so that its updates are rejected and the vote is undone; the first voter has one, because otherwise no vote would ever be marked (`lost_vote`) |
| `faults` | `TypeOK`, `NeverUndercounts`, `VisibleMeansEnded`, `FinalizedIsVisible`, `OncePerReception`, `OvercountsByFailuresOnly`, `DropsAreReported` | the deployed backend and mapping; a vote and the finalization, in batches of one or two, two workers; every message received up to three times (as deployed); crashes at every point, failing calls, lost responses to updates, overlap, stale lookups |
| `lost_vote` (violation) | `DrainedTally` | tables and mapping as deployed, one vote, one worker, no fault at all |
| `coverage` | `TypeOK`, `NothingMissed`, `NothingRevertedPublished`, `EveryEventPublished` | two invocations, an abort, failed transactions, root updates with zero hashes next to unknown events, deadlines of 2^53 and more, at most `Limit` transactions and `Lookback` slots between two complete cycles |
| `pipeline` | `ShownMeansFinal`, `NothingLost`, `VotesCountOncePerId`, `ResultsAppear` | a ballot with a commitment; the reveal and the finalization, each succeeding or failing, in one window or in two (`Limit = 2`); one aborted cycle, so that events are published again, under the same id or another one; every message received up to twice, also while its first invocation is still working on it; stale lookups; the deployed backend and mapping. The voter has the map, as in `duplicates` |
| `second_id` (violation) | `NeverAheadOfChain` | the same instance |

### What the properties say

- **The tally is right** (`TallyMatchesReveals`) and can be recomputed from the
  events (`ReplayedTally`), under duplicate options, repeated commits, a full
  counter. `ImplementsBallot` is the refinement of `Ballot`: consumers never
  see a reveal without a commit, a commit after a reveal, two open ballots or
  an event of an ended ballot. The one commitment that a voter can replace is the
  zero one (`NonzeroCommitsAreFinal`), which bounds the finding `zero_commitment`.
- **A root stands for a list.** No proof of any length and of any digests admits
  a voter who is not on the published list (`ProofsNameMembers`), the tool's
  proof for a voter of it always passes (`MembersCanProve`), and files have one
  root exactly when they name the same voters (`RootNamesVoters`).
- **The electorate is pinned.** `CommittersWereAdmitted` ties every stored
  commitment to the root and slot of `create_proposal`: who is neither on the
  pinned list nor granted by the snapshot does not vote. It does not say that
  revocations are honoured, because they are not (`revoked`).
  `FrozenAfterSnapshotSlot` says that no instruction changes who may vote from
  the slot after the snapshot on. `VersionNamesElectorate` ties version, root
  and audit event together.
- **Each vote counts once** in the Aggregator as long as no invocation dies and
  no call fails for reasons of its own (`ExactTally`, an equation over tables
  and invocations in mid-flight). Calls that DynamoDB rejects are covered: the
  vote is taken back whole.
  `ImplementsVoteCount` says the same as a refinement: look-up, effects, marker
  and rollback amount to one atomic step per vote, or to nothing.
  With crashes and failures only one half is
  left: a marked vote is in the tally (`NeverUndercounts`). How far the tally
  can run ahead is bounded twice: every vote too many is left behind by one
  invocation that stopped, lost a response or failed to undo
  (`OvercountsByFailuresOnly`), and one reception of a message adds at most one
  (`OncePerReception`), so `maxReceiveCount` bounds it.
  `NeverUndercounts` needs the row of the proposal to exist before the votes
  arrive (`Created`), see below.
- **No message vanishes unseen.** `DropsAreReported`: what leaves the queue is
  skipped, projected (marked *and* in the tables), or reported as failed by the
  invocation that returns. That the deployed mapping deletes what is reported is
  the finding of `lost_vote`; the property says that nothing else is lost there.
  Ingestion misses nothing if the gap between
  two cycles fits window and limit (`NothingMissed`), and `EveryEventPublished`
  says which payloads hold events back for ever: integers from 2^53 on hold back
  what shares a window with them, and nothing else does.
- **Across the services** no result is shown that the chain has not decided
  (`ShownMeansFinal`), every one it has decided is shown in the end
  (`ResultsAppear`), what a complete cycle covered is projected or still in a
  queue (`NothingLost`), and each id under which a vote was published counts
  once (`VotesCountOncePerId`). This composes publication ids,
  deduplication and rollback. That each *vote* counts once (`NeverAheadOfChain`)
  does not hold, because an event can get two ids (`second_id`).
- **The tools recover.** `CompletedRunIsCounted` relates "lifecycle complete" to
  the tally under another operator's calls; `RerunSucceeds` says that whatever
  a failed run left (an active ballot, a vote whose salt is lost, a registry
  with another root), the next one completes. `WaitedLongEnough` relates the
  wait on one clock to a deadline on the other.

### Assumptions named as constants

- `MaxGap`, `MaxLanded` (Ingestion): slots and transactions between two
  complete cycles. `coverage` has `MaxGap <= Lookback` and
  `MaxLanded <= Limit`, which is what `NothingMissed` needs.
- `MaxAborts` (Ingestion): how many cycles are cut short; unbounded aborts would
  mean that nothing is ever published.
- `MaxLag`, `MaxLead`, `MaxCallTime`, `WaitBuffer` (OperatorTools): how far the
  chain's clock is from the operators', how long a call takes before the
  deadline that follows it, and what `waitUntilUnix` adds after a deadline (two
  seconds). `lifecycle` has `MaxLag <= WaitBuffer`.
- `Collations` (MerkleElectorate): the ranks that `localeCompare` gives the
  voters on the machines where the tools run. One in the run.
- `Forged`, `Indices` (MerkleElectorate): digests and leaf indices that a client
  passes without having run `proof`.
- `ReportsFailures` (Aggregator): whether the mapping honours
  `BatchItemFailures`. Deployed: no, and so in every run; the theorems hold for
  both.
- `VoterMaps` (Aggregator): voters whose DynamoDB item already holds a map for
  the proposal. Deployed: none, since nothing creates one; then every vote is
  undone and deleted (`lost_vote`). The other runs give one voter the map, which
  is how the code is meant to work, and say what holds once it exists.
- `Created` (Aggregator): proposals whose row exists from the start.
- `EventIds` (Aggregator): the ids events may have; in `Pipeline` they are the
  transaction, the type and the index that `buildEventId` puts together.
- `Faults`: what may go wrong in a run.
- `MaxSlot`, `MaxTime`, `MaxEvents`, `MaxTxs`, `MaxInvocations`,
  `MaxStart`, `MaxCopies` bound the models, and nothing in the code corresponds
  to them.

### Fairness

Three runs use fairness. `coverage`: weak fairness of a cycle's calls, as
EventBridge keeps invoking the handler. `pipeline`: the same, and weak fairness
of `Consume`, which says no more than that the queue and the Aggregator do not
stand still while one of them can move: SQS delivers, messages reappear, an
invocation goes on. It is one condition for all of them; no message and no
worker is favoured. `lifecycle`: weak fairness of the two clocks and of
each process's next call, as a started process runs on; nothing is fair about
starting one.

## Theorems

`VotingProgramProofs` proves for every value of the constants that satisfies
`ConstantsAssumption` (finite voters; well-typed lists, deadlines and roots;
`ZERO` is no hash; `NONE` is no proposal):

| Theorem | Statement | Argument |
|---|---|---|
| `TypeCorrect` | `Spec => []TypeOK` | `TypeOK` is inductive; one lemma per group of instructions |
| `ActiveProposalCorrect` | `Spec => []ActiveProposalConsistent` | inductive with `ActiveInv`: without a registry no proposal exists, so `initialize_registry`, which clears the config, cannot orphan an open ballot |
| `TallyCorrect` | `Spec => []TallyMatchesReveals` | inductive with `TallyInv`: one counter per option; unallocated proposals have untouched commitments; a revealed commitment is not `ZERO`, so `commit_vote` cannot replace it and take a counted vote out of the set. One lemma each for `create_proposal`, `commit_vote`, `reveal_vote` and for everything that leaves the tally alone |
| `CommittersCorrect` | `Spec => []CommittersWereAdmitted` | inductive with `CommittersInv`: a proposal is created over untouched commitments. A grant slot is written once, when it is 0, so it cannot move past a snapshot that a stored commitment relies on; what a proposal pins changes in `create_proposal` only (`PinnedStep`) |
| `PhasesCorrect` | `Spec => []PhasesFollowClock` | inductive as it stands, over `TypeOK`: deadlines never change and the clock never goes back |
| `EndedCorrect` | `Spec => EndedProposalsImmutable` | an action property: `EndedStep` shows it of every step from a state that satisfies `TypeOK` |
| `FrozenCorrect` | `Spec => FrozenAfterSnapshotSlot` | `Accepts` restates who may commit by what the registry accounts hold; `FrozenStep` shows that each instruction keeps it from the slot after the snapshot on: grants and revocations carry a later slot, the pinned root is a copy |

`VotingLogProofs` relates the log to the accounts. `LogInv`: a ballot's events
are in the log exactly as far as its phase and its commitments say, and every
commitment has its event. From `LogInv` and `TallyInv`:

| Theorem | Statement | Argument |
|---|---|---|
| `LogCorrect` | `Spec => []LogInv` | `StepCases` sorts the instructions by what they do to ballots: nothing, create, end, commit, reveal |
| `BallotImplemented` | `Spec => ImplementsBallot` | each case emits an event that `Ballot` allows after the log `LogInv` describes |
| `RevealsCorrect` | `Spec => []RevealsOpenEarlierCommits` | the commitment a reveal opens is the one `LogInv` finds in the log |
| `ReplayCorrect` | `Spec => []ReplayedTally` | one reveal adds one to both counts; every other step adds to neither |
| `CommitsFinal` | `Spec => []NonzeroCommitsAreFinal` | `FinalInv`: a commitment in the log that is not zero is still the one its voter's account holds, so that `commit_vote` refuses the next one |
| `VersionsCorrect` | `Spec => []VersionNamesElectorate` | with `VersionInv`: whatever carries the registry's version carries its root, and nothing carries a later one |

`MerkleElectorateProofs`, for all lists, trees of any height and proofs of any
length:

| Theorem | Under | Argument |
|---|---|---|
| `ElectoratesAreTrees` (`TreesInv`) | – | what a command has built is the sorted list of a file (`SortedNames`: each named voter is in it, once) and the levels of its tree, each from the one below. Two commands with one list build the same levels as far as both went (`Agree`) |
| `RootsDiffer` (`RootsTellVotersApart`, the half of `RootNamesVoters` that says that different voters have different roots) | – | each node of a level is over voters of the list only (`Sound`), each voter is under some node of it (`Complete`); `NextLevel` keeps both |
| `RootsNameVoters` (`RootNamesVoters`) | `OneCollation` | with one order the same voters are the same list, hence the same tree |
| `ProofsAdmitMembersOnly` (`ProofsNameMembers`) | – | `NamesMembersOnly`: a set of digests that holds the root, holds both members of every pair in it, and no leaf of a stranger. The loop of the check starts outside of it with a stranger's leaf and stays outside |
| `MembersPass` (`MembersCanProve`) | `OneCollation` | `PathInv`: the index at each height that the client's loop went through, and the sibling it took there; the check climbs the same path, also where a node is its own sibling, and ends at the root (`PathEndsAtRoot`) |

`OneCollation` says that all machines rank the voters alike. Without it both
properties fail (see below). What these theorems say of the tree is an induction
over data, which the provers cannot do. The loops' iterations are actions here,
so that it becomes an invariant.

`IngestionProofs`:

| Theorem | Under | Argument |
|---|---|---|
| `TypeCorrect`, `RevertedNeverPublished` | – | `RealInv`: all that a cycle fetches, holds or has published is of a transaction that succeeded |
| `CyclesMissNothing` (`NothingMissed`) | `MaxGap <= Lookback`, `MaxLanded <= Limit`, no `missing` | no single state says what a cycle covers, so `ExtentInv` keeps that `covered` and every listing describe the chain as it once was, `WindowInv` that a cycle's window reaches back to `covered`, `WorkInv` that what a cycle listed is published or still ahead of it. `ListingCovers` is the step where the three assumptions meet |

`AggregatorProofs`:

| Theorem | Under | Argument |
|---|---|---|
| `TypeCorrect` | – | `TypeInv`: types, and an invocation has a record at hand while it is busy |
| `VisibleCorrect` | – | inductive over `TypeInv` |
| `FinalVisible` (`FinalizedIsVisible`) | `NoCreation`, `IdsNameEvents` | `ShownBeforeMark`: an invocation that is about to mark an end has shown its results, and `VisibleStays` |
| `NoUndercount` (`NeverUndercounts`) | `NoCreation`, `IdsNameEvents`, no `lost_marker` | `CoversMarks` strengthens it: the tally covers the marks and the increments still in hand, which `HandleTally` shows call by call |
| `TallyExact` (`ExactTally`) | `NoCreation`, `IdsNameEvents`, `Faultless` (no fault but `overlap`) | the equation itself is inductive, because each call moves tally, marks and work in hand together. It needs no particular backend: `MapInv` keeps that an increment still in hand has the map of counters below it, so that DynamoDB does not reject taking it back |
| `DropsReported` (`DropsAreReported`) | `NoCreation`, `IdsNameEvents`, no `lost_marker` | `VerdictInv` (who rolls back a lost race finds the marker set) and `BatchInv` (each message of a batch is settled, failed or still to do), with `NeverUndercounts` and `FinalizedIsVisible` for what the tables hold of a marked event |
| `FailuresOvercount` (`OvercountsByFailuresOnly`) | – | `TallyStep` sorts the steps by what they do to tally, marks and work in hand; only one that `Abandons` an increment adds to the excess, and by one. `MarkedGrows`: a mark on a vote raises the number of marked ones |
| `RestsWithoutOvercount` (`NeverOvercounts` whenever no invocation is at work) | only `overlap`, `lost_marker` | `TallyBound`: tally at most marks plus increments in hand, of which idle invocations have none |
| `ReceptionsBoundTally` (`OncePerReception`) | – | `ReceptionInv`: the counted votes, and the messages at hand whose vote is not counted yet, are covered by receptions. `DistinctTodo`: a batch has a message once, so that an invocation counts it once per reception |
| `CountsVotes` (`ImplementsVoteCount`) | as `TallyExact` | `SettledIsMarked`: the mapped tally is the number of marked votes, so a step counts one vote or stutters |

`NoCreation` says that no `ProposalCreated` is among the messages (the row is
there from the start), `IdsNameEvents` that an id belongs to one event; the
section on divergences says what happens without them. Every one of these
conditions is an assumption of the theorem, never of the module.

`OperatorToolsProofs`, for every value of the constants that satisfies
`ToolsAssumption` (every wallet is an admin and a voter, lists are not empty,
`NONE` is no salt and no option):

| Theorem | Under | Argument |
|---|---|---|
| `SystemTypeCorrect` (`SystemTypeOK`) | – | `ToolsInv`: a lifecycle keeps the flags it was started with and has checked, a bootstrap ends before the first call that needs them. `RunSteps` sorts the actions into starting, failing, the calls before the vote, and the vote |
| `ToolsUseProgram` (`SystemSpec => Program!Spec`) | – | every call is an instruction or leaves the chain alone (`ChainSteps`); so the theorems about the program hold below the tools |
| `WaitsLongEnough` (`WaitedLongEnough`) | `TimelyFlags` | `TimeInv`: how late a run can be at each of its steps, on the operators' clock, which is at most `MaxLag` ahead of the chain's |
| `CompletedCounted` (`CompletedRunIsCounted`) | – | `VotingInv`: what a run has achieved by each step and no other process can take back: an ended ballot stays, an opened commitment stays opened. The tally follows from `TallyInv` of the program |

`TimelyFlags` says that the buffer covers the lag and that the windows leave the
calls before a wait enough time: twice a call's duration is less than the commit
window, and the same with the buffer for the time up to the end of the reveal
window. With the defaults (20 and 50 seconds, buffer 2) it holds while calls
take less than ten seconds. The code does not enforce it: `waitUntilUnix`
returns without its buffer when the target has passed (see below).

`PipelineProofs`, for every value of the constants that satisfies
`PipelineAssumption` (finitely many events, options and invocations, events of
the known types, the assumptions of the parts):

| Theorem | Under | Argument |
|---|---|---|
| `PipelineIngests` (`Spec => Cycles!Spec`), `PipelineProjects` (`Spec => Projection!Spec`) | – | a step of one service is a stutter of the other (`CycleStep`, `ProjectionStep`); the second needs the invariant that what SNS delivered are messages |
| `ShownIsFinal` (`ShownMeansFinal`) | – | results become visible only in `ApplyEnded` (`ShowStep`); the record at hand is that of a message (`WorkInv`), and a message stands for what its transaction emitted (`SentInv`), which stays on the chain (`ChainStays`) |
| `CoveredReachQueue` (`CoveredHaveMessages`, the half of `NothingLost` before the queue) | `MaxGap <= Lookback`, `MaxLanded <= Limit`, no `missing` | composed: `CoverInv` of Ingestion through `PipelineIngests` (covered, so published), `PublishedInv` (published, so sent) |
| `AheadByIdsOnly` (`OneIdEach => NeverAheadOfChain`) | only `overlap` in the projection | `CountInv`: the tally is at most the marked ids of votes on the chain plus the increments in hand. `TallyBound` of the Aggregator shows that a step raises the tally above what is in hand only when it marks an id, with no assumption on ids and creations; a late creation only empties it |
| `IdsCountOnce` (`VotesCountOncePerId`) | only `overlap` in the projection | `CountInv` again: the marked ids of votes on the chain are among those that were published |

`PipelineInv` is what these rest on: the invariants of both parts, `IndexInv`,
`SentInv` and `WorkInv`. An event may get a second index, and
`NeverAheadOfChain` then fails (`second_id`); `AheadByIdsOnly` says that nothing
else makes it fail. Crashes and failing calls make a vote count twice,
which is why the bound excludes them; `ReceptionsBoundTally`
says how often at most. The other theorems have them wherever the model does.

Only model-checked are liveness (`EveryEventPublished`, `RerunSucceeds`,
`ResultsAppear`), which needs fairness and ENABLED, out of the
prover's reach, and the half of `NothingLost` behind the queue: as deployed a
failed message is lost, so it holds only where no call of the projection is
refused, which the instance has and no general assumption of the code gives.
Every other invariant and action property of the passing runs,
and every refinement, is a theorem.

## Known divergences

Listed as findings, each shown by a run:

- `zero_commitment`: a voter can commit twice through the zero commitment, and
  through no other one (`CommitsFinal`).
- `revoked`: a voter who was granted and revoked before a ballot opens commits by
  leaving the optional account `revoked_voter` out of the call
  (`state.rs:263`, `eligibility.rs:34`).
- `lost_vote`, twice: nothing creates the map that `proposals.#pid.has_revealed` is set in
  (`dynamodb/voters.go:29,76`), so DynamoDB rejects every vote; and the message
  that the handler reports as failed is deleted, because the mapping has no
  `function_response_types`, instead of being retried or moved to the
  dead-letter queue.
- `second_id`: the index in `event_id` is the position in the cycle's whole list, newest
  transaction first (`ingest.ts:33`, `domain/events.ts:90`), so that an event gets
  another id when a later cycle sees newer ones, and its vote counts twice. Ids
  are all that makes the pipeline count twice while no call fails
  (`AheadByIdsOnly`, `IdsCountOnce`).

Met while modelling and reproducible with the modules, without a run of their
own:

- A grant or revocation in the slot of `create_proposal`, after it, changes the
  electorate (`eligibility.rs:33`): drop the condition on `slot` from
  `FrozenAfterSnapshotSlot`.
- A voter of the root who was revoked still commits, since a revocation is read
  only next to a grant (`eligibility.rs:18,34`): run `revoked` with the voter in
  the root.
- An invocation that stops between the effects and the marker
  (`projection.go:159`) leaves a vote that the redelivery counts again, although
  `docs/setup_devnet_pipeline.md:178` says that duplicate counts "Should not
  happen": at most one per stop (`OvercountsByFailuresOnly`) and one per
  reception (`ReceptionsBoundTally`).
- A `ProposalCreated` that arrives late, or is applied again after a crash,
  resets a tally that has votes and hides results that were final
  (`dynamodb/proposals.go:43`): run `faults` with `Creation` among the
  messages and `Created = {}`.
- A put of the marker whose response is lost, or that the SDK repeats, finds its
  own marker: the vote is rolled back and stays marked, so no retry counts it
  (`dynamodb/processed.go:38`; `.cursor/rules/testing/testing_go_services.mdc:91`
  expects that a retry does). `NeverUndercounts` and
  `DropsAreReported` fail with `lost_marker`.
- An increment (`ADD`) that the SDK repeats after a lost response counts twice
  (`dynamodb/proposals.go:70`); not modelled.
- The program takes any deadline of 64 bits; from 2^53 on `toNumber` throws, and
  every cycle with the transaction in its window stops there
  (`anchor-events.ts:51`). `coverage` has such a deadline on the chain;
  `EveryEventPublished` fails without the exception it makes for it.
- `create_proposal` accepts duplicate options, DynamoDB's string set does not:
  such a ballot never gets a row (`dynamodb/proposals.go:54`).
- `localeCompare` depends on the machine's locale, while
  `docs/ADR/0001-electorate-enumeration-canonical-list.md:8` asks for
  lexicographic order (`electorate.ts:105`): with two `Collations`
  `MembersCanProve` and `RootNamesVoters` fail. `ProofsNameMembers` and
  `RootsTellVotersApart` hold for any.
- `devnet-pipeline` closes the active ballot and replaces the root before it
  finds that the wallet is not on the list (`lifecycle.ts:87`), and does not
  check `--option` against the options, so that such a vote is committed and
  can never be opened (`cli.ts:114`).
- `waitUntilUnix` returns at once, without its buffer, when the target has
  passed (`wait.ts:4`): with calls so slow that `TimelyFlags` fails, a reveal can
  come too early.
- Of two invocations that record one commit, the loser's rollback clears the
  flag of the winner (`projection.go:101`): run
  `duplicates` with two copies of `Commit1`.
- With the defaults a cycle looks back 50 slots and runs once a minute, about
  150 slots: `NothingMissed` fails as soon as `MaxGap > Lookback`
  (`solana-client.ts:20,30`).
- Two events of one transaction can get each other's ids in two cycles
  (`domain/events.ts:90`).

## Not modelled, and why

- Ingestion's configuration, PDA derivation, byte layouts, argument parsing and
  printing of the tools: stateless conversions with nothing a property tells
  apart; the repository tests them with vectors.
- IAM, log groups, table capacity and the forwarder's queue: no behaviour, or no
  consumer in the repository. GCP, Forwarder, Analytics, the gRPC API and the
  user interface exist in documents only.
- `RemoveProcessed`: no caller.
- Forks and rollbacks of confirmed blocks, expiry of messages after the
  retention period, and calls the SDKs repeat on their own.

## Plan

What is left, in this order:

1. `Pipeline` with two voters and two options, on bounds that TLC can still
   exhaust.
2. A property of how many later cycles make up for a transaction that the node
   did not serve (the fault `missing`, used by no run yet).
