---------------------------- MODULE VotingProgram ----------------------------
(***************************************************************************)
(* The on-chain voting program: one action per instruction of              *)
(* smart-contract/programs/voting.  An instruction that returns an error   *)
(* reverts the whole transaction, so an action is enabled exactly when     *)
(* every check of its handler and of its account context succeeds, and     *)
(* then performs all of the handler's writes at once.                      *)
(*                                                                         *)
(* Data.  A Merkle root stands for the set of voters whose leaf it proves. *)
(* A commitment hash is the record of what was hashed: SHA-256 is taken as *)
(* injective.  An account that does not exist yet is its zeroed content,   *)
(* which is what Anchor's init and init_if_needed hand to the handler.     *)
(*                                                                         *)
(* The operators named Faulty... are slips a change to the code could make *)
(* in the definition that follows them.  No action uses them; they show    *)
(* that each property can fail.                                            *)
(***************************************************************************)
EXTENDS Naturals, Sequences, FiniteSets

CONSTANTS
  Voters,        (* pubkeys that may sign commit_vote and reveal_vote       *)
  Grantable,     (* the voters an authority ever grants or revokes          *)
  Admins,        (* pubkeys that may hold the registry authority            *)
  ProposalIds,   (* proposal ids, hence proposal account addresses          *)
  Options,       (* option ids                                              *)
  OptionLists,   (* the option lists callers of create_proposal pass        *)
  Deadlines,     (* the <<commit_ends_at, reveal_ends_at>> they pass        *)
  Salts,         (* 32-byte salts                                           *)
  Electorates,   (* the Merkle roots callers pass, as sets of voters        *)
  ZERO,          (* 32 zero bytes, the content of a new commitment account  *)
  NONE,          (* Option::None                                            *)
  MaxU64,        (* u64::MAX, the limit of the checked additions            *)
  MaxSlot,       (* bound of the model: the last slot of the cluster        *)
  MaxTime,       (* bound of the model: the last Clock unix_timestamp       *)
  MaxEvents      (* bound of the model: the length of the log               *)

\* A commitment: the SHA-256 of proposal id, salt, voter and option.
VoteCommitment(p, s, v, o) ==
  [proposal |-> p, salt |-> s, voter |-> v, option |-> o]

Hashes ==
  [proposal : ProposalIds, salt : Salts, voter : Voters, option : Options]

\* What a client may pass as `commitment`: any 32 bytes.
Commitments == Hashes \cup {ZERO}

ASSUME ConstantsAssumption ==
  /\ IsFiniteSet(Voters)
  /\ Grantable \subseteq Voters
  /\ OptionLists \subseteq Seq(Options)
  /\ Deadlines \subseteq Nat \X Nat
  /\ Electorates \subseteq SUBSET Voters
  /\ ZERO \notin Hashes
  /\ NONE \notin ProposalIds \cup Admins
  /\ MaxU64 \in Nat \ {0}
  /\ MaxSlot \in Nat
  /\ MaxTime \in Nat
  /\ MaxEvents \in Nat

VARIABLES
  registry,         (* VoterRegistry                                        *)
  active_proposal,  (* ProgramConfig.active_proposal                        *)
  proposals,        (* the Proposal account of every id                     *)
  commitments,      (* the CommitmentAccount of every id and voter          *)
  granted,          (* GrantedVoter.granted_at_slot, 0 if never granted     *)
  revoked,          (* RevokedVoter.revoked_at_slot, 0 if never revoked     *)
  slot,             (* Clock.slot                                           *)
  now,              (* Clock.unix_timestamp                                 *)
  log               (* the events of the transactions, in order             *)

vars == <<registry, active_proposal, proposals, commitments, granted, revoked,
          slot, now, log>>

------------------------------------------------------------------------------
(* Accounts.                                                               *)

Phases == {"Unallocated", "Commit", "Reveal", "Finalized", "Closed"}

IsActive(phase) == phase \in {"Commit", "Reveal"}

VoterRegistry ==
  [authority : Admins \cup {NONE}, merkle_root : SUBSET Voters,
   version : 0..MaxU64]

NoRegistry == [authority |-> NONE, merkle_root |-> {}, version |-> 0]

Proposal ==
  [options : Seq(Options), commit_ends_at : Nat, reveal_ends_at : Nat,
   phase : Phases, electorate_merkle_root : SUBSET Voters,
   electorate_registry_version : 0..MaxU64, electorate_snapshot_slot : Nat,
   option_counts : Seq(0..MaxU64)]

NoProposal ==
  [options |-> <<>>, commit_ends_at |-> 0, reveal_ends_at |-> 0,
   phase |-> "Unallocated", electorate_merkle_root |-> {},
   electorate_registry_version |-> 0, electorate_snapshot_slot |-> 0,
   option_counts |-> <<>>]

CommitmentAccount == [commitment : Commitments, revealed : BOOLEAN]

NoCommitment == [commitment |-> ZERO, revealed |-> FALSE]

(* Events, without the slot each of them also carries.                     *)

RootUpdated(root, version) ==
  [type |-> "EligibleVotersRootUpdated", merkle_root |-> root,
   registry_version |-> version]

EligibilityChanged(type, v) == [type |-> type, voter |-> v]

ProposalCreated(p, root, version) ==
  [type |-> "ProposalCreated", proposal |-> p, electorate_merkle_root |-> root,
   electorate_registry_version |-> version]

VoteCommitted(p, v, c) ==
  [type |-> "VoteCommitted", proposal |-> p, voter |-> v, commitment |-> c]

VoteRevealed(p, v, o) ==
  [type |-> "VoteRevealed", proposal |-> p, voter |-> v, option |-> o]

ProposalEnded(type, p) == [type |-> type, proposal |-> p]

Events ==
  [type : {"EligibleVotersRootUpdated"}, merkle_root : SUBSET Voters,
   registry_version : 0..MaxU64]
  \cup [type : {"VoterEligibilityGranted", "VoterEligibilityRevoked"},
        voter : Voters]
  \cup [type : {"ProposalCreated"}, proposal : ProposalIds,
        electorate_merkle_root : SUBSET Voters,
        electorate_registry_version : 0..MaxU64]
  \cup [type : {"VoteCommitted"}, proposal : ProposalIds, voter : Voters,
        commitment : Commitments]
  \cup [type : {"VoteRevealed"}, proposal : ProposalIds, voter : Voters,
        option : Options]
  \cup [type : {"ProposalClosed", "ProposalFinalized"}, proposal : ProposalIds]

Emit(e) ==
  /\ Len(log) < MaxEvents
  /\ log' = Append(log, e)

------------------------------------------------------------------------------
Init ==
  /\ registry = NoRegistry
  /\ active_proposal = NONE
  /\ proposals = [p \in ProposalIds |-> NoProposal]
  /\ commitments = [p \in ProposalIds |-> [v \in Voters |-> NoCommitment]]
  /\ granted = [v \in Voters |-> 0]
  /\ revoked = [v \in Voters |-> 0]
  /\ slot = 1
  /\ now = 0
  /\ log = <<>>

\* The cluster produces a slot; its timestamp may or may not have moved.
Tick ==
  /\ slot < MaxSlot
  /\ slot' = slot + 1
  /\ now' \in {now, now + 1}
  /\ now' <= MaxTime
  /\ UNCHANGED <<registry, active_proposal, proposals, commitments, granted,
                 revoked, log>>

------------------------------------------------------------------------------
(* Registry instructions.                                                  *)

RegistryExists == registry.version # 0

\* has_one = authority of the account contexts.
IsAuthority(a) == RegistryExists /\ registry.authority = a

InitializeRegistry(a, root) ==
  /\ ~RegistryExists
  /\ registry' = [authority |-> a, merkle_root |-> root, version |-> 1]
  /\ active_proposal' = NONE
  /\ UNCHANGED <<proposals, commitments, granted, revoked, slot, now, log>>

TransferAuthority(a, new_authority) ==
  /\ IsAuthority(a)
  /\ registry' = [registry EXCEPT !.authority = new_authority]
  /\ UNCHANGED <<active_proposal, proposals, commitments, granted, revoked,
                 slot, now, log>>

\* Slip: the version is not incremented.
FaultyNextVersion(version) == version

\* The version update_merkle_root stores.
NextVersion(version) == version + 1

UpdateMerkleRoot(a, root) ==
  /\ IsAuthority(a)
  /\ registry.version < MaxU64
  /\ registry' = [registry EXCEPT !.merkle_root = root,
                                  !.version = NextVersion(@)]
  /\ Emit(RootUpdated(root, NextVersion(registry.version)))
  /\ UNCHANGED <<active_proposal, proposals, commitments, granted, revoked,
                 slot, now>>

GrantEligibility(a, v) ==
  /\ IsAuthority(a)
  /\ granted[v] = 0
  /\ granted' = [granted EXCEPT ![v] = slot]
  /\ Emit(EligibilityChanged("VoterEligibilityGranted", v))
  /\ UNCHANGED <<registry, active_proposal, proposals, commitments, revoked,
                 slot, now>>

RevokeEligibility(a, v) ==
  /\ IsAuthority(a)
  /\ revoked[v] = 0
  /\ revoked' = [revoked EXCEPT ![v] = slot]
  /\ Emit(EligibilityChanged("VoterEligibilityRevoked", v))
  /\ UNCHANGED <<registry, active_proposal, proposals, commitments, granted,
                 slot, now>>

------------------------------------------------------------------------------
(* Proposal instructions.                                                  *)

MAX_OPTIONS == 16

ValidOptions(options) == Len(options) \in 2..MAX_OPTIONS

\* config.active_proposal.is_none(), the only guard against a second ballot.
NoActiveProposal == active_proposal = NONE

\* The slot create_proposal pins the electorate to.
SnapshotSlot == slot

\* Any signer may create a proposal.
CreateProposal(p, options, commit_ends_at, reveal_ends_at) ==
  /\ RegistryExists
  /\ proposals[p].phase = "Unallocated"
  /\ ValidOptions(options)
  /\ commit_ends_at > now
  /\ reveal_ends_at > commit_ends_at
  /\ NoActiveProposal
  /\ proposals' = [proposals EXCEPT ![p] =
       [options |-> options, commit_ends_at |-> commit_ends_at,
        reveal_ends_at |-> reveal_ends_at, phase |-> "Commit",
        electorate_merkle_root |-> registry.merkle_root,
        electorate_registry_version |-> registry.version,
        electorate_snapshot_slot |-> SnapshotSlot,
        option_counts |-> [i \in 1..Len(options) |-> 0]]]
  /\ active_proposal' = p
  /\ Emit(ProposalCreated(p, registry.merkle_root, registry.version))
  /\ UNCHANGED <<registry, commitments, granted, revoked, slot, now>>

\* Slip: the config keeps naming the ended proposal.
FaultyClearActiveIfMatch(p) == active_proposal

\* clear_active_if_match: what config.active_proposal becomes when p ends.
ClearActiveIfMatch(p) == IF active_proposal = p THEN NONE ELSE active_proposal

CloseProposal(a, p) ==
  /\ IsAuthority(a)
  /\ IsActive(proposals[p].phase)
  /\ proposals' = [proposals EXCEPT ![p].phase = "Closed"]
  /\ active_proposal' = ClearActiveIfMatch(p)
  /\ Emit(ProposalEnded("ProposalClosed", p))
  /\ UNCHANGED <<registry, commitments, granted, revoked, slot, now>>

\* Slip: the wrong deadline.
FaultyRevealEnded(p) == now >= proposals[p].commit_ends_at

\* The guard on the clock of finalize_proposal.
RevealEnded(p) == now >= proposals[p].reveal_ends_at

\* Anyone may finalize.
FinalizeProposal(p) ==
  /\ IsActive(proposals[p].phase)
  /\ RevealEnded(p)
  /\ proposals' = [proposals EXCEPT ![p].phase = "Finalized"]
  /\ active_proposal' = ClearActiveIfMatch(p)
  /\ Emit(ProposalEnded("ProposalFinalized", p))
  /\ UNCHANGED <<registry, commitments, granted, revoked, slot, now>>

------------------------------------------------------------------------------
(* Vote instructions.                                                      *)

\* Slip: the grant slot is not compared with the snapshot.
FaultyGrantCounts(p, v, accts) ==
  /\ "granted" \in accts
  /\ "revoked" \in accts => revoked[v] > proposals[p].electorate_snapshot_slot

\* The grant of v counts for p; accts are the optional accounts the client sent.
GrantCounts(p, v, accts) ==
  /\ "granted" \in accts
  /\ granted[v] <= proposals[p].electorate_snapshot_slot
  /\ "revoked" \in accts => revoked[v] > proposals[p].electorate_snapshot_slot

\* Slip: the live root instead of the pinned one.
FaultyIsVoterEligible(p, v, proof, accts) ==
  \/ proof /\ v \in registry.merkle_root
  \/ GrantCounts(p, v, accts)

\* is_voter_eligible; proof says whether the client sent the voter's path.
IsVoterEligible(p, v, proof, accts) ==
  \/ proof /\ v \in proposals[p].electorate_merkle_root
  \/ GrantCounts(p, v, accts)

\* The optional accounts of commit_vote deserialize only if they exist.
OptionalAccounts(v) ==
  {accts \in SUBSET {"granted", "revoked"} :
     /\ "granted" \in accts => granted[v] # 0
     /\ "revoked" \in accts => revoked[v] # 0}

\* Slip: the deadline alone, not the phase.
FaultyCommitOpenOnClock(p) == now < proposals[p].commit_ends_at

CommitOpen(p) ==
  /\ proposals[p].phase = "Commit"
  /\ now < proposals[p].commit_ends_at

\* Slip: only an opened commitment is in the way.
FaultyAlreadyCommitted(p, v) == commitments[p][v].revealed

\* already_committed compares the stored bytes with zero.
AlreadyCommitted(p, v) == commitments[p][v].commitment # ZERO

CommitVote(p, v, c, proof, accts) ==
  /\ CommitOpen(p)
  /\ IsVoterEligible(p, v, proof, accts)
  /\ ~AlreadyCommitted(p, v)
  /\ commitments' = [commitments EXCEPT ![p][v] =
                       [commitment |-> c, revealed |-> FALSE]]
  /\ Emit(VoteCommitted(p, v, c))
  /\ UNCHANGED <<registry, active_proposal, proposals, granted, revoked, slot,
                 now>>

\* Slip: the clock alone, not the phase.
FaultyRevealOpenOnClock(p) ==
  /\ now >= proposals[p].commit_ends_at
  /\ now < proposals[p].reveal_ends_at

RevealOpen(p) ==
  /\ IsActive(proposals[p].phase)
  /\ now >= proposals[p].commit_ends_at
  /\ now < proposals[p].reveal_ends_at

\* option_index: the first position that holds option o.
IsOptionIndex(options, o, i) ==
  /\ i \in DOMAIN options
  /\ options[i] = o
  /\ \A j \in 1..(i - 1) : options[j] # o

\* Slip: every counter from i on is incremented.
FaultyCountVote(counts, i) ==
  [j \in DOMAIN counts |-> IF j >= i THEN counts[j] + 1 ELSE counts[j]]

\* What reveal_vote stores: one more vote for the option at i.
CountVote(counts, i) == [counts EXCEPT ![i] = @ + 1]

\* Slip: an unchecked addition.
FaultyCountFits(counts, i) == TRUE

\* checked_add(1) succeeds.
CountFits(counts, i) == counts[i] < MaxU64

\* Slip: the flag is not read.
FaultyAlreadyRevealed(p, v) == FALSE

\* The revealed flag of the commitment account.
AlreadyRevealed(p, v) == commitments[p][v].revealed

\* Slip: the option is not part of the hash.
FaultyOpensCommitment(p, v, o, s) ==
  \E x \in Options : VoteCommitment(p, s, v, x) = commitments[p][v].commitment

\* The hash check of reveal_vote.
OpensCommitment(p, v, o, s) ==
  VoteCommitment(p, s, v, o) = commitments[p][v].commitment

RevealVote(p, v, o, s) ==
  /\ RevealOpen(p)
  /\ ~AlreadyRevealed(p, v)
  /\ OpensCommitment(p, v, o, s)
  /\ \E i \in DOMAIN proposals[p].options :
       /\ IsOptionIndex(proposals[p].options, o, i)
       /\ CountFits(proposals[p].option_counts, i)
       /\ proposals' = [proposals EXCEPT
            ![p].phase = "Reveal",
            ![p].option_counts = CountVote(proposals[p].option_counts, i)]
  /\ commitments' = [commitments EXCEPT ![p][v].revealed = TRUE]
  /\ Emit(VoteRevealed(p, v, o))
  /\ UNCHANGED <<registry, active_proposal, granted, revoked, slot, now>>

------------------------------------------------------------------------------
RegistryStep ==
  \E a \in Admins :
    \/ \E root \in Electorates : InitializeRegistry(a, root)
    \/ \E root \in Electorates : UpdateMerkleRoot(a, root)
    \/ \E b \in Admins : TransferAuthority(a, b)
    \/ \E v \in Grantable : GrantEligibility(a, v)
    \/ \E v \in Grantable : RevokeEligibility(a, v)

ProposalStep ==
  \E p \in ProposalIds :
    \/ \E options \in OptionLists, ends \in Deadlines :
         CreateProposal(p, options, ends[1], ends[2])
    \/ \E a \in Admins : CloseProposal(a, p)
    \/ FinalizeProposal(p)

VoteStep ==
  \E p \in ProposalIds, v \in Voters :
    \/ \E c \in Commitments, proof \in BOOLEAN :
         \E accts \in OptionalAccounts(v) : CommitVote(p, v, c, proof, accts)
    \/ \E o \in Options, s \in Salts : RevealVote(p, v, o, s)

Next == Tick \/ RegistryStep \/ ProposalStep \/ VoteStep

Spec == Init /\ [][Next]_vars

------------------------------------------------------------------------------
(* Properties.                                                             *)

\* Every account holds a value of its type.
TypeOK ==
  /\ registry \in VoterRegistry
  /\ active_proposal \in ProposalIds \cup {NONE}
  /\ proposals \in [ProposalIds -> Proposal]
  /\ commitments \in [ProposalIds -> [Voters -> CommitmentAccount]]
  /\ granted \in [Voters -> Nat]
  /\ revoked \in [Voters -> Nat]
  /\ slot \in Nat \ {0}
  /\ now \in Nat
  /\ log \in Seq(Events)

\* config.active_proposal names the one proposal whose phase still takes votes
\* and is None when there is none: "at most one open proposal", although no
\* instruction but create_proposal reads it and finalize is open to anyone.
ActiveProposalConsistent ==
  \A p \in ProposalIds : active_proposal = p <=> IsActive(proposals[p].phase)

\* The voters of p whose vote was counted at position i.
CountedAt(p, i) ==
  {v \in Voters :
     /\ commitments[p][v].revealed
     /\ IsOptionIndex(proposals[p].options, commitments[p][v].commitment.option, i)}

\* The stored tally is the number of voters whose opened commitment names the
\* option: no vote is counted twice, lost, or counted for another option.
TallyMatchesReveals ==
  \A p \in ProposalIds :
    \A i \in DOMAIN proposals[p].option_counts :
      proposals[p].option_counts[i] = Cardinality(CountedAt(p, i))

\* Positions of the log that hold an event of the type for p.
EventsOf(type, p) ==
  {k \in DOMAIN log : log[k].type = type /\ log[k].proposal = p}

\* Replaying the VoteRevealed events gives the stored tally, whatever happened
\* in between: what Ingestion and the Aggregator rely on.
ReplayedTally ==
  \A p \in ProposalIds :
    \A i \in DOMAIN proposals[p].option_counts :
      proposals[p].option_counts[i] =
        Cardinality({k \in EventsOf("VoteRevealed", p) :
                       IsOptionIndex(proposals[p].options, log[k].option, i)})

\* Votes are revealed only against a commitment the same voter published
\* earlier for this proposal, and for the option that was committed.
RevealsOpenEarlierCommits ==
  \A p \in ProposalIds : \A k \in EventsOf("VoteRevealed", p) :
    \E i \in EventsOf("VoteCommitted", p), s \in Salts :
      /\ i < k
      /\ log[i].voter = log[k].voter
      /\ log[i].commitment = VoteCommitment(p, s, log[k].voter, log[k].option)

\* The program emits its events in the order a Ballot allows.
Contract == INSTANCE Ballot

ImplementsBallot == Contract!Spec

\* The voters commit_vote would accept for p, for some choice of proof and
\* optional accounts.
MayCommit(p) ==
  {v \in Voters : \E proof \in BOOLEAN, accts \in OptionalAccounts(v) :
                    IsVoterEligible(p, v, proof, accts)}

\* A stored commitment belongs to a voter whom p admitted when it was opened: one
\* of the root of its version, or one granted no later than its snapshot slot.
\* Whether a revocation counts is RevokedCannotCommit.
CommittersWereAdmitted ==
  \A p \in ProposalIds, v \in Voters :
    commitments[p][v].commitment # ZERO =>
      \/ v \in proposals[p].electorate_merkle_root
      \/ granted[v] \in 1..proposals[p].electorate_snapshot_slot

\* A voter whose last registry change before the snapshot is a revocation has no
\* commitment for p.  The code does not keep this: the client chooses the optional
\* accounts of commit_vote, and a revocation it leaves out is not consulted; one of
\* a voter of the root never is.
RevokedCannotCommit ==
  \A p \in ProposalIds, v \in Voters :
    commitments[p][v].commitment # ZERO =>
      ~ (/\ granted[v] <= revoked[v]
         /\ 0 < revoked[v] /\ revoked[v] < proposals[p].electorate_snapshot_slot)

\* From the slot after the snapshot on, no instruction changes who may vote on
\* a proposal: update_merkle_root, grant and revoke reach later ones only.
FrozenAfterSnapshotSlot ==
  [][\A p \in ProposalIds :
       IsActive(proposals[p].phase)
         /\ slot > proposals[p].electorate_snapshot_slot
       => MayCommit(p)' = MayCommit(p)]_vars

\* A voter publishes at most one commitment per proposal.  A commitment of 32
\* zero bytes is not recognized as one, so the code allows a second.
OneCommitPerVoter ==
  \A p \in ProposalIds : \A i, j \in EventsOf("VoteCommitted", p) :
    log[i].voter = log[j].voter => i = j

\* That is all the code allows: a commitment that is not zero is the last one its
\* voter publishes for the proposal, in every phase and after every other vote.
NonzeroCommitsAreFinal ==
  \A p \in ProposalIds : \A i, j \in EventsOf("VoteCommitted", p) :
    log[i].voter = log[j].voter /\ i < j => log[i].commitment = ZERO

\* A version names one electorate: proposals of the same version pin the same
\* root, and it is the root the registry's audit event of that version carries.
VersionNamesElectorate ==
  \A p \in ProposalIds : LET pr == proposals[p] IN
    pr.phase # "Unallocated" =>
      /\ \A q \in ProposalIds :
           /\ proposals[q].phase # "Unallocated"
           /\ proposals[q].electorate_registry_version = pr.electorate_registry_version
           => proposals[q].electorate_merkle_root = pr.electorate_merkle_root
      /\ \A k \in DOMAIN log :
           /\ log[k].type = "EligibleVotersRootUpdated"
           /\ log[k].registry_version = pr.electorate_registry_version
           => log[k].merkle_root = pr.electorate_merkle_root

\* Phases follow the clock although only instructions move them: no vote is
\* opened before the commit deadline, and no result is final before the reveal
\* deadline has passed.
PhasesFollowClock ==
  \A p \in ProposalIds :
    /\ proposals[p].phase = "Reveal" => now >= proposals[p].commit_ends_at
    /\ proposals[p].phase = "Finalized" => now >= proposals[p].reveal_ends_at

\* Once a proposal is finalized or closed neither it nor any commitment for it
\* ever changes again: late commits and reveals cannot touch a result.
EndedProposalsImmutable ==
  [][\A p \in ProposalIds :
       proposals[p].phase \in {"Finalized", "Closed"}
       => UNCHANGED <<proposals[p], commitments[p]>>]_vars

------------------------------------------------------------------------------
(* The inductive invariants behind ActiveProposalConsistent,               *)
(* TallyMatchesReveals and CommittersWereAdmitted.                         *)

\* There is no proposal before there is a registry, so initialize_registry
\* never clears the config of a live one.
ActiveInv ==
  /\ ActiveProposalConsistent
  /\ ~RegistryExists =>
       \A p \in ProposalIds : proposals[p].phase = "Unallocated"

\* A tally starts at zero over untouched commitments, has one counter per
\* option, and a counted commitment is no longer the zero one that commit_vote
\* would overwrite.
TallyInv ==
  /\ TallyMatchesReveals
  /\ \A p \in ProposalIds :
       DOMAIN proposals[p].option_counts = DOMAIN proposals[p].options
  /\ \A p \in ProposalIds, v \in Voters :
       /\ proposals[p].phase = "Unallocated" => ~commitments[p][v].revealed
       /\ commitments[p][v].revealed => commitments[p][v].commitment # ZERO

\* A proposal is created over untouched commitments, so that none of them is
\* older than the electorate they are held against.
CommittersInv ==
  /\ CommittersWereAdmitted
  /\ \A p \in ProposalIds, v \in Voters :
       proposals[p].phase = "Unallocated" => commitments[p][v].commitment = ZERO
==============================================================================
