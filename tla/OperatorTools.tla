---------------------------- MODULE OperatorTools ----------------------------
(***************************************************************************)
(* The command-line tools over the voting program.  devnet-pipeline runs a *)
(* whole ballot with one wallet as authority and voter; eligibility-admin  *)
(* submits one registry instruction per command.                           *)
(*                                                                         *)
(* A run of devnet-pipeline is a process that awaits one remote call after *)
(* another, one action per call, so that runs of other operators and the   *)
(* clocks move in between.  It keeps all it knows in memory: a run that    *)
(* fails exits, and what it left on chain is up to the next one.  A call   *)
(* is an instruction of VotingProgram; the program rejects it exactly when *)
(* the instruction is not enabled.                                         *)
(*                                                                         *)
(* Deadlines are computed and awaited on the operators' clock and checked  *)
(* on the chain's.  A voter list is the set of its voters, and so is the   *)
(* root built from it (MerkleElectorate).  Faulty... operators are slips   *)
(* in the definition that follows; no action uses them.                    *)
(***************************************************************************)
EXTENDS VotingProgram

CONSTANTS
  Runs,             (* processes of devnet-pipeline                         *)
  WalletOf,         (* the keypair file each process is started with        *)
  Lists,            (* the voter lists that --list files hold               *)
  OptionFlags,      (* the values of --option                               *)
  LifecycleOptions, (* the options of the ballots devnet-pipeline creates   *)
  Windows,          (* the <<commit-seconds, reveal-seconds>> flags         *)
  WaitBuffer,       (* the seconds waitUntilUnix waits beyond its target    *)
  MaxLag,           (* assumption: seconds the chain's clock may be behind  *)
  MaxLead,          (* assumption: seconds it may be ahead                  *)
  MaxCallTime,      (* assumption: seconds a call or a wake-up may take     *)
  Faults,           (* "crash", "lost_request", "lost_response"             *)
  MaxInvocations,   (* bound of the model: invocations of either tool       *)
  MaxStart          (* bound of the model: the time of the last invocation  *)

ASSUME ToolsAssumption ==
  /\ WalletOf \in [Runs -> Admins \cap Voters]
  /\ Lists \subseteq (SUBSET Voters) \ {{}}
  /\ OptionFlags \subseteq Options
  /\ LifecycleOptions \in Seq(Options)
  /\ Windows \subseteq Nat \X Nat
  /\ {WaitBuffer, MaxLag, MaxLead, MaxCallTime, MaxInvocations, MaxStart} \subseteq Nat
  /\ Faults \subseteq {"crash", "lost_request", "lost_response"}
  /\ NONE \notin Salts \cup Options

VARIABLES
  run,          (* what every process of devnet-pipeline is doing           *)
  clock,        (* Date.now() / 1000 on the operators' machines             *)
  invocations   (* how often a tool was started                             *)

tools == <<run, clock, invocations>>

allVars == <<vars, tools>>

\* The calls of a run in their order, the two waits and how it ends.
Calls ==
  {"exists", "init", "update", "config", "close", "create", "commit", "reveal",
   "finalize"}
Waits == {"wait_reveal", "wait_finalize"}
Stopped == {"idle", "done", "failed"}

\* since: when it reached pc, or is to wake up; active: the proposal that
\* fetching the config found active.
Run ==
  [pc : Calls \cup Waits \cup Stopped, cmd : {"bootstrap", "lifecycle"},
   list : SUBSET Voters, proposal : ProposalIds \cup {NONE},
   option : Options \cup {NONE}, window : Nat \X Nat, active : ProposalIds \cup {NONE},
   commit_ends_at : Nat, reveal_ends_at : Nat, salt : Salts \cup {NONE}, since : Nat]

Idle ==
  [pc |-> "idle", cmd |-> "bootstrap", list |-> {}, proposal |-> NONE, option |-> NONE,
   window |-> <<0, 0>>, active |-> NONE, commit_ends_at |-> 0, reveal_ends_at |-> 0,
   salt |-> NONE, since |-> 0]

SystemInit ==
  /\ Init
  /\ run = [r \in Runs |-> Idle]
  /\ clock = 0
  /\ invocations = 0

\* The wallet pays and signs as authority, and votes.
Authority(r) == WalletOf[r]

\* The list that write-voter-list makes.
WrittenList(r) == {Authority(r)}

------------------------------------------------------------------------------
(* Starting a process, and the calls it makes.                             *)

MayInvoke == invocations < MaxInvocations /\ clock <= MaxStart

\* readPositiveIntFlag throws for anything else.
IsPositiveIntFlag(n) == n > 0

\* Slip: each flag is checked on its own only.
FaultyValidWindow(window) ==
  IsPositiveIntFlag(window[1]) /\ IsPositiveIntFlag(window[2])

\* The flags of lifecycle: both positive, the reveal window after the commit one.
ValidWindow(window) ==
  /\ IsPositiveIntFlag(window[1]) /\ IsPositiveIntFlag(window[2])
  /\ window[2] > window[1]

\* bootstrap: the list file is read and its root built before any call.
StartBootstrap(r, list) ==
  /\ run[r].pc \in Stopped
  /\ MayInvoke
  /\ run' = [run EXCEPT ![r] =
       [Idle EXCEPT !.pc = "exists", !.list = list, !.since = clock]]
  /\ invocations' = invocations + 1
  /\ UNCHANGED <<vars, clock>>

\* lifecycle, with its flags.
StartLifecycle(r, list, p, o, window) ==
  /\ run[r].pc \in Stopped
  /\ MayInvoke
  /\ ValidWindow(window)
  /\ run' = [run EXCEPT ![r] =
       [Idle EXCEPT !.pc = "exists", !.cmd = "lifecycle", !.list = list, !.proposal = p,
                    !.option = o, !.window = window, !.since = clock]]
  /\ invocations' = invocations + 1
  /\ UNCHANGED <<vars, clock>>

\* Faults stop before the last invocation, so that it can show the recovery.
Happens(fault) == fault \in Faults /\ invocations < MaxInvocations

At(r, pc) == [run[r] EXCEPT !.pc = pc, !.since = clock]

\* An exception ends the process; what it held in memory is gone.
Failed(r) == [run[r] EXCEPT !.pc = "failed", !.salt = NONE]

\* One rpc(): the transaction is confirmed; it is, but the tool is not told; or
\* it is rejected or never lands.
Call(r, Instruction, onOk, onError) ==
  \/ Instruction /\ run' = [run EXCEPT ![r] = onOk]
  \/ /\ Happens("lost_response")
     /\ Instruction
     /\ run' = [run EXCEPT ![r] = onError]
  \/ /\ Happens("lost_request") \/ ~ENABLED Instruction
     /\ run' = [run EXCEPT ![r] = onError]
     /\ UNCHANGED vars

------------------------------------------------------------------------------
(* Both commands: initializeRegistryIfNeeded, updateMerkleRoot.            *)

\* getAccountInfo of the registry.
CheckRegistry(r) ==
  /\ run[r].pc = "exists"
  /\ run' = [run EXCEPT ![r] = At(r, IF RegistryExists THEN "update" ELSE "init")]
  /\ UNCHANGED vars

InitializeIfNeeded(r) ==
  /\ run[r].pc = "init"
  /\ Call(r, InitializeRegistry(Authority(r), run[r].list), At(r, "update"), Failed(r))

\* What follows the root: bootstrap is done, lifecycle goes on.
AfterUpdate(r) == IF run[r].cmd = "bootstrap" THEN "done" ELSE "config"

UpdateRoot(r) ==
  /\ run[r].pc = "update"
  /\ Call(r, UpdateMerkleRoot(Authority(r), run[r].list), At(r, AfterUpdate(r)), Failed(r))

------------------------------------------------------------------------------
(* lifecycle: closeActiveProposalIfAny, then a ballot of its own.          *)

\* The deadlines of the ballot, on the operator's clock; merkleProofForVoter
\* throws for a wallet that is not on the list.
Prepared(r) ==
  IF Authority(r) \in run[r].list
  THEN [At(r, "create") EXCEPT !.commit_ends_at = clock + run[r].window[1],
                               !.reveal_ends_at = clock + run[r].window[2]]
  ELSE Failed(r)

\* The config is fetched, and the active proposal if there is one.
FetchConfig(r) ==
  /\ run[r].pc = "config"
  /\ run' = [run EXCEPT ![r] =
       IF active_proposal = NONE THEN Prepared(r)
       ELSE [At(r, "close") EXCEPT !.active = active_proposal]]
  /\ UNCHANGED vars

\* Slip: a failed close is reported instead of being ignored.
FaultyAfterFailedClose(r) == Failed(r)

\* The proposal may be finalized or closed by now: every error is ignored.
AfterFailedClose(r) == Prepared(r)

CloseActive(r) ==
  /\ run[r].pc = "close"
  /\ Call(r, CloseProposal(Authority(r), run[r].active), Prepared(r), AfterFailedClose(r))

Create(r) ==
  /\ run[r].pc = "create"
  /\ Call(r, CreateProposal(run[r].proposal, LifecycleOptions, run[r].commit_ends_at,
                            run[r].reveal_ends_at),
          At(r, "commit"), Failed(r))

\* The path proves the wallet against the root of the run's own list only.
ProofFits(r) == run[r].list = proposals[run[r].proposal].electorate_merkle_root

\* Slip: the wait ends at the target itself.
FaultyWakeUp(target) == IF clock >= target THEN clock ELSE target

\* waitUntilUnix: at once if the target has passed, else the buffer beyond it.
WakeUp(target) == IF clock >= target THEN clock ELSE target + WaitBuffer

WaitFor(r, pc, target) == [run[r] EXCEPT !.pc = pc, !.since = WakeUp(target)]

\* The salt is drawn, used for the commitment and kept in memory.
Commit(r) ==
  /\ run[r].pc = "commit"
  /\ \E s \in Salts :
       Call(r, CommitVote(run[r].proposal, Authority(r),
                          VoteCommitment(run[r].proposal, s, Authority(r), run[r].option),
                          ProofFits(r), {}),
            [WaitFor(r, "wait_reveal", run[r].commit_ends_at) EXCEPT !.salt = s],
            Failed(r))

\* The timer of a wait fires.
Wake(r) ==
  /\ run[r].pc \in Waits
  /\ clock >= run[r].since
  /\ run' = [run EXCEPT ![r] =
       At(r, IF run[r].pc = "wait_reveal" THEN "reveal" ELSE "finalize")]
  /\ UNCHANGED vars

\* Slip: like a failed close, a failed reveal is ignored.
FaultyAfterFailedReveal(r) == WaitFor(r, "wait_finalize", run[r].reveal_ends_at)

AfterFailedReveal(r) == Failed(r)

Reveal(r) ==
  /\ run[r].pc = "reveal"
  /\ Call(r, RevealVote(run[r].proposal, Authority(r), run[r].option, run[r].salt),
          WaitFor(r, "wait_finalize", run[r].reveal_ends_at), AfterFailedReveal(r))

Finalize(r) ==
  /\ run[r].pc = "finalize"
  /\ Call(r, FinalizeProposal(run[r].proposal), At(r, "done"), Failed(r))

Step(r) ==
  /\ \/ CheckRegistry(r) \/ InitializeIfNeeded(r) \/ UpdateRoot(r) \/ FetchConfig(r)
     \/ CloseActive(r) \/ Create(r) \/ Commit(r) \/ Wake(r) \/ Reveal(r) \/ Finalize(r)
  /\ UNCHANGED <<clock, invocations>>

\* The process is interrupted.
Crash(r) ==
  /\ Happens("crash")
  /\ run[r].pc \notin Stopped
  /\ run' = [run EXCEPT ![r] = Failed(r)]
  /\ UNCHANGED <<vars, clock, invocations>>

------------------------------------------------------------------------------
(* eligibility-admin: one instruction per command.  A command whose        *)
(* instruction is rejected prints the error and changes nothing.           *)

CmdInitRegistry(a) == \E root \in Electorates : InitializeRegistry(a, root)

CmdUpdateRoot(a) == \E list \in Lists : UpdateMerkleRoot(a, list)

CmdGrant(a) == \E v \in Grantable : GrantEligibility(a, v)

CmdRevoke(a) == \E v \in Grantable : RevokeEligibility(a, v)

AdminCommand ==
  /\ MayInvoke
  /\ \E a \in Admins : CmdInitRegistry(a) \/ CmdUpdateRoot(a) \/ CmdGrant(a) \/ CmdRevoke(a)
  /\ invocations' = invocations + 1
  /\ UNCHANGED <<run, clock>>

\* Anyone else may finalize a ballot that is over.
OthersFinalize ==
  /\ \E p \in ProposalIds : FinalizeProposal(p)
  /\ UNCHANGED tools

------------------------------------------------------------------------------
(* The two clocks.  Slots whose timestamp does not move are skipped.       *)

ChainTick ==
  /\ Tick
  /\ now' = now + 1
  /\ now' <= clock + MaxLead
  /\ UNCHANGED tools

\* Calls return and timers fire in time.
ClockTick ==
  /\ clock < MaxTime
  /\ clock < now + MaxLag
  /\ \A r \in Runs : run[r].pc \notin Stopped => clock < run[r].since + MaxCallTime
  /\ clock' = clock + 1
  /\ UNCHANGED <<vars, run, invocations>>

Start(r) ==
  \E list \in Lists \cup {WrittenList(r)} :
    \/ StartBootstrap(r, list)
    \/ \E p \in ProposalIds, o \in OptionFlags, window \in Windows :
         StartLifecycle(r, list, p, o, window)

SystemNext ==
  \/ \E r \in Runs : Start(r) \/ Step(r) \/ Crash(r)
  \/ AdminCommand \/ OthersFinalize \/ ChainTick \/ ClockTick

SystemSpec == SystemInit /\ [][SystemNext]_allVars

\* A process that is not interrupted goes on, and time passes.
SystemFairness ==
  /\ \A r \in Runs : WF_allVars(Step(r))
  /\ WF_allVars(ChainTick) /\ WF_allVars(ClockTick)

FairSystemSpec == SystemSpec /\ SystemFairness

------------------------------------------------------------------------------
(* Properties.                                                             *)

\* Every process and the chain below it hold values of their types, and a
\* process that is about to make a call holds what the call needs: deadlines in
\* order, a ballot to close, the salt of its commitment.
SystemTypeOK ==
  /\ TypeOK
  /\ run \in [Runs -> Run]
  /\ \A r \in Runs :
       /\ run[r].pc = "create" => run[r].commit_ends_at < run[r].reveal_ends_at
       /\ run[r].pc = "close" => run[r].active # NONE
       /\ run[r].pc \in {"wait_reveal", "reveal"} => run[r].salt # NONE
  /\ clock \in Nat
  /\ invocations \in 0..MaxInvocations

\* The vote of run r was opened and counted for the option it was cast for, and
\* the result is final.
VoteCounted(r) ==
  \E p \in ProposalIds :
    /\ p = run[r].proposal
    /\ proposals[p].phase = "Finalized"
    /\ commitments[p][Authority(r)].revealed
    /\ commitments[p][Authority(r)].commitment.option = run[r].option
    /\ \E i \in DOMAIN LifecycleOptions :
         /\ IsOptionIndex(LifecycleOptions, run[r].option, i)
         /\ proposals[p].option_counts[i] > 0

\* A run that reports success has a final ballot with its vote in the tally,
\* whatever other operators, failed closes and lost calls did meanwhile.
CompletedRunIsCounted ==
  \A r \in Runs :
    run[r].pc = "done" /\ run[r].cmd = "lifecycle" => VoteCounted(r)

\* When waitUntilUnix returns, the deadline has passed on chain too, although it
\* was awaited on another clock: no reveal or finalization comes too early.
WaitedLongEnough ==
  \A r \in Runs :
    /\ run[r].pc = "reveal" => now >= run[r].commit_ends_at
    /\ run[r].pc = "finalize" => now >= run[r].reveal_ends_at

\* r is about to begin alone, with flags that fit each other, a fresh proposal
\* id and the right to change the registry.
UndisturbedStart(r) ==
  /\ run[r].pc = "exists"
  /\ run[r].cmd = "lifecycle"
  /\ Authority(r) \in run[r].list
  /\ \E i \in DOMAIN LifecycleOptions : LifecycleOptions[i] = run[r].option
  /\ proposals[run[r].proposal].phase = "Unallocated"
  /\ RegistryExists => registry.authority = Authority(r)
  /\ invocations = MaxInvocations
  /\ \A q \in Runs \ {r} : run[q].pc \in Stopped

\* Whatever an earlier run left behind when it failed (an active ballot, a vote
\* whose salt is lost, a registry with another root), the next run completes.
RerunSucceeds == \A r \in Runs : UndisturbedStart(r) ~> VoteCounted(r)

------------------------------------------------------------------------------
(* The inductive invariants behind SystemTypeOK, WaitedLongEnough and      *)
(* CompletedRunIsCounted.                                                  *)

\* A lifecycle holds the flags it was started with, and has checked them; a
\* bootstrap makes the first three calls only.
FlagsKept ==
  \A r \in Runs :
    IF run[r].cmd = "lifecycle"
    THEN /\ run[r].proposal \in ProposalIds
         /\ run[r].option \in OptionFlags
         /\ run[r].window \in Windows /\ ValidWindow(run[r].window)
    ELSE run[r].pc \in {"exists", "init", "update"} \cup Stopped

ToolsInv == SystemTypeOK /\ FlagsKept

\* What WaitedLongEnough needs of the environment and the flags: the buffer
\* covers the lag of the chain's clock, and no call that precedes a wait, or the
\* one before it, takes so long that the target has passed when the wait begins.
TimelyFlags ==
  /\ MaxLag <= WaitBuffer
  /\ \A window \in Windows :
       ValidWindow(window) =>
         /\ 2 * MaxCallTime < window[1]
         /\ window[1] + WaitBuffer + 2 * MaxCallTime < window[2]

\* How late a run can be at each of its steps.
OnSchedule(r) ==
  LET x == run[r] IN
  /\ x.pc \notin Stopped => clock <= x.since + MaxCallTime
  /\ x.pc \notin Stopped \cup Waits => x.since <= clock
  /\ x.pc \in {"create", "commit", "wait_reveal", "reveal"} =>
       x.reveal_ends_at + x.window[1] = x.commit_ends_at + x.window[2]
  /\ x.pc = "create" => x.since + x.window[1] = x.commit_ends_at
  /\ x.pc = "commit" => x.since + x.window[1] <= x.commit_ends_at + MaxCallTime
  /\ x.pc = "wait_reveal" => x.since = x.commit_ends_at + WaitBuffer
  /\ x.pc = "reveal" =>
       /\ x.since >= x.commit_ends_at + WaitBuffer
       /\ x.since <= x.commit_ends_at + WaitBuffer + MaxCallTime
  /\ x.pc = "wait_finalize" => x.since = x.reveal_ends_at + WaitBuffer
  /\ x.pc = "finalize" => x.since >= x.reveal_ends_at + WaitBuffer

TimeInv == clock <= now + MaxLag /\ \A r \in Runs : OnSchedule(r)

\* The ballot of a run exists, and no other run's call can have made it.
HasBallot(r) ==
  /\ proposals[run[r].proposal].phase # "Unallocated"
  /\ proposals[run[r].proposal].options = LifecycleOptions

\* v has opened its commitment in p to o, an option of the ballot.
VoteOpened(p, v, o) ==
  /\ commitments[p][v].revealed
  /\ commitments[p][v].commitment # ZERO
  /\ commitments[p][v].commitment.option = o
  /\ \E i \in DOMAIN LifecycleOptions : IsOptionIndex(LifecycleOptions, o, i)

\* What a lifecycle has achieved by each of its steps, whoever else acts.
Achieved(r) ==
  /\ run[r].pc \in {"commit", "reveal", "finalize", "done"} \cup Waits => HasBallot(r)
  /\ run[r].pc \in {"wait_finalize", "finalize", "done"} =>
       VoteOpened(run[r].proposal, Authority(r), run[r].option)
  /\ run[r].pc = "done" => proposals[run[r].proposal].phase = "Finalized"

VotingInv == \A r \in Runs : run[r].cmd = "lifecycle" => Achieved(r)
==============================================================================
