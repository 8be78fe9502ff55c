-------------------------------- MODULE Ballot --------------------------------
(***************************************************************************)
(* What the chain promises to everything that reads its events: the order  *)
(* in which the events of a ballot can follow each other in the log.  The  *)
(* voting program implements this specification (VotingProgram, property   *)
(* ImplementsBallot); Ingestion and the Aggregator see the chain only      *)
(* through it.                                                             *)
(*                                                                         *)
(* The promise is stated on the log alone: there is no phase, clock or     *)
(* account here.                                                           *)
(***************************************************************************)
EXTENDS Naturals, Sequences

CONSTANT Events      (* every event the chain can emit *)

VARIABLE log         (* the events emitted so far, in order *)

BallotTypes ==
  {"ProposalCreated", "VoteCommitted", "VoteRevealed", "ProposalClosed",
   "ProposalFinalized"}

Happened(type, p) ==
  \E k \in DOMAIN log : log[k].type = type /\ log[k].proposal = p

HappenedTo(type, p, v) ==
  \E k \in DOMAIN log :
    log[k].type = type /\ log[k].proposal = p /\ log[k].voter = v

Ended(p) == Happened("ProposalClosed", p) \/ Happened("ProposalFinalized", p)

\* p was created and takes events of its own until it ends.
Open(p) == Happened("ProposalCreated", p) /\ ~Ended(p)

\* One ballot at a time, and an id is used once.
MayCreate(p) ==
  /\ ~Happened("ProposalCreated", p)
  /\ \A k \in DOMAIN log :
       log[k].type = "ProposalCreated" => ~Open(log[k].proposal)

\* Commitments stop with the first reveal.
MayCommit(p) ==
  /\ Open(p)
  /\ \A k \in DOMAIN log :
       ~(log[k].type = "VoteRevealed" /\ log[k].proposal = p)

\* A voter who committed is revealed at most once.
MayReveal(p, v) ==
  /\ Open(p)
  /\ HappenedTo("VoteCommitted", p, v)
  /\ ~HappenedTo("VoteRevealed", p, v)

\* Events of no ballot, those of the registry, come at any time.
MayFollow(e) ==
  \/ e.type \notin BallotTypes
  \/ e.type = "ProposalCreated" /\ MayCreate(e.proposal)
  \/ e.type = "VoteCommitted" /\ MayCommit(e.proposal)
  \/ e.type = "VoteRevealed" /\ MayReveal(e.proposal, e.voter)
  \/ e.type \in {"ProposalClosed", "ProposalFinalized"} /\ Open(e.proposal)

Init == log = <<>>

Emit(e) ==
  /\ MayFollow(e)
  /\ log' = Append(log, e)

Next == \E e \in Events : Emit(e)

Spec == Init /\ [][Next]_log
==============================================================================
