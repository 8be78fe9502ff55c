----------------------------- MODULE MCPipeline -----------------------------
(* Small instances of Pipeline for TLC. *)
EXTENDS Pipeline

CONSTANTS p1, v1, A, B, w1, k1

Decoding == INSTANCE EventDecoding

BallotEvent(type, v, o) ==
  [type |-> type, data |-> Decoding!ProgramEvent(type, "bytes", "number").data,
   proposal |-> p1, voter |-> v, option |-> o]

\* A ballot with one commitment, whose reveal and end are still to come.
OpenBallot ==
  <<BallotEvent("ProposalCreated", v1, A), BallotEvent("VoteCommitted", v1, A)>>

RevealAndEnd ==
  {BallotEvent("VoteRevealed", v1, A), BallotEvent("ProposalFinalized", v1, A)}
==============================================================================
