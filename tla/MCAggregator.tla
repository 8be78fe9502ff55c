----------------------------- MODULE MCAggregator -----------------------------
(* Small instances of Aggregator for TLC: what the queue holds. *)
EXTENDS Aggregator, TLC

CONSTANTS p1, p2, v1, v2, A, B, w1, w2, m1, m2, m3, m4, m5, m6, m7, m8

AnyId == STRING

WorkerSymmetry == Permutations(Workers)

\* Copies of one event may also be exchanged.
CopySymmetry == WorkerSymmetry \cup Permutations({m1, m2})

Ev(id, type, p, v) ==
  [id |-> id, type |-> type, proposal |-> p, voter |-> v, option |-> A,
   options |-> <<A, B>>]

Reveal1 == Ev("e1", "VoteRevealed", p1, v1)
Reveal2 == Ev("e2", "VoteRevealed", p1, v2)
Commit1 == Ev("e3", "VoteCommitted", p1, v1)
Finalization == Ev("e4", "ProposalFinalized", p1, v1)
Creation == Ev("e5", "ProposalCreated", p2, v1)
Closure == Ev("e6", "ProposalClosed", p2, v1)
Grant == Ev("e7", "Eligibility", p1, v1)
Unreadable == Ev("e8", "Malformed", p1, v1)

\* Two votes for one option, one of them published twice, a commitment, another ballot,
\* a registry event, which is skipped, and a message that is no event.
VotesAndCopies ==
  m1 :> Reveal1 @@ m2 :> Reveal1 @@ m3 :> Reveal2 @@ m4 :> Commit1
    @@ m5 :> Creation @@ m6 :> Closure @@ m7 :> Grant @@ m8 :> Unreadable

\* A vote and the end of its ballot.
VoteThenEnd == m1 :> Reveal1 @@ m2 :> Finalization

OneVote == m1 :> Reveal1
===============================================================================
