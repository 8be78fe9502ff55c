--------------------------- MODULE MCVotingProgram ---------------------------
(* Small instances of VotingProgram for TLC. *)
EXTENDS VotingProgram, TLC

CONSTANTS v1, v2, a1, a2, p1, p2, A, B, s1

ProposalSymmetry == Permutations(ProposalIds) \cup Permutations(Admins)

\* Option lists: two options, a duplicate before the second, and one too short.
MixedOptions == {<<A, B>>, <<A, A, B>>, <<A>>}

OneOptionTwice == {<<A, A>>}

\* Deadlines: a ballot, and one whose deadlines are still ahead when the first
\* is final; and pairs that create_proposal accepts or must reject.
Short == {<<1, 2>>}
InTurn == {<<1, 2>>, <<3, 4>>}
MixedDeadlines == {<<0, 2>>, <<1, 1>>, <<1, 2>>, <<1, 3>>}

\* Roots: every voter's; one voter's (its leaf) or the zero root the registry is
\* bootstrapped with, which proves nobody.
AllVoters == {{v1, v2}}
NobodyOrOne == {{}, {v1}}
Nobody == {{}}
==============================================================================
