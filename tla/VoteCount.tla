------------------------------ MODULE VoteCount ------------------------------
(***************************************************************************)
(* What the read model promises of a revealed vote: it is counted exactly  *)
(* once, for its own option, in a step that nobody else sees half done.    *)
(* Aggregator implements it with a tally, a marker and compensating calls. *)
(***************************************************************************)
EXTENDS Integers

CONSTANTS
  Votes,     (* the revealed votes                                          *)
  Ballots,   (* what a vote is counted for: a proposal and an option        *)
  BallotOf   (* the ballot of every vote                                    *)

VARIABLES
  counted,   (* the votes that count                                        *)
  tally      (* their number for every ballot                               *)

voteVars == <<counted, tally>>

Init ==
  /\ counted = {}
  /\ tally = [b \in Ballots |-> 0]

Count(vote) ==
  /\ vote \notin counted
  /\ counted' = counted \cup {vote}
  /\ tally' = [tally EXCEPT ![BallotOf[vote]] = @ + 1]

Next == \E vote \in Votes : Count(vote)

Spec == Init /\ [][Next]_voteVars
==============================================================================
