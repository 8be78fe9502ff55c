--------------------------- MODULE MerkleElectorate ---------------------------
(***************************************************************************)
(* How a Merkle root stands for a list of voters: the files that the tools *)
(* read, the tree they build, the proofs they hand out and the check of    *)
(* commit_vote.  The Rust crate and the TypeScript package hold the same   *)
(* algorithm.  Each iteration of its three loops (the levels of the tree,  *)
(* the siblings of a proof, the check of a proof) is a step.               *)
(*                                                                         *)
(* VotingProgram takes a root to be the set of voters that can prove       *)
(* themselves against it; the properties below are what entitles it to.    *)
(*                                                                         *)
(* Data.  A line of a file is a pubkey, BLANK, or INVALID.  A digest is    *)
(* what was hashed: keccak256 is taken as injective, and no leaf as the    *)
(* hash of a pair.  The list hash is the list that was hashed.             *)
(***************************************************************************)
EXTENDS Naturals, FiniteSets, Sequences, SequencesExt

CONSTANTS
  Voters,     (* every pubkey, on a list or not                            *)
  Collations, (* how localeCompare ranks them, on the machines the tools   *)
              (* run on                                                    *)
  Files,      (* the voter list files, as sequences of lines               *)
  BLANK,      (* a line of white space                                     *)
  INVALID,    (* a line that is no base58 pubkey                           *)
  Forged,     (* digests of no tree and no voter that a client may pass    *)
  Indices,    (* the leaf_index that a client without a list passes        *)
  MAX_MERKLE_PROOF_LEN

ASSUME MerkleAssumption ==
  /\ \A order \in Collations :
       /\ order \in [Voters -> Nat]
       /\ \A u, v \in Voters : order[u] = order[v] => u = v
  /\ Files \subseteq Seq(Voters \cup {BLANK, INVALID})
  /\ {BLANK, INVALID} \cap Voters = {}
  /\ Indices \subseteq Nat
  /\ MAX_MERKLE_PROOF_LEN \in Nat

VARIABLES
  electorate, (* for each command, the list and the levels of its tree so  *)
              (* far; the code keeps the last level, the others are a      *)
              (* history                                                   *)
  path,       (* level and index in the loop of buildMerkleProof           *)
  request,    (* a request to commit                                       *)
  check,      (* the loop of verify_merkle_proof: digest, index, siblings  *)
              (* used                                                      *)
  answer      (* what the program says of the proof                        *)

vars == <<electorate, path, request, check, answer>>

\* The admin builds (build, update-root); a client asks for a proof.
Commands == {"build", "proof"}

------------------------------------------------------------------------------
(* The tree.  Indices count from 0, as in the code.                        *)

Leaf(v) == [leaf |-> v]

PairHash(left, right) == [pair |-> {left, right}]

Leaves(list) == [i \in DOMAIN list |-> Leaf(list[i])]

\* Slip: the last node of an odd level is dropped.
FaultyParentLevel(level) ==
  [i \in 1..(Len(level) \div 2) |-> PairHash(level[2 * i - 1], level[2 * i])]

\* Pairs of neighbours; the last node of an odd level is its own neighbour.
ParentLevel(level) ==
  [i \in 1..((Len(level) + 1) \div 2) |->
     PairHash(level[2 * i - 1],
              IF 2 * i <= Len(level) THEN level[2 * i] ELSE level[2 * i - 1])]

\* Slip: the sibling of an even index is always the next node.
FaultySiblingAt(level, index) ==
  IF index % 2 = 0 THEN level[((index + 1) % Len(level)) + 1] ELSE level[index]

SiblingAt(level, index) ==
  IF index % 2 = 0
  THEN IF index + 1 < Len(level) THEN level[index + 2] ELSE level[index + 1]
  ELSE level[index]

------------------------------------------------------------------------------
(* The files.                                                              *)

\* The voters a file names.
Named(file) == ToSet(file) \ {BLANK}

\* parsePubkeyLine, and the checks of parseVoterListContent.
IsVoterList(file) ==
  /\ Named(file) # {}
  /\ INVALID \notin Named(file)
  /\ \A i, j \in DOMAIN file : file[i] = file[j] /\ file[i] # BLANK => i = j

\* The voters in the order of localeCompare: the k-th has k - 1 before it.
Sorted(file, order) ==
  LET Before(v) == {u \in Named(file) : order[u] < order[v]}
  IN [k \in 1..Cardinality(Named(file)) |->
        CHOOSE v \in Named(file) : Cardinality(Before(v)) = k - 1]

------------------------------------------------------------------------------
(* buildElectorate, as build and proof run it.                             *)

Level(cmd) == Last(electorate[cmd].levels)
IsBuilt(cmd) == electorate[cmd].levels # <<>> /\ Len(Level(cmd)) = 1
MerkleRoot(cmd) == Level(cmd)[1]

NoElectorate == [list |-> <<>>, levels |-> <<>>]
NoPath == [level |-> <<>>, index |-> 0]
NoRequest == [by |-> "nobody"]
NoCheck == [computed |-> Leaf(BLANK), index |-> 0, used |-> 0]

Init ==
  /\ electorate = [cmd \in Commands |-> NoElectorate]
  /\ path = NoPath
  /\ request = NoRequest
  /\ check = NoCheck
  /\ answer = "none"

\* A file that is no voter list ends the command.  A client runs proof before it
\* asks to commit.
ParseVoterList(cmd) ==
  /\ electorate[cmd] = NoElectorate
  /\ cmd = "proof" => request = NoRequest
  /\ \E file \in Files, order \in Collations :
       /\ IsVoterList(file)
       /\ electorate' =
            [electorate EXCEPT ![cmd] = [list |-> Sorted(file, order),
                                         levels |-> <<Leaves(Sorted(file, order))>>]]
  /\ UNCHANGED <<path, request, check, answer>>

NextLevel(cmd) ==
  /\ electorate[cmd].levels # <<>> /\ Len(Level(cmd)) > 1
  /\ electorate' =
       [electorate EXCEPT ![cmd].levels = Append(@, ParentLevel(Level(cmd)))]
  /\ UNCHANGED <<path, request, check, answer>>

------------------------------------------------------------------------------
(* merkleProofForVoter, and the client that has no list.                   *)

\* The index of a voter on the list, and the path from there.
FindVoter ==
  /\ IsBuilt("proof") /\ request = NoRequest
  /\ \E i \in DOMAIN electorate["proof"].list :
       /\ request' = [by |-> "tool", voter |-> electorate["proof"].list[i],
                      merkle_proof |-> <<>>, leaf_index |-> i - 1]
       /\ path' = [level |-> Leaves(electorate["proof"].list), index |-> i - 1]
  /\ UNCHANGED <<electorate, check, answer>>

NextSibling ==
  /\ request.by = "tool" /\ Len(path.level) > 1
  /\ request' = [request EXCEPT !.merkle_proof =
                                  Append(@, SiblingAt(path.level, path.index))]
  /\ path' = [level |-> ParentLevel(path.level), index |-> path.index \div 2]
  /\ UNCHANGED <<electorate, check, answer>>

\* Every digest of the published tree, every leaf, and digests of neither.
Digests ==
  {Leaf(v) : v \in Voters} \cup Forged
    \cup UNION {ToSet(level) : level \in ToSet(electorate["build"].levels)}

\* A client that did not run proof passes what it likes.
Improvise ==
  /\ IsBuilt("build") /\ electorate["proof"] = NoElectorate /\ request = NoRequest
  /\ \E v \in Voters, index \in Indices, n \in 0..(MAX_MERKLE_PROOF_LEN + 1) :
       \E proof \in [1..n -> Digests] :
         request' = [by |-> "client", voter |-> v, merkle_proof |-> proof,
                     leaf_index |-> index]
  /\ UNCHANGED <<electorate, path, check, answer>>

------------------------------------------------------------------------------
(* commit_vote, up to the grants of is_voter_eligible.                     *)

\* Slip: an empty proof passes.
FaultyEmptyProofAdmits(leaf, root) == TRUE

EmptyProofAdmits(leaf, root) == leaf = root

Verdict(passed) == IF passed THEN "eligible" ELSE "ineligible"

CommitVote ==
  /\ IsBuilt("build") /\ answer = "none"
  /\ request.by = "client" \/ (request.by = "tool" /\ Len(path.level) = 1)
  /\ IF Len(request.merkle_proof) > MAX_MERKLE_PROOF_LEN
       THEN answer' = "too_long" /\ UNCHANGED check
     ELSE IF request.merkle_proof = <<>>
       THEN /\ answer' = Verdict(EmptyProofAdmits(Leaf(request.voter), MerkleRoot("build")))
            /\ UNCHANGED check
     ELSE /\ answer' = "checking"
          /\ check' = [computed |-> Leaf(request.voter), index |-> request.leaf_index,
                       used |-> 0]
  /\ UNCHANGED <<electorate, path, request>>

VerifySibling ==
  /\ answer = "checking" /\ check.used < Len(request.merkle_proof)
  /\ LET sibling == request.merkle_proof[check.used + 1]
     IN check' = [computed |-> IF check.index % 2 = 0 THEN PairHash(check.computed, sibling)
                                                       ELSE PairHash(sibling, check.computed),
                  index |-> check.index \div 2,
                  used |-> check.used + 1]
  /\ UNCHANGED <<electorate, path, request, answer>>

VerifyRoot ==
  /\ answer = "checking" /\ check.used = Len(request.merkle_proof)
  /\ answer' = Verdict(check.computed = MerkleRoot("build"))
  /\ UNCHANGED <<electorate, path, request, check>>

Next ==
  \/ \E cmd \in Commands : ParseVoterList(cmd) \/ NextLevel(cmd)
  \/ FindVoter \/ NextSibling \/ Improvise
  \/ CommitVote \/ VerifySibling \/ VerifyRoot

Spec == Init /\ [][Next]_vars

------------------------------------------------------------------------------
(* Properties.                                                             *)

VotersOf(cmd) == ToSet(electorate[cmd].list)

\* Admin and client read files of the same voters, which may differ in their order
\* and blank lines.
SameVoters == VotersOf("build") = VotersOf("proof")

\* commit_vote: no proof, of any length it takes and made of any digests, admits a
\* voter who is not on the published list.
ProofsNameMembers == answer = "eligible" => request.voter \in VotersOf("build")

\* merkleProofForVoter, commit_vote: a voter of the list is admitted with the proof
\* that the tool builds from any copy of it, at every size of the list (odd levels,
\* and a list of one, whose proof is empty) up to the height that the program takes.
MembersCanProve ==
  /\ request.by = "tool" /\ SameVoters
  /\ Len(electorate["build"].levels) - 1 <= MAX_MERKLE_PROOF_LEN
  => answer \in {"none", "checking", "eligible"}

\* buildElectorate: root and list hash name the voters.  Files of the same voters
\* have the same, and files of different voters never do.
RootNamesVoters ==
  IsBuilt("build") /\ IsBuilt("proof") =>
    /\ SameVoters <=> MerkleRoot("build") = MerkleRoot("proof")
    /\ SameVoters <=> electorate["build"].list = electorate["proof"].list
==============================================================================
