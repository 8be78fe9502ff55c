---------------------------- MODULE EventDecoding ----------------------------
(***************************************************************************)
(* From the event a program log holds to the message Ingestion publishes:  *)
(* mapAnchorEvent reads the fields of each type, normalizeChainEvent       *)
(* refuses a payload whose required texts are empty.                       *)
(*                                                                         *)
(* Data.  A value is told apart only as far as a conversion does: a text   *)
(* is "" or "text", 32 bytes are "zero" or "bytes", a u64 or i64 is "0",   *)
(* "number", or "big" from 2^53 on.                                        *)
(***************************************************************************)
EXTENDS Naturals

\* The payload of every event type: its fields, and how each of them is read.
Payload ==
  [ProposalCreated |->
     [proposal_id |-> "string", title |-> "string", phase |-> "string",
      commit_ends_at |-> "number", reveal_ends_at |-> "number",
      electorate_merkle_root |-> "bytes32", electorate_registry_version |-> "number",
      electorate_snapshot_slot |-> "number"],
   VoteCommitted |->
     [proposal_id |-> "string", voter_pubkey |-> "pubkey", commitment |-> "bytes32"],
   VoteRevealed |->
     [proposal_id |-> "string", voter_pubkey |-> "pubkey", option_id |-> "string"],
   ProposalClosed |-> [proposal_id |-> "string"],
   ProposalFinalized |-> [proposal_id |-> "string"],
   EligibleVotersRootUpdated |->
     [merkle_root |-> "bytes32", registry_version |-> "number", list_hash |-> "bytes32"],
   VoterEligibilityGranted |-> [voter_pubkey |-> "pubkey"],
   VoterEligibilityRevoked |-> [voter_pubkey |-> "pubkey"]]

\* isEventType.
EventTypes == DOMAIN Payload

\* An event of the program, whose hashes and numbers may be zero.  Its texts are
\* not empty: the program validates the id, the title and the options.
ProgramEvent(type, bytes, number) ==
  [type |-> type,
   data |-> [f \in DOMAIN Payload[type] |->
               CASE Payload[type][f] = "string" -> "text"
                 [] Payload[type][f] = "pubkey" -> "bytes"
                 [] Payload[type][f] = "bytes32" -> bytes
                 [] Payload[type][f] = "number" -> number]]

\* An event that the IDL of Ingestion does not have.
UnknownEvent == [type |-> "Unknown", data |-> <<>>]

\* resolveCanonicalEventType finds a type.
IsKnown(e) == e.type \in EventTypes

\* BN.toNumber throws beyond the integers that a double holds, and with it the
\* whole of fetchRecentEvents.
CannotBeRead(e) ==
  IsKnown(e) /\ \E f \in DOMAIN e.data :
                   Payload[e.type][f] = "number" /\ e.data[f] = "big"

\* Slip: zero bytes are taken for a missing value.
FaultyRead(kind, value) ==
  CASE kind = "bytes32" /\ value = "zero" -> ""
    [] kind \in {"pubkey", "bytes32"} /\ value # "zero" -> "base58"
    [] OTHER -> value

\* readString, readNumber, encodePubkey, encodeBytes32: the base58 form of 32
\* bytes is never empty, not even that of zeros.
Read(kind, value) == IF kind \in {"pubkey", "bytes32"} THEN "base58" ELSE value

\* What requireString is applied to.
Required ==
  [ProposalCreated |-> {"proposal_id", "title"},
   VoteCommitted |-> {"proposal_id", "voter_pubkey", "commitment"},
   VoteRevealed |-> {"proposal_id", "option_id", "voter_pubkey"},
   ProposalClosed |-> {"proposal_id"},
   ProposalFinalized |-> {"proposal_id"},
   EligibleVotersRootUpdated |-> {"merkle_root", "list_hash"},
   VoterEligibilityGranted |-> {"voter_pubkey"},
   VoterEligibilityRevoked |-> {"voter_pubkey"}]

\* normalizeChainEvent throws.  (Its check for two options always succeeds: the
\* program has made it, too.)
CannotBeNormalized(e) ==
  \E f \in Required[e.type] : Read(Payload[e.type][f], e.data[f]) = ""
==============================================================================
