--------------------------- MODULE ProjectionStore ---------------------------
(***************************************************************************)
(* The Aggregator's read model: one row per proposal, one participation    *)
(* record per voter and proposal, and what each repository call does to    *)
(* them.  Two backends implement the repository interfaces: the in-memory  *)
(* store the tests run on, and the DynamoDB tables that are deployed.  A   *)
(* call is atomic in both (a mutex, a single-item update).                 *)
(*                                                                         *)
(* A call has a condition under which the backend carries it out (…Accepts *)
(* below; DynamoDB rejects an update through an absent map) and a result.  *)
(* Titles, deadlines and timestamps are left out.                          *)
(***************************************************************************)
EXTENDS Integers, Sequences, FiniteSets

CONSTANTS
  Options,   (* option ids                            *)
  Backend    (* "memory" or "dynamodb"                *)

ASSUME BackendAssumption == Backend \in {"memory", "dynamodb"}

Dynamo == Backend = "dynamodb"

------------------------------------------------------------------------------
(* Proposal rows.  has_counts: the option_counts map exists.               *)

Row ==
  [phase : {"absent", "commit", "reveal", "finalized", "closed"},
   results_visible : BOOLEAN, has_counts : BOOLEAN,
   option_counts : [Options -> Int]]

NoRow ==
  [phase |-> "absent", results_visible |-> FALSE, has_counts |-> FALSE,
   option_counts |-> [o \in Options |-> 0]]

CreatedRow ==
  [phase |-> "commit", results_visible |-> FALSE, has_counts |-> TRUE,
   option_counts |-> [o \in Options |-> 0]]

\* DynamoDB stores the options as a string set, which refuses duplicates.
CreatedAccepts(options) ==
  Dynamo => Cardinality({options[i] : i \in DOMAIN options}) = Len(options)

\* ApplyProposalCreated replaces the whole row, whatever it held.
AfterCreated(row) == CreatedRow

\* DynamoDB cannot ADD below an option_counts map that does not exist; the
\* in-memory store makes the map.
RevealedAccepts(row) == Dynamo => row.has_counts

\* Slip: a counted vote always moves the phase.
FaultyPhaseAfterRevealed(phase) == "reveal"

\* The phase a counted vote leaves: the in-memory store moves commit to
\* reveal, DynamoDB only fills in a phase that is absent.
PhaseAfterRevealed(phase) ==
  CASE Dynamo /\ phase = "absent"   -> "reveal"
    [] ~Dynamo /\ phase = "commit"  -> "reveal"
    [] OTHER                        -> phase

\* Slip: the update writes results_visible, as the one of ProposalCreated does.
FaultyAfterRevealed(row, o) ==
  [row EXCEPT !.phase = PhaseAfterRevealed(@),
              !.results_visible = FALSE,
              !.has_counts = TRUE,
              !.option_counts[o] = @ + 1]

AfterRevealed(row, o) ==
  [row EXCEPT !.phase = PhaseAfterRevealed(@),
              !.has_counts = TRUE,
              !.option_counts[o] = @ + 1]

\* Slip: the undo does nothing.
FaultyAfterUndoRevealed(row, o) == row

\* The in-memory store never undoes below zero, DynamoDB adds -1.
AfterUndoRevealed(row, o) ==
  IF Dynamo \/ row.option_counts[o] > 0
  THEN [row EXCEPT !.option_counts[o] = @ - 1]
  ELSE row

AfterFinalized(row) == [row EXCEPT !.phase = "finalized", !.results_visible = TRUE]

AfterClosed(row) == [row EXCEPT !.phase = "closed"]

------------------------------------------------------------------------------
(* Participation.  has_map: the voter's item holds a map for the proposal. *)

Participation ==
  [has_map : BOOLEAN, has_committed : BOOLEAN, has_revealed : BOOLEAN]

NoParticipation ==
  [has_map |-> FALSE, has_committed |-> FALSE, has_revealed |-> FALSE]

\* DynamoDB cannot SET proposals.<id>.has_committed below an absent map, and
\* no call creates the map.
RecordAccepts(part) == Dynamo => part.has_map

AfterRecord(part, flag, value) ==
  IF flag = "has_committed" THEN [part EXCEPT !.has_map = TRUE, !.has_committed = value]
                            ELSE [part EXCEPT !.has_map = TRUE, !.has_revealed = value]
==============================================================================
