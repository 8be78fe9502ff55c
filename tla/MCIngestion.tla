----------------------------- MODULE MCIngestion -----------------------------
(* Small instances of Ingestion for TLC. *)
EXTENDS Ingestion, TLC

CONSTANTS w1, w2

\* A root without a list hash, as initial tests publish it.
RootUpdate == ProgramEvent("EligibleVotersRootUpdated", "zero", "number")

\* A ballot with a deadline from 2^53 on, which create_proposal accepts.
FarDeadline == ProgramEvent("ProposalCreated", "bytes", "big")

\* A new root, beside an event that a later version of the program adds; and a
\* transaction that cannot be read.
RootsAndFarDeadlines == {<<UnknownEvent, RootUpdate>>, <<FarDeadline>>}
==============================================================================
