----------------------------- MODULE Aggregator -----------------------------
(***************************************************************************)
(* The Aggregator: Lambda invocations (workers) take batches of messages   *)
(* from the aggregator queue and project each event, and the queue         *)
(* redelivers.  One action per repository call, because workers interleave *)
(* between calls and an invocation may time out between any two.           *)
(*                                                                         *)
(* The queue is the SQS standard queue of infra/aws/main.tf: no order, a   *)
(* visibility timeout (30 s) shorter than the Lambda timeout (60 s), and a *)
(* redrive policy.  A message is one copy of an event; a second copy of    *)
(* the same event_id is a duplicate publication.                           *)
(*                                                                         *)
(* Faulty... operators are slips in the definition that follows; no action *)
(* uses them, they show that properties can fail.                          *)
(***************************************************************************)
EXTENDS ProjectionStore

CONSTANTS
  Messages,     (* the messages in the queue                              *)
  EventIds,     (* the ids that events may have                           *)
  EventOf,      (* the event each message carries                         *)
  Proposals,    (* proposal ids                                           *)
  Voters,       (* voter pubkeys                                          *)
  Workers,      (* concurrent invocations                                 *)
  BatchSize,    (* batch_size of the event source mapping                 *)
  MaxReceives,  (* maxReceiveCount of the redrive policy                  *)
  ReportsFailures,  (* the mapping honours BatchItemFailures              *)
  Created,      (* proposals whose ProposalCreated was projected before   *)
  VoterMaps,    (* voters whose item already has a map per proposal: no   *)
                (* code in the repository makes one                       *)
  Faults        (* what may go wrong, see below                           *)

\* "crash": an invocation times out or dies; "refuse": a call fails without
\* effect; "lost_update", "lost_marker": an update or the put of a marker takes
\* effect, but its response is lost; "overlap": the visibility timeout ends while
\* an invocation is still working on the message.
FaultKinds == {"crash", "refuse", "lost_update", "lost_marker", "overlap"}

EventTypes ==
  {"ProposalCreated", "VoteCommitted", "VoteRevealed", "ProposalFinalized",
   "ProposalClosed", "Eligibility", "Malformed"}

Event ==
  [id : EventIds, type : EventTypes, proposal : Proposals, voter : Voters,
   option : Options, options : Seq(Options)]

ASSUME AggregatorAssumption ==
  /\ IsFiniteSet(Messages) /\ IsFiniteSet(Workers)
  /\ EventOf \in [Messages -> Event]
  /\ BatchSize \in Nat \ {0}
  /\ MaxReceives \in Nat \ {0}
  /\ ReportsFailures \in BOOLEAN
  /\ Created \subseteq Proposals
  /\ VoterMaps \subseteq Voters
  /\ Faults \subseteq FaultKinds

VARIABLES
  processed,   (* processed_events: ids marked as processed               *)
  rows,        (* proposals: the row of every proposal                    *)
  activity,    (* voter_activity                                          *)
  queue,       (* the state of every message, and its receive count       *)
  worker       (* what every invocation is doing                          *)

vars == <<processed, rows, activity, queue, worker>>

Events == {EventOf[m] : m \in Messages}

Ids == {e.id : e \in Events}

MessageState ==
  [state : {"visible", "inflight", "deleted", "dead"}, receives : 0..MaxReceives]

Steps ==
  {"idle", "check", "apply", "record", "undo", "mark", "unrecord", "unapply",
   "return"}

\* batch: the messages received; todo: those not handled yet, the head being
\* handled; failed: those to report; verdict: how the head ends once its
\* rollback is done.
Invocation ==
  [pc : Steps, batch : SUBSET Messages, todo : Seq(Messages),
   failed : SUBSET Messages, verdict : {"done", "failed"}]

Idle == [pc |-> "idle", batch |-> {}, todo |-> <<>>, failed |-> {}, verdict |-> "done"]

Init ==
  /\ processed = {}
  /\ rows = [p \in Proposals |-> IF p \in Created THEN CreatedRow ELSE NoRow]
  /\ activity = [v \in Voters |-> [p \in Proposals |->
                   [NoParticipation EXCEPT !.has_map = v \in VoterMaps]]]
  /\ queue = [m \in Messages |-> [state |-> "visible", receives |-> 0]]
  /\ worker = [w \in Workers |-> Idle]

------------------------------------------------------------------------------
(* The queue and the event source mapping.                                 *)

\* Slip: the redrive policy does not stop deliveries.
FaultyMayReceive(m) == queue[m].state = "visible"

MayReceive(m) ==
  /\ queue[m].state = "visible"
  /\ queue[m].receives < MaxReceives

\* An idle invocation receives a batch of visible messages.
Receive(w, batch) ==
  /\ worker[w].pc = "idle"
  /\ Len(batch) \in 1..BatchSize
  /\ \A i, j \in DOMAIN batch : batch[i] = batch[j] => i = j
  /\ \A i \in DOMAIN batch : MayReceive(batch[i])
  /\ LET received == {batch[i] : i \in DOMAIN batch} IN
       /\ queue' = [m \in Messages |->
                      IF m \in received
                      THEN [state |-> "inflight", receives |-> queue[m].receives + 1]
                      ELSE queue[m]]
       /\ worker' = [worker EXCEPT ![w] =
                       [Idle EXCEPT !.pc = "check", !.batch = received, !.todo = batch]]
  /\ UNCHANGED <<processed, rows, activity>>

\* The visibility timeout ends.  No invocation holds the message any more, or
\* ("overlap") one is still working on it.
Reappear(m) ==
  /\ queue[m].state = "inflight"
  /\ "overlap" \in Faults \/ \A w \in Workers : m \notin worker[w].batch
  /\ queue' = [queue EXCEPT ![m].state = "visible"]
  /\ UNCHANGED <<processed, rows, activity, worker>>

\* The redrive policy moves a message to the dead-letter queue.
Redrive(m) ==
  /\ queue[m].state = "visible"
  /\ queue[m].receives = MaxReceives
  /\ queue' = [queue EXCEPT ![m].state = "dead"]
  /\ UNCHANGED <<processed, rows, activity, worker>>

\* The messages the mapping deletes when an invocation returns: without
\* ReportBatchItemFailures, all of them.
DeletedOnReturn(inv) ==
  IF ReportsFailures THEN inv.batch \ inv.failed ELSE inv.batch

\* w's receipt of m has expired, and a deletion with it may have no effect.
Expired(w, m) ==
  \/ queue[m].state = "visible"
  \/ \E other \in Workers \ {w} : m \in worker[other].batch

\* Handle returns; failed messages stay in flight until they reappear.
Return(w) ==
  /\ worker[w].pc = "return"
  /\ \E kept \in SUBSET {m \in worker[w].batch : Expired(w, m)} :
       queue' = [m \in Messages |->
                   IF m \in DeletedOnReturn(worker[w]) \ kept /\ queue[m].state # "dead"
                   THEN [queue[m] EXCEPT !.state = "deleted"] ELSE queue[m]]
  /\ worker' = [worker EXCEPT ![w] = Idle]
  /\ UNCHANGED <<processed, rows, activity>>

\* The invocation times out or its process dies: nothing is deleted.
Crash(w) ==
  /\ "crash" \in Faults
  /\ worker[w].pc # "idle"
  /\ worker' = [worker EXCEPT ![w] = Idle]
  /\ UNCHANGED <<processed, rows, activity, queue>>

------------------------------------------------------------------------------
(* Handling one record: ProcessPayload and runIdempotent.                  *)

Current(w) == Head(worker[w].todo)

EventAt(w) == EventOf[Current(w)]

\* A repository call succeeds if the backend accepts it, and fails if not; it
\* may also fail for its own reasons, without effect.
Outcomes(accepts) ==
  {ok \in BOOLEAN : IF ok THEN accepts ELSE ~accepts \/ "refuse" \in Faults}

\* What the service learns of an update that did or did not take effect.
Answers(ok) == {ok} \cup (IF "lost_update" \in Faults THEN {FALSE} ELSE {})

\* The invocation goes on at pc with the same record.
GoesTo(w, pc) == [worker[w] EXCEPT !.pc = pc]

\* Slip: the answer leaves a failed message out.
FaultyEnds(w, verdict) ==
  [worker[w] EXCEPT
     !.todo = Tail(@),
     !.pc = IF Len(worker[w].todo) > 1 THEN "check" ELSE "return"]

\* The record is done or failed, and the next one or the return follows.
Ends(w, verdict) ==
  [worker[w] EXCEPT
     !.todo = Tail(@),
     !.pc = IF Len(worker[w].todo) > 1 THEN "check" ELSE "return",
     !.failed = IF verdict = "failed" THEN @ \cup {Current(w)} ELSE @]

\* A call on the row of the record's proposal, and what follows either result.
WriteRow(w, accepts, row, onDone, onError) ==
  \E ok \in Outcomes(accepts) : \E answer \in Answers(ok) :
    /\ rows' = IF ok THEN [rows EXCEPT ![EventAt(w).proposal] = row] ELSE rows
    /\ worker' = [worker EXCEPT ![w] = IF answer THEN onDone ELSE onError]
    /\ UNCHANGED <<processed, activity, queue>>

\* A call on the participation of the record's voter.
WriteActivity(w, flag, value, onDone, onError) ==
  LET e == EventAt(w)
      part == activity[e.voter][e.proposal]
  IN \E ok \in Outcomes(RecordAccepts(part)) : \E answer \in Answers(ok) :
       /\ activity' = IF ok
                      THEN [activity EXCEPT ![e.voter][e.proposal] =
                              AfterRecord(part, flag, value)]
                      ELSE activity
       /\ worker' = [worker EXCEPT ![w] = IF answer THEN onDone ELSE onError]
       /\ UNCHANGED <<processed, rows, queue>>

RowOf(w) == rows[EventAt(w).proposal]

\* Slip: the condition of the put is gone, so that it never finds a marker.
FaultyAlreadyProcessed(e) == FALSE

\* The marker of e exists.
AlreadyProcessed(e) == e.id \in processed

\* What a lookup of the marker may answer: DynamoDB reads are eventually
\* consistent and may miss it.
LookedUp(e) == {AlreadyProcessed(e)} \cup (IF Dynamo THEN {FALSE} ELSE {})

\* Unwrap and parse the record, skip what is not projected, look up the marker.
Check(w) ==
  /\ worker[w].pc = "check"
  /\ \/ /\ EventAt(w).type = "Malformed"
        /\ worker' = [worker EXCEPT ![w] = Ends(w, "failed")]
     \/ /\ EventAt(w).type = "Eligibility"
        /\ worker' = [worker EXCEPT ![w] = Ends(w, "done")]
     \/ /\ EventAt(w).type \notin {"Malformed", "Eligibility"}
        /\ \E ok \in Outcomes(TRUE), already \in LookedUp(EventAt(w)) :
             worker' = [worker EXCEPT ![w] =
                          CASE ~ok            -> Ends(w, "failed")
                            [] ok /\ already  -> Ends(w, "done")
                            [] ok /\ ~already -> GoesTo(w, "apply")]
  /\ UNCHANGED <<processed, rows, activity, queue>>

ApplyCreated(w) ==
  /\ worker[w].pc = "apply"
  /\ EventAt(w).type = "ProposalCreated"
  /\ WriteRow(w, CreatedAccepts(EventAt(w).options), AfterCreated(RowOf(w)),
              GoesTo(w, "mark"), Ends(w, "failed"))

ApplyCommitted(w) ==
  /\ worker[w].pc = "apply"
  /\ EventAt(w).type = "VoteCommitted"
  /\ WriteActivity(w, "has_committed", TRUE, GoesTo(w, "mark"), Ends(w, "failed"))

ApplyRevealed(w) ==
  /\ worker[w].pc = "apply"
  /\ EventAt(w).type = "VoteRevealed"
  /\ WriteRow(w, RevealedAccepts(RowOf(w)), AfterRevealed(RowOf(w), EventAt(w).option),
              GoesTo(w, "record"), Ends(w, "failed"))

ApplyEnded(w) ==
  /\ worker[w].pc = "apply"
  /\ \/ /\ EventAt(w).type = "ProposalFinalized"
        /\ WriteRow(w, TRUE, AfterFinalized(RowOf(w)), GoesTo(w, "mark"), Ends(w, "failed"))
     \/ /\ EventAt(w).type = "ProposalClosed"
        /\ WriteRow(w, TRUE, AfterClosed(RowOf(w)), GoesTo(w, "mark"), Ends(w, "failed"))

\* The second write of a VoteRevealed.
Record(w) ==
  /\ worker[w].pc = "record"
  /\ WriteActivity(w, "has_revealed", TRUE, GoesTo(w, "mark"), GoesTo(w, "undo"))

\* Slip: a lost race is not rolled back.
FaultyRolledBack(w, verdict) == Ends(w, verdict)

\* Votes have a rollback, proposal events have none.
RolledBack(w, verdict) ==
  IF EventAt(w).type \in {"VoteCommitted", "VoteRevealed"}
  THEN [worker[w] EXCEPT !.pc = "unrecord", !.verdict = verdict]
  ELSE Ends(w, verdict)

\* Slip: the handler undoes, and the caller then rolls back as well.
FaultyUndo(w) ==
  /\ worker[w].pc = "undo"
  /\ WriteRow(w, RevealedAccepts(RowOf(w)),
              AfterUndoRevealed(RowOf(w), EventAt(w).option),
              RolledBack(w, "failed"), RolledBack(w, "failed"))

\* Slip: the invocation tries the vote again.
FaultyRetryingUndo(w) ==
  /\ worker[w].pc = "undo"
  /\ WriteRow(w, RevealedAccepts(RowOf(w)),
              AfterUndoRevealed(RowOf(w), EventAt(w).option),
              GoesTo(w, "apply"), GoesTo(w, "apply"))

\* The second write failed: take the first one back and fail, whether or not
\* taking it back succeeds.
Undo(w) ==
  /\ worker[w].pc = "undo"
  /\ WriteRow(w, RevealedAccepts(RowOf(w)),
              AfterUndoRevealed(RowOf(w), EventAt(w).option),
              Ends(w, "failed"), Ends(w, "failed"))

\* What follows a put that took effect.  If its response is lost, the service
\* learns of a failure, or the SDK tries again and finds the marker it made.
AfterMarked(w) ==
  {Ends(w, "done")}
  \cup (IF "lost_marker" \in Faults
        THEN {RolledBack(w, "done"), RolledBack(w, "failed")} ELSE {})

\* The conditional put of the marker, after the effects.
Mark(w) ==
  /\ worker[w].pc = "mark"
  /\ \E ok \in Outcomes(TRUE) :
       \/ /\ ok /\ ~AlreadyProcessed(EventAt(w))
          /\ processed' = processed \cup {EventAt(w).id}
          /\ \E inv \in AfterMarked(w) : worker' = [worker EXCEPT ![w] = inv]
       \/ /\ ok /\ AlreadyProcessed(EventAt(w))
          /\ worker' = [worker EXCEPT ![w] = RolledBack(w, "done")]
          /\ UNCHANGED processed
       \/ /\ ~ok
          /\ worker' = [worker EXCEPT ![w] = RolledBack(w, "failed")]
          /\ UNCHANGED processed
  /\ UNCHANGED <<rows, activity, queue>>

\* The rollback: the participation flag first, then the tally; the results of
\* both calls are ignored.
Unrecord(w) ==
  /\ worker[w].pc = "unrecord"
  /\ \/ /\ EventAt(w).type = "VoteCommitted"
        /\ WriteActivity(w, "has_committed", FALSE, Ends(w, worker[w].verdict),
                         Ends(w, worker[w].verdict))
     \/ /\ EventAt(w).type = "VoteRevealed"
        /\ WriteActivity(w, "has_revealed", FALSE, GoesTo(w, "unapply"),
                         GoesTo(w, "unapply"))

Unapply(w) ==
  /\ worker[w].pc = "unapply"
  /\ WriteRow(w, RevealedAccepts(RowOf(w)),
              AfterUndoRevealed(RowOf(w), EventAt(w).option),
              Ends(w, worker[w].verdict), Ends(w, worker[w].verdict))

Handle(w) ==
  \/ Check(w)
  \/ ApplyCreated(w) \/ ApplyCommitted(w) \/ ApplyRevealed(w) \/ ApplyEnded(w)
  \/ Record(w) \/ Undo(w) \/ Mark(w) \/ Unrecord(w) \/ Unapply(w)

Batches == UNION {[1..n -> Messages] : n \in 1..BatchSize}

Deliver(w) == \E batch \in Batches : Receive(w, batch)

Next ==
  \/ \E w \in Workers : Deliver(w) \/ Handle(w) \/ Return(w) \/ Crash(w)
  \/ \E m \in Messages : Reappear(m) \/ Redrive(m)

Spec == Init /\ [][Next]_vars

------------------------------------------------------------------------------
(* Properties.                                                             *)

\* Every table, message and invocation holds a value of its type.
TypeOK ==
  /\ processed \subseteq Ids
  /\ rows \in [Proposals -> Row]
  /\ activity \in [Voters -> [Proposals -> Participation]]
  /\ queue \in [Messages -> MessageState]
  /\ worker \in [Workers -> Invocation]

\* The VoteRevealed events for option o of p.
Reveals(p, o) ==
  {e \in Events : e.type = "VoteRevealed" /\ e.proposal = p /\ e.option = o}

Counted(p, o) == rows[p].option_counts[o]

Marked(p, o) == Cardinality({e \in Reveals(p, o) : e.id \in processed})

\* The invocations whose increment of the tally is neither marked nor undone.
Pending(p, o) ==
  {w \in Workers :
     /\ worker[w].pc \in {"record", "undo", "mark", "unrecord", "unapply"}
     /\ EventAt(w) \in Reveals(p, o)}

\* The tally is the marked votes plus those being handled: duplicate messages,
\* overlapping invocations and every rollback among them neither lose nor
\* repeat a vote.
ExactTally ==
  \A p \in Proposals, o \in Options :
    Counted(p, o) = Marked(p, o) + Cardinality(Pending(p, o))

\* The marker is the moment at which a vote counts: with the increments that are
\* still being handled set aside, marks and tally move together, one vote at a
\* time, as VoteCount has it.
RevealEvents == {e \in Events : e.type = "VoteRevealed"}

CountedVotes == {e \in RevealEvents : e.id \in processed}

SettledTally ==
  [b \in Proposals \X Options |->
     Counted(b[1], b[2]) - Cardinality(Pending(b[1], b[2]))]

ReadModel ==
  INSTANCE VoteCount
    WITH Votes <- RevealEvents, Ballots <- Proposals \X Options,
         BallotOf <- [e \in RevealEvents |-> <<e.proposal, e.option>>],
         counted <- CountedVotes, tally <- SettledTally

ImplementsVoteCount == ReadModel!Spec

\* A marked vote is in the tally, whatever crashes and failed calls happened:
\* marking last means that nothing is skipped on a retry before it counts.
NeverUndercounts ==
  \A p \in Proposals, o \in Options : Counted(p, o) >= Marked(p, o)

\* What the tally holds beyond the marked votes and those being handled.
Excess(p, o) == Counted(p, o) - Marked(p, o) - Cardinality(Pending(p, o))

\* The increment of w's vote stays without a marker or an undo: w stops, or the
\* response to the increment is lost, or the call that takes it back fails.
Abandons(w, p, o) ==
  /\ worker[w].pc \in {"apply", "record", "undo", "mark", "unrecord", "unapply"}
  /\ EventAt(w) \in Reveals(p, o)
  /\ \/ worker[w].pc # "apply" /\ Crash(w)
     \/ ApplyRevealed(w) /\ worker'[w].pc # "record"
     \/ (Undo(w) \/ Unapply(w)) /\ rows' = rows

\* Every vote that the tally has too many goes back to one such failure: duplicates,
\* overlapping invocations, lost races and their rollbacks never add one.
OvercountsByFailuresOnly ==
  [][\A p \in Proposals, o \in Options :
       Counted(p, o)' > 0 /\ Excess(p, o)' > Excess(p, o) =>
         /\ Excess(p, o)' = Excess(p, o) + 1
         /\ \E w \in Workers : Abandons(w, p, o)]_vars

\* The receptions of messages with a vote for option o of p.
Receptions(p, o) ==
  {r \in Messages \X (1..MaxReceives) :
     EventOf[r[1]] \in Reveals(p, o) /\ r[2] <= queue[r[1]].receives}

\* One reception adds at most one to the tally, however it ends: maxReceiveCount
\* bounds by how much crashes and failed calls can inflate it.
OncePerReception ==
  \A p \in Proposals, o \in Options :
    Counted(p, o) <= Cardinality(Receptions(p, o))

\* When every message has left the queue otherwise than for the dead-letter queue
\* and no invocation is running, the tally is the number of revealed votes.  The
\* code does not keep this: DynamoDB rejects the update of a voter whose item has no
\* map yet, the vote is undone, and the mapping deletes what the handler reports.
DrainedTally ==
  /\ \A m \in Messages : queue[m].state = "deleted"
  /\ \A w \in Workers : worker[w].pc = "idle"
  => \A p \in Proposals, o \in Options :
       Counted(p, o) = Cardinality(Reveals(p, o))

\* e is marked and the tables show it: its vote is among those the tally covers, its
\* results are visible.
Projected(e) ==
  /\ e.id \in processed
  /\ e.type = "VoteRevealed" =>
       Counted(e.proposal, e.option) >= Marked(e.proposal, e.option)
  /\ e.type = "ProposalFinalized" => rows[e.proposal].results_visible

\* A message that leaves the queue is one the Aggregator skips, one whose event is
\* projected, or one that the invocation which returns reports as failed: whoever
\* else handled a copy of it, lost a race, was undone or stopped, no message is
\* deleted on the word of an invocation that did not see it through.
DropsAreReported ==
  [][\A m \in Messages :
       queue[m].state # "deleted" /\ queue'[m].state = "deleted" =>
         \/ EventOf[m].type = "Eligibility"
         \/ Projected(EventOf[m])'
         \/ \E w \in Workers : m \in worker[w].failed /\ Return(w)]_vars

\* Results are visible only for proposals that have ended.
VisibleMeansEnded ==
  \A p \in Proposals :
    rows[p].results_visible => rows[p].phase \in {"finalized", "closed"}

\* The results of a proposal whose ProposalFinalized was projected are visible,
\* whatever votes, retries and overlapping copies of it are projected afterwards,
\* if its ProposalCreated came first: a late one hides them for good.
FinalizedIsVisible ==
  \A e \in Events :
    e.type = "ProposalFinalized" /\ e.id \in processed =>
      rows[e.proposal].results_visible
==============================================================================
