------------------------------ MODULE Pipeline ------------------------------
(***************************************************************************)
(* The whole way of an event: the chain emits what Ballot allows,          *)
(* Ingestion publishes it, SNS puts a message into the aggregator queue,   *)
(* the Aggregator projects it.  Ingestion and Aggregator run as their own  *)
(* modules have them; here they share the chain's events and the queue.    *)
(*                                                                         *)
(* A message is a publication: the event, the id Ingestion gave it, and    *)
(* which publication under this id it is.                                  *)
(***************************************************************************)
EXTENDS Naturals, Sequences, SequencesExt, FiniteSets, TLC

CONSTANTS
  ChainEvents,     (* the events the ballots can still emit                   *)
  Before,          (* the events the chain emitted, and the Aggregator        *)
                   (* projected, earlier                                      *)
  MaxCopies,       (* bound of the model: publications under one id that      *)
                   (* become messages                                         *)
  Pollers, Limit, Lookback, MaxGap, MaxLanded, IngestionFaults, MaxAborts,
  MaxSlot, MaxTxs, (* as in Ingestion                                         *)
  Options, Backend, Proposals, Voters, Workers, BatchSize, MaxReceives,
  ReportsFailures, Created, VoterMaps,
  AggregatorFaults (* as in Aggregator, without "crash": an invocation that    *)
                   (* stops midway counts twice, as the runs of Aggregator    *)
                   (* show                                                    *)

VARIABLES chain, slot, cycle, published, covered, aborts,  (* of Ingestion  *)
          processed, rows, activity, queue, worker,        (* of Aggregator *)
          sent                           (* the messages that SNS delivered *)

\* Transactions of one instruction each.
Ingest ==
  INSTANCE Ingestion WITH EventLists <- {<<e>> : e \in ChainEvents},
                          Faults <- IngestionFaults

EventIds ==
  [tx : 1..MaxTxs, type : {e.type : e \in ChainEvents}, index : 0..(Limit - 1)]

Messages ==
  {m \in [event : ChainEvents, event_id : EventIds, copy : 1..MaxCopies] :
     m.event.type = m.event_id.type}

\* The types that ProcessPayload tells apart.
ProjectedType(type) ==
  IF type \in {"EligibleVotersRootUpdated", "VoterEligibilityGranted",
               "VoterEligibilityRevoked"}
  THEN "Eligibility" ELSE type

\* The record the Aggregator finds in a message.
EventOf ==
  [m \in Messages |->
     [id |-> m.event_id, type |-> ProjectedType(m.event.type),
      proposal |-> m.event.proposal, voter |-> m.event.voter,
      option |-> m.event.option, options |-> SetToSeq(Options)]]

Project == INSTANCE Aggregator WITH Faults <- AggregatorFaults

ingestion == <<chain, slot, cycle, published, covered, aborts>>

aggregator == <<processed, rows, activity, queue, worker>>

vars == <<ingestion, aggregator, sent>>

Init == Ingest!Init /\ Project!Init /\ sent = {}

\* The events of the chain are of types that Ingestion knows.
ASSUME PipelineAssumption ==
  /\ IsFiniteSet(ChainEvents) /\ IsFiniteSet(Options) /\ IsFiniteSet(Workers)
  /\ \A e \in ChainEvents :
       /\ e.type \in STRING /\ e.type \in Ingest!EventTypes
       /\ e.proposal \in Proposals /\ e.voter \in Voters /\ e.option \in Options
  /\ {Limit, Lookback, BatchSize, MaxReceives, MaxCopies} \subseteq Nat \ {0}
  /\ {MaxGap, MaxLanded, MaxAborts, MaxSlot, MaxTxs} \subseteq Nat
  /\ IngestionFaults \subseteq {"abort", "missing"}
  /\ AggregatorFaults \subseteq Project!FaultKinds
  /\ Backend \in {"memory", "dynamodb"} /\ ReportsFailures \in BOOLEAN
  /\ Created \subseteq Proposals /\ VoterMaps \subseteq Voters

------------------------------------------------------------------------------
\* The events that took effect, in order.
LogOf(txs) ==
  LET confirmed == SelectSeq(txs, LAMBDA tx : ~tx.err)
  IN Before \o FlattenSeq([i \in DOMAIN confirmed |-> confirmed[i].events])

Contract == INSTANCE Ballot WITH Events <- ChainEvents, log <- LogOf(chain)

\* A transaction is confirmed.  One that fails has logged what it would have
\* emitted, had it gone on; one that succeeds emits what a ballot allows.
Land(e, err) ==
  /\ Ingest!Land(<<e>>, err)
  /\ err \/ Contract!MayFollow(e)
  /\ UNCHANGED <<aggregator, sent>>

Message(e, id, copy) == [event |-> e, event_id |-> id, copy |-> copy]

\* The message of a publication: the first copy that is not in the queue yet.
NewMessages(e, id) ==
  {m \in {Message(e, id, copy) : copy \in 1..MaxCopies} :
     \A copy \in 1..m.copy : Message(e, id, copy) \in sent <=> copy < m.copy}

\* The event a cycle publishes next.
NextOf(w) ==
  CHOOSE e \in cycle[w].events :
    \A f \in cycle[w].events \ {e} : Ingest!ComesBefore(e, f)

\* SNS delivers what a cycle publishes.  The two happen in one step: a message
\* that arrives later is one that is received later.
Publish(w) ==
  /\ Ingest!Publish(w)
  /\ LET e == Ingest!EventAt(NextOf(w))
         id == Ingest!BuildEventId(NextOf(w), cycle[w].next)
     IN sent' = IF Ingest!CannotBeNormalized(e) THEN sent ELSE sent \cup NewMessages(e, id)
  /\ UNCHANGED aggregator

RunCycle(w) ==
  \/ Publish(w)
  \/ /\ \/ Ingest!GetSlot(w) \/ Ingest!ListSignatures(w)
        \/ Ingest!FetchTransactions(w) \/ Ingest!Finish(w)
     /\ UNCHANGED <<aggregator, sent>>

Deliver(w) ==
  /\ \E m \in sent : Project!Receive(w, <<m>>)
  /\ UNCHANGED <<ingestion, sent>>

Handle(w) == (Project!Handle(w) \/ Project!Return(w)) /\ UNCHANGED <<ingestion, sent>>

\* SQS: the visibility timeout ends, or the redrive policy takes the message.
Expire(m) ==
  (Project!Reappear(m) \/ Project!Redrive(m)) /\ UNCHANGED <<ingestion, sent>>

Next ==
  \/ \E e \in ChainEvents, err \in BOOLEAN : Land(e, err)
  \/ Ingest!Tick /\ UNCHANGED <<aggregator, sent>>
  \/ \E w \in Pollers :
       RunCycle(w) \/ (Ingest!Abort(w) /\ UNCHANGED <<aggregator, sent>>)
  \/ \E w \in Workers : Deliver(w) \/ Handle(w)
  \/ \E m \in sent : Expire(m)

Spec == Init /\ [][Next]_vars

\* Something happens to the messages in the queue.
Consume == (\E w \in Workers : Deliver(w) \/ Handle(w)) \/ (\E m \in sent : Expire(m))

\* The schedule keeps invoking Ingestion, the queue and the Aggregator go on.
Fairness == (\A w \in Pollers : WF_vars(RunCycle(w))) /\ WF_vars(Consume)

FairSpec == Spec /\ Fairness

------------------------------------------------------------------------------
(* Properties.                                                             *)

\* The transactions that revealed a vote for option o of p.
VotesOnChain(p, o) ==
  {t \in DOMAIN chain :
     LET e == chain[t].events[1]
     IN ~chain[t].err /\ e.type = "VoteRevealed" /\ e.proposal = p /\ e.option = o}

FinalOnChain(p) ==
  \E t \in DOMAIN chain :
    LET e == chain[t].events[1]
    IN ~chain[t].err /\ e.type = "ProposalFinalized" /\ e.proposal = p

\* Whenever no invocation is at work, no option has more votes than the chain.  The
\* code does not keep this: a cycle that lists a newer transaction, too, publishes the
\* event again at another index, under a second id, and the Aggregator counts both.
NeverAheadOfChain ==
  (\A w \in Workers : worker[w].pc = "idle") =>
    \A p \in Proposals, o \in Options :
      rows[p].option_counts[o] <= Cardinality(VotesOnChain(p, o))

\* The ids under which the votes for option o of p that took effect were published.
VoteIds(p, o) == {id \in {m.event_id : m \in sent} : id.tx \in VotesOnChain(p, o)}

\* Whenever no invocation is at work, no option has more votes than such ids: second
\* publications under one id, repeated and overlapping deliveries, stale reads and the
\* logs of failed transactions add none.
VotesCountOncePerId ==
  (\A w \in Workers : worker[w].pc = "idle") =>
    \A p \in Proposals, o \in Options :
      rows[p].option_counts[o] <= Cardinality(VoteIds(p, o))

\* Results are shown only for a ballot that the chain has finalized.
ShownMeansFinal ==
  \A p \in Proposals : rows[p].results_visible => FinalOnChain(p)

\* Once a cycle completes, every event of the transactions it could list has a
\* message, and it is projected, skipped or still in the queue: no cycle that is cut
\* short, no second publication and no repeated delivery loses an event between the
\* services.
NothingLost ==
  \A t \in 1..covered.txs :
    ~chain[t].err =>
      \E m \in sent :
        /\ m.event_id.tx = t
        /\ \/ queue[m].state # "deleted"
           \/ Project!Projected(EventOf[m])
           \/ EventOf[m].type = "Eligibility"

\* The results of a ballot that the chain finalizes are visible in the end, whichever
\* cycle publishes the event and however often its messages are delivered.
ResultsAppear ==
  \A p \in Proposals : FinalOnChain(p) ~> rows[p].results_visible
==============================================================================
