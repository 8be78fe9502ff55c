----------------------------- MODULE PipelineProofs -----------------------------
(***************************************************************************)
(* Proofs about Pipeline for every value of its constants.                 *)
(*                                                                         *)
(* A step of the pipeline is one of Ingestion, to which the Aggregator is  *)
(* blind, or one of the Aggregator, to which Ingestion is.  So each is     *)
(* implemented by the whole: Cycles and Projection are the two with the    *)
(* theorems and lemmas about them.                                         *)
(***************************************************************************)
EXTENDS Pipeline, FiniteSetTheorems, SequenceTheorems, TLAPS

Cycles ==
  INSTANCE IngestionProofs WITH EventLists <- {<<e>> : e \in ChainEvents},
                                Faults <- IngestionFaults

Projection == INSTANCE AggregatorProofs WITH Faults <- AggregatorFaults

------------------------------------------------------------------------------
(* What PipelineAssumption says of the two.                                 *)

LEMMA CycleConstants ==
  /\ \A events \in {<<e>> : e \in ChainEvents} :
       /\ Len(events) \in Nat
       /\ DOMAIN events = 1..Len(events)
       /\ \A k \in DOMAIN events : events[k].type \in STRING
  /\ Limit \in Nat \ {0}
  /\ Lookback \in Nat \ {0}
  /\ MaxGap \in Nat
  /\ MaxLanded \in Nat
  /\ IngestionFaults \subseteq {"abort", "missing"}
  /\ MaxAborts \in Nat
  /\ MaxSlot \in Nat
  /\ MaxTxs \in Nat
  <1>1. \A e \in ChainEvents : e.type \in STRING
    BY PipelineAssumption
  <1>2. ASSUME NEW e \in ChainEvents, NEW events, events = <<e>>
        PROVE  /\ Len(events) \in Nat
               /\ DOMAIN events = 1..Len(events)
               /\ \A k \in DOMAIN events : events[k].type \in STRING
    BY <1>1, <1>2
  <1>3. /\ {Limit, Lookback} \subseteq Nat \ {0}
        /\ {MaxGap, MaxLanded, MaxAborts, MaxSlot, MaxTxs} \subseteq Nat
        /\ IngestionFaults \subseteq {"abort", "missing"}
    BY PipelineAssumption
  <1> QED
    BY <1>2, <1>3

\* There are finitely many ids and messages.
LEMMA IdsFinite == IsFiniteSet(EventIds)
  <1> DEFINE types == {e.type : e \in ChainEvents}
             keys == ((1..MaxTxs) \X types) \X (0..(Limit - 1))
             id == [k \in keys |-> [tx |-> k[1][1], type |-> k[1][2], index |-> k[2]]]
  <1>1. /\ Limit \in Nat \ {0} /\ MaxTxs \in Nat /\ IsFiniteSet(ChainEvents)
    BY PipelineAssumption
  <1>2. IsFiniteSet(types)
    <2> DEFINE type == [e \in ChainEvents |-> e.type]
    <2>1. type \in Surjection(ChainEvents, types)
      BY DEF Surjection
    <2> QED
      BY <1>1, <2>1, FS_Surjection
  <1>3. IsFiniteSet(keys)
    <2>1. IsFiniteSet(1..MaxTxs) /\ IsFiniteSet(0..(Limit - 1))
      BY <1>1, FS_Interval
    <2>2. IsFiniteSet((1..MaxTxs) \X types)
      BY <1>2, <2>1, FS_Product
    <2> QED
      BY <2>1, <2>2, FS_Product
  <1>4. \A x \in EventIds : <<<<x.tx, x.type>>, x.index>> \in keys
    BY DEF EventIds
  <1>5. \A x \in EventIds : x = id[<<<<x.tx, x.type>>, x.index>>]
    BY <1>4 DEF EventIds
  <1>6. \A k \in keys : id[k] \in EventIds
    BY DEF EventIds
  <1>7. id \in [keys -> EventIds]
    BY <1>6
  <1> HIDE DEF id
  <1>8. id \in Surjection(keys, EventIds)
    BY <1>4, <1>5, <1>7 DEF Surjection
  <1> HIDE DEF keys
  <1> QED
    BY <1>3, <1>8, FS_Surjection

LEMMA MessagesFinite == IsFiniteSet(Messages)
  <1> DEFINE slots == (ChainEvents \X EventIds) \X (1..MaxCopies)
             message == [k \in slots |->
                           [event |-> k[1][1], event_id |-> k[1][2], copy |-> k[2]]]
             all == [event : ChainEvents, event_id : EventIds, copy : 1..MaxCopies]
  <1>1. IsFiniteSet(slots)
    <2>1. MaxCopies \in Nat /\ IsFiniteSet(ChainEvents)
      BY PipelineAssumption
    <2>2. IsFiniteSet(1..MaxCopies)
      BY <2>1, FS_Interval
    <2>3. IsFiniteSet(ChainEvents \X EventIds)
      BY <2>1, IdsFinite, FS_Product
    <2> QED
      BY <2>2, <2>3, FS_Product
  <1>2. \A x \in all : <<<<x.event, x.event_id>>, x.copy>> \in slots
    OBVIOUS
  <1>3. \A x \in all : x = message[<<<<x.event, x.event_id>>, x.copy>>]
    BY <1>2
  <1>4. \A k \in slots : message[k] \in all
    OBVIOUS
  <1>5. message \in [slots -> all]
    BY <1>4
  <1> HIDE DEF message
  <1>6. message \in Surjection(slots, all)
    BY <1>2, <1>3, <1>5 DEF Surjection
  <1> HIDE DEF slots
  <1>7. Messages \subseteq all
    BY DEF Messages
  <1> HIDE DEF all
  <1> QED
    BY <1>1, <1>6, <1>7, FS_Surjection, FS_Subset

LEMMA OptionsListed == SetToSeq(Options) \in Seq(Options)
  <1> DEFINE n == Cardinality(Options)
  <1>1. n \in Nat /\ ExistsBijection(1..n, Options)
    BY PipelineAssumption, FS_CardinalityType
  <1>2. \E f \in [1..n -> Options] : IsInjective(f)
    BY <1>1 DEF ExistsBijection, Bijection, Injection
  <1>3. SetToSeq(Options) \in [1..n -> Options]
    BY <1>2 DEF SetToSeq
  <1> HIDE DEF n
  <1> QED
    BY <1>1, <1>3, SeqDef

LEMMA ProjectionConstants ==
  /\ Backend \in {"memory", "dynamodb"}
  /\ Projection!IsFiniteSet(Messages) /\ Projection!IsFiniteSet(Workers)
  /\ EventOf \in [Messages -> Projection!Event]
  /\ BatchSize \in Nat \ {0}
  /\ MaxReceives \in Nat \ {0}
  /\ ReportsFailures \in BOOLEAN
  /\ Created \subseteq Proposals
  /\ VoterMaps \subseteq Voters
  /\ AggregatorFaults \subseteq Projection!FaultKinds
  <1>1. ASSUME NEW m \in Messages
        PROVE  EventOf[m] \in Projection!Event
    <2>1. /\ m.event \in ChainEvents /\ m.event_id \in EventIds
          /\ m.event.type \in Ingest!EventTypes
          /\ m.event.proposal \in Proposals /\ m.event.voter \in Voters
          /\ m.event.option \in Options
      BY PipelineAssumption DEF Messages
    <2>2. ProjectedType(m.event.type) \in Projection!EventTypes
      BY <2>1 DEF ProjectedType, Projection!EventTypes, Ingest!EventTypes, Ingest!Payload
    <2> QED
      BY <2>1, <2>2, OptionsListed DEF EventOf, Projection!Event
  <1>2. EventOf \in [Messages -> Projection!Event]
    BY <1>1 DEF EventOf
  <1>3. Projection!IsFiniteSet(Messages) /\ Projection!IsFiniteSet(Workers)
    BY MessagesFinite, PipelineAssumption DEF IsFiniteSet, Projection!IsFiniteSet
  <1> QED
    BY <1>2, <1>3, PipelineAssumption DEF Project!FaultKinds, Projection!FaultKinds

------------------------------------------------------------------------------
(* Every step is one of Ingestion, and one of the Aggregator.               *)

LEMMA CycleStep ==
  ASSUME [Next]_vars
  PROVE  /\ [Cycles!Next]_(Cycles!vars)
         /\ \A w \in Pollers :
              /\ Publish(w) => Cycles!Publish(w)
              /\ Ingest!ListSignatures(w) => Cycles!ListSignatures(w)
  <1>1. ASSUME NEW w \in Pollers
        PROVE  /\ Ingest!Publish(w) => Cycles!Publish(w)
               /\ Ingest!ListSignatures(w) => Cycles!ListSignatures(w)
               /\ Ingest!FetchTransactions(w) => Cycles!FetchTransactions(w)
               /\ Ingest!GetSlot(w) => Cycles!GetSlot(w)
               /\ Ingest!Finish(w) => Cycles!Finish(w)
               /\ Ingest!Abort(w) => Cycles!Abort(w)
    <2>1. Ingest!Publish(w) => Cycles!Publish(w)
      BY DEF Ingest!Publish, Cycles!Publish, Ingest!ComesBefore, Cycles!ComesBefore,
         Ingest!CannotBeNormalized, Cycles!CannotBeNormalized, Ingest!Required,
         Cycles!Required, Ingest!Read, Cycles!Read, Ingest!Payload, Cycles!Payload,
         Ingest!EventAt, Cycles!EventAt, Ingest!Throw, Cycles!Throw, Ingest!Idle,
         Cycles!Idle, Ingest!BuildEventId, Cycles!BuildEventId, Ingest!TypeOf, Cycles!TypeOf
    <2>2. Ingest!ListSignatures(w) => Cycles!ListSignatures(w)
      BY DEF Ingest!ListSignatures, Cycles!ListSignatures, Ingest!Signatures,
         Cycles!Signatures, Ingest!WorthFetching, Cycles!WorthFetching, Ingest!InWindow,
         Cycles!InWindow
    <2>3. Ingest!FetchTransactions(w) => Cycles!FetchTransactions(w)
      BY DEF Ingest!FetchTransactions, Cycles!FetchTransactions, Ingest!CannotBeRead,
         Cycles!CannotBeRead, Ingest!IsKnown, Cycles!IsKnown, Ingest!EventTypes,
         Cycles!EventTypes, Ingest!Payload, Cycles!Payload, Ingest!EventsOf,
         Cycles!EventsOf, Ingest!EventAt, Cycles!EventAt, Ingest!Throw, Cycles!Throw,
         Ingest!Idle, Cycles!Idle
    <2>4. /\ Ingest!GetSlot(w) => Cycles!GetSlot(w)
          /\ Ingest!Finish(w) => Cycles!Finish(w)
          /\ Ingest!Abort(w) => Cycles!Abort(w)
      BY DEF Ingest!GetSlot, Cycles!GetSlot, Ingest!Finish, Cycles!Finish, Ingest!Abort,
         Cycles!Abort, Ingest!Throw, Cycles!Throw, Ingest!Idle, Cycles!Idle
    <2> QED
      BY <2>1, <2>2, <2>3, <2>4
  <1>2. ASSUME NEW e \in ChainEvents, NEW err \in BOOLEAN, Land(e, err)
        PROVE  Cycles!Next
    <2>1. Cycles!Land(<<e>>, err)
      BY <1>2 DEF Land, Ingest!Land, Cycles!Land
    <2> QED
      BY <2>1 DEF Cycles!Next
  <1>3. Ingest!Tick => Cycles!Next
    BY DEF Ingest!Tick, Cycles!Tick, Cycles!Next
  <1>4. ASSUME NEW w \in Pollers, RunCycle(w) \/ Ingest!Abort(w)
        PROVE  Cycles!Next
    BY <1>1, <1>4 DEF RunCycle, Publish, Cycles!Next, Cycles!RunCycle
  <1>5. (\E w \in Workers : Deliver(w) \/ Handle(w)) \/ (\E m \in sent : Expire(m))
          => UNCHANGED Cycles!vars
    BY DEF Deliver, Handle, Expire, ingestion, Cycles!vars
  <1>6. UNCHANGED vars => UNCHANGED Cycles!vars
    BY DEF vars, ingestion, Cycles!vars
  <1>7. [Cycles!Next]_(Cycles!vars)
    BY <1>2, <1>3, <1>4, <1>5, <1>6 DEF Next
  <1> QED
    BY <1>1, <1>7 DEF Publish

\* What SNS delivered are messages.
MessageInv == sent \subseteq Messages

LEMMA ProjectionStep ==
  ASSUME MessageInv, [Next]_vars
  PROVE  /\ [Projection!Next]_(Projection!vars)
         /\ \/ UNCHANGED Projection!vars
            \/ /\ UNCHANGED <<ingestion, sent>>
               /\ \/ \E w \in Workers :
                       \/ \E m \in sent : Projection!Receive(w, <<m>>)
                       \/ Projection!Handle(w) \/ Projection!Return(w)
                  \/ UNCHANGED <<worker, processed>>
  <1>1. ASSUME NEW w \in Workers, NEW m \in sent, Project!Receive(w, <<m>>)
        PROVE  Projection!Next /\ Projection!Receive(w, <<m>>)
    <2>1. Projection!Receive(w, <<m>>)
      BY <1>1 DEF Project!Receive, Projection!Receive, Project!MayReceive,
         Projection!MayReceive, Project!Idle, Projection!Idle
    <2>2. <<m>> \in [1..1 -> Messages] /\ 1 \in 1..BatchSize
      BY PipelineAssumption DEF MessageInv
    <2> QED
      BY <2>1, <2>2 DEF Projection!Next, Projection!Deliver, Projection!Batches
  <1>2. ASSUME NEW w \in Workers
        PROVE  Project!Return(w) => Projection!Return(w)
    BY DEF Project!Return, Projection!Return, Project!Expired, Projection!Expired,
       Project!DeletedOnReturn, Projection!DeletedOnReturn, Project!Idle, Projection!Idle
  <1>3. ASSUME NEW w \in Workers
        PROVE  Project!Handle(w) => Projection!Handle(w)
    <2> USE DEF Project!EventAt, Projection!EventAt, Project!Current, Projection!Current,
                Project!Ends, Projection!Ends, Project!GoesTo, Projection!GoesTo,
                Project!Outcomes, Projection!Outcomes, Project!Answers, Projection!Answers,
                Project!RowOf, Projection!RowOf, Project!WriteRow, Projection!WriteRow,
                Project!WriteActivity, Projection!WriteActivity, Project!Dynamo,
                Projection!Dynamo, Project!RecordAccepts, Projection!RecordAccepts,
                Project!AfterRecord, Projection!AfterRecord, Project!RevealedAccepts,
                Projection!RevealedAccepts, Project!RolledBack, Projection!RolledBack
    <2>1. Project!Check(w) => Projection!Check(w)
      BY DEF Project!Check, Projection!Check, Project!LookedUp, Projection!LookedUp,
         Project!AlreadyProcessed, Projection!AlreadyProcessed
    <2>2. Project!ApplyCreated(w) => Projection!ApplyCreated(w)
      BY DEF Project!ApplyCreated, Projection!ApplyCreated, Project!CreatedAccepts,
         Projection!CreatedAccepts, Project!AfterCreated, Projection!AfterCreated,
         Project!CreatedRow, Projection!CreatedRow, Project!Cardinality,
         Projection!Cardinality
    <2>3. Project!ApplyCommitted(w) => Projection!ApplyCommitted(w)
      BY DEF Project!ApplyCommitted, Projection!ApplyCommitted
    <2>4. Project!ApplyRevealed(w) => Projection!ApplyRevealed(w)
      BY DEF Project!ApplyRevealed, Projection!ApplyRevealed, Project!AfterRevealed,
         Projection!AfterRevealed, Project!PhaseAfterRevealed, Projection!PhaseAfterRevealed
    <2>5. Project!ApplyEnded(w) => Projection!ApplyEnded(w)
      BY DEF Project!ApplyEnded, Projection!ApplyEnded, Project!AfterFinalized,
         Projection!AfterFinalized, Project!AfterClosed, Projection!AfterClosed
    <2>6. Project!Record(w) => Projection!Record(w)
      BY DEF Project!Record, Projection!Record
    <2>7. Project!Undo(w) => Projection!Undo(w)
      BY DEF Project!Undo, Projection!Undo, Project!AfterUndoRevealed,
         Projection!AfterUndoRevealed
    <2>8. Project!Mark(w) => Projection!Mark(w)
      BY DEF Project!Mark, Projection!Mark, Project!AfterMarked, Projection!AfterMarked,
         Project!AlreadyProcessed, Projection!AlreadyProcessed
    <2>9. Project!Unrecord(w) => Projection!Unrecord(w)
      BY DEF Project!Unrecord, Projection!Unrecord
    <2>10. Project!Unapply(w) => Projection!Unapply(w)
      BY DEF Project!Unapply, Projection!Unapply, Project!AfterUndoRevealed,
         Projection!AfterUndoRevealed
    <2> QED
      BY <2>1, <2>2, <2>3, <2>4, <2>5, <2>6, <2>7, <2>8, <2>9, <2>10
         DEF Project!Handle, Projection!Handle
  <1>4. ASSUME NEW w \in Workers, Deliver(w) \/ Handle(w)
        PROVE  /\ Projection!Next /\ UNCHANGED <<ingestion, sent>>
               /\ \/ \E m \in sent : Projection!Receive(w, <<m>>)
                  \/ Projection!Handle(w) \/ Projection!Return(w)
    BY <1>1, <1>2, <1>3, <1>4 DEF Deliver, Handle, Projection!Next
  <1>5. (\E e \in ChainEvents, err \in BOOLEAN : Land(e, err)) => UNCHANGED Projection!vars
    BY DEF Land, aggregator, Projection!vars
  <1>6. \A w \in Pollers : RunCycle(w) => UNCHANGED Projection!vars
    BY DEF RunCycle, Publish, aggregator, Projection!vars
  <1>7. UNCHANGED aggregator \/ UNCHANGED vars => UNCHANGED Projection!vars
    BY DEF aggregator, vars, Projection!vars
  <1>8. ASSUME NEW m \in sent, Expire(m)
        PROVE  Projection!Next /\ UNCHANGED <<ingestion, sent, worker, processed>>
    <2>1. Projection!Reappear(m) \/ Projection!Redrive(m)
      BY <1>8 DEF Expire, Project!Reappear, Projection!Reappear, Project!Redrive,
         Projection!Redrive
    <2>2. UNCHANGED <<ingestion, sent>> /\ m \in Messages
      BY <1>8 DEF Expire, MessageInv
    <2> QED
      BY <2>1, <2>2 DEF Projection!Next, Projection!Reappear, Projection!Redrive
  <1> QED
    BY <1>4, <1>5, <1>6, <1>7, <1>8 DEF Next

------------------------------------------------------------------------------
(* Cycles: how many events a cycle has, and so which ids it gives them.      *)

\* A cycle gives its events indices below the limit of its listing.
IndexInv ==
  /\ Len(chain) <= MaxTxs
  /\ \A w \in Pollers :
       /\ IsFiniteSet(cycle[w].txs) /\ Cardinality(cycle[w].txs) <= Limit
       /\ IsFiniteSet(cycle[w].events)
       /\ cycle[w].next + Cardinality(cycle[w].events) <= Limit
       /\ cycle[w].pc # "publish" => cycle[w].next = 0 /\ cycle[w].events = {}

\* The transactions of the pipeline emit one event each.
LEMMA OneEvent ==
  ASSUME Cycles!TypeOK, NEW t \in DOMAIN chain
  PROVE  /\ DOMAIN chain[t].events = {1} /\ chain[t].events[1] \in ChainEvents
         /\ chain[t].err \in BOOLEAN /\ t \in Nat \ {0}
  <1>1. /\ chain[t].events \in {<<e>> : e \in ChainEvents} /\ chain[t].err \in BOOLEAN
        /\ t \in 1..Len(chain) /\ Len(chain) \in Nat
    BY CycleConstants, Cycles!ChainType
  <1> QED
    BY <1>1

\* The events of so many transactions are no more than that.
LEMMA EventsOfTxs ==
  ASSUME Cycles!TypeOK, NEW txs \in SUBSET DOMAIN chain, IsFiniteSet(txs),
         Cardinality(txs) <= Limit, NEW events, events = UNION {Cycles!EventsOf(t) : t \in txs}
  PROVE  IsFiniteSet(events) /\ Cardinality(events) <= Limit
  <1> DEFINE tx == [e \in events |-> e.tx]
  <1>1. \A e \in events : e.tx \in txs /\ e = [tx |-> e.tx, pos |-> 1]
    BY OneEvent DEF Cycles!EventsOf
  <1>2. tx \in Injection(events, txs)
    BY <1>1 DEF Injection, IsInjective
  <1> HIDE DEF tx
  <1>3. IsFiniteSet(events) /\ Cardinality(events) <= Cardinality(txs)
    BY <1>2, FS_Injection
  <1>4. Cardinality(events) \in Nat /\ Cardinality(txs) \in Nat /\ Limit \in Nat
    BY <1>3, FS_CardinalityType, PipelineAssumption
  <1> QED
    BY <1>3, <1>4

LEMMA IndexStep ==
  ASSUME Cycles!TypeInv, IndexInv, [Cycles!Next]_(Cycles!vars)
  PROVE  IndexInv'
  <1> DEFINE Bounded(c) ==
               /\ IsFiniteSet(c.txs) /\ Cardinality(c.txs) <= Limit
               /\ IsFiniteSet(c.events)
               /\ c.next + Cardinality(c.events) <= Limit
               /\ c.pc # "publish" => c.next = 0 /\ c.events = {}
  <1>1. /\ cycle \in [Pollers -> Cycles!Cycle] /\ Len(chain) \in Nat
        /\ DOMAIN chain = 1..Len(chain) /\ Cycles!TypeOK
    BY CycleConstants, Cycles!ChainType DEF Cycles!TypeInv, Cycles!TypeOK
  <1>2. \A w \in Pollers : Bounded(cycle[w])
    BY DEF IndexInv
  <1>3. Limit \in Nat \ {0} /\ MaxTxs \in Nat
    BY PipelineAssumption
  <1>4. ASSUME Len(chain)' <= MaxTxs, NEW w \in Pollers, NEW c, Bounded(c),
               cycle' = [cycle EXCEPT ![w] = c]
        PROVE  IndexInv'
    BY <1>1, <1>2, <1>4 DEF IndexInv
  <1>5. ASSUME Len(chain)' <= MaxTxs, UNCHANGED cycle
        PROVE  IndexInv'
    BY <1>2, <1>5 DEF IndexInv
  <1>6. Len(chain)' <= MaxTxs
    <2>1. CASE UNCHANGED chain
      BY <2>1 DEF IndexInv
    <2>2. ASSUME NEW events \in {<<e>> : e \in ChainEvents}, NEW err \in BOOLEAN,
                 Cycles!Land(events, err)
          PROVE  Len(chain)' <= MaxTxs
      <3> DEFINE tx == [slot |-> slot, err |-> err, events |-> events]
      <3>1. Len(chain) < MaxTxs /\ chain' = Append(chain, tx)
        BY <2>2 DEF Cycles!Land
      <3>2. tx \in Cycles!Transaction /\ chain \in Seq(Cycles!Transaction)
        BY <1>1 DEF Cycles!Transaction, Cycles!TypeOK
      <3> HIDE DEF tx
      <3>3. Len(chain') = Len(chain) + 1
        BY <3>1, <3>2, AppendProperties
      <3> QED
        BY <1>1, <1>3, <3>1, <3>3
    <2>3. \/ UNCHANGED chain
          \/ \E events \in {<<e>> : e \in ChainEvents}, err \in BOOLEAN :
               Cycles!Land(events, err)
      BY DEF Cycles!Next, Cycles!Tick, Cycles!RunCycle, Cycles!GetSlot,
         Cycles!ListSignatures, Cycles!FetchTransactions, Cycles!Publish, Cycles!Finish,
         Cycles!Abort, Cycles!vars
    <2> QED
      BY <2>1, <2>2, <2>3
  <1>7. Bounded(Cycles!Idle)
    BY <1>3, FS_EmptySet DEF Cycles!Idle
  <1>8. ASSUME NEW w \in Pollers, Cycles!Throw(w)
        PROVE  IndexInv'
    BY <1>4, <1>6, <1>7, <1>8 DEF Cycles!Throw
  <1>9. ASSUME NEW w \in Pollers, Cycles!GetSlot(w)
        PROVE  IndexInv'
    <2> DEFINE c == [Cycles!Idle EXCEPT !.pc = "list",
                       !.from = IF slot > Lookback THEN slot - Lookback ELSE 0]
    <2>1. c.txs = {} /\ c.events = {} /\ c.next = 0
      BY DEF Cycles!Idle
    <2>2. Bounded(c)
      BY <1>3, <2>1, FS_EmptySet
    <2> HIDE DEF c
    <2>3. cycle' = [cycle EXCEPT ![w] = c]
      BY <1>9 DEF Cycles!GetSlot, c
    <2> QED
      BY <1>4, <1>6, <2>2, <2>3
  <1>10. ASSUME NEW w \in Pollers, Cycles!ListSignatures(w)
         PROVE  IndexInv'
    <2> DEFINE txs == {t \in Cycles!Signatures :
                         Cycles!WorthFetching(chain[t], cycle[w].from)}
               seen == [slot |-> slot, txs |-> Len(chain)]
               c == [cycle[w] EXCEPT !.pc = "fetch", !.seen = seen, !.txs = txs]
    <2>1. IsFiniteSet(txs) /\ Cardinality(txs) <= Limit
      <3> DEFINE newest == (Len(chain) - Limit + 1)..Len(chain)
      <3>1. txs \subseteq newest
        BY <1>1, <1>3 DEF Cycles!Signatures
      <3>2. IsFiniteSet(newest) /\ Cardinality(newest) = Limit
        BY <1>1, <1>3, FS_Interval
      <3> HIDE DEF txs, newest
      <3>3. IsFiniteSet(txs) /\ Cardinality(txs) <= Cardinality(newest)
        BY <3>1, <3>2, FS_Subset
      <3> QED
        BY <3>2, <3>3
    <2> HIDE DEF txs
    <2>2. /\ cycle[w] \in Cycles!Cycle /\ cycle[w].pc = "list"
          /\ cycle' = [cycle EXCEPT ![w] = c]
      BY <1>1, <1>10 DEF Cycles!ListSignatures, Cycles!Cycle, txs
    <2> HIDE DEF seen
    <2>3. /\ c.txs = txs /\ c.events = cycle[w].events /\ c.next = cycle[w].next
          /\ c.pc = "fetch"
      BY <2>2 DEF Cycles!Cycle
    <2>4. Bounded(c)
      BY <1>2, <2>1, <2>2, <2>3
    <2> HIDE DEF c
    <2> QED
      BY <1>4, <1>6, <2>2, <2>4
  <1>11. ASSUME NEW w \in Pollers, Cycles!FetchTransactions(w)
         PROVE  IndexInv'
    <2>1. PICK missing \in SUBSET cycle[w].txs :
            \/ Cycles!Throw(w)
            \/ cycle' = [cycle EXCEPT ![w].pc = "publish",
                 ![w].events = UNION {Cycles!EventsOf(t) : t \in cycle[w].txs \ missing}]
      BY <1>11 DEF Cycles!FetchTransactions
    <2> DEFINE txs == cycle[w].txs \ missing
               events == UNION {Cycles!EventsOf(t) : t \in txs}
               c == [cycle[w] EXCEPT !.pc = "publish", !.events = events]
    <2>2. CASE cycle' = [cycle EXCEPT ![w].pc = "publish", ![w].events = events]
      <3>1. cycle[w] \in Cycles!Cycle /\ cycle[w].pc = "fetch"
        BY <1>1, <1>11 DEF Cycles!FetchTransactions
      <3>2. cycle' = [cycle EXCEPT ![w] = c]
        BY <1>1, <2>2 DEF Cycles!Cycle
      <3>3. /\ txs \subseteq cycle[w].txs /\ txs \subseteq DOMAIN chain
            /\ IsFiniteSet(cycle[w].txs) /\ Cardinality(cycle[w].txs) <= Limit
        BY <1>2 DEF Cycles!TypeInv, Cycles!RealInv
      <3>4. IsFiniteSet(txs) /\ Cardinality(txs) <= Limit
        <4>1. IsFiniteSet(txs) /\ Cardinality(txs) <= Cardinality(cycle[w].txs)
          BY <3>3, FS_Subset
        <4>2. Cardinality(txs) \in Nat /\ Cardinality(cycle[w].txs) \in Nat
          BY <3>3, <4>1, FS_CardinalityType
        <4> QED
          BY <1>3, <3>3, <4>1, <4>2
      <3>5. IsFiniteSet(events) /\ Cardinality(events) <= Limit
        BY <1>1, <3>3, <3>4, EventsOfTxs
      <3> HIDE DEF events
      <3>6. c.txs = cycle[w].txs /\ c.events = events /\ c.next = cycle[w].next
            /\ c.pc = "publish"
        BY <3>1 DEF Cycles!Cycle
      <3>7. cycle[w].next = 0 /\ Cardinality(events) \in Nat
        BY <1>2, <3>1, <3>5, FS_CardinalityType
      <3>8. Bounded(c)
        BY <1>3, <3>3, <3>5, <3>6, <3>7
      <3> HIDE DEF c
      <3> QED
        BY <1>4, <1>6, <3>2, <3>8
    <2> QED
      BY <1>8, <2>1, <2>2
  <1>12. ASSUME NEW w \in Pollers, Cycles!Publish(w)
         PROVE  IndexInv'
    <2>1. PICK e \in cycle[w].events :
            \/ Cycles!Throw(w)
            \/ cycle' = [cycle EXCEPT ![w].events = @ \ {e}, ![w].next = @ + 1]
      BY <1>12 DEF Cycles!Publish
    <2> DEFINE c == [cycle[w] EXCEPT !.events = @ \ {e}, !.next = @ + 1]
    <2>2. CASE cycle' = [cycle EXCEPT ![w].events = @ \ {e}, ![w].next = @ + 1]
      <3>1. cycle[w] \in Cycles!Cycle /\ cycle[w].pc = "publish" /\ cycle[w].next \in Nat
        BY <1>1, <1>12 DEF Cycles!Publish, Cycles!Cycle
      <3>2. cycle' = [cycle EXCEPT ![w] = c]
        BY <1>1, <2>2 DEF Cycles!Cycle
      <3>3. /\ c.txs = cycle[w].txs /\ c.events = cycle[w].events \ {e}
            /\ c.next = cycle[w].next + 1 /\ c.pc = "publish"
        BY <3>1 DEF Cycles!Cycle
      <3> HIDE DEF c
      <3>4. /\ IsFiniteSet(cycle[w].events) /\ Cardinality(cycle[w].events) \in Nat
            /\ IsFiniteSet(c.events)
            /\ Cardinality(c.events) = Cardinality(cycle[w].events) - 1
        BY <1>2, <3>3, FS_RemoveElement, FS_CardinalityType
      <3>5. Bounded(c)
        BY <1>2, <1>3, <3>1, <3>3, <3>4
      <3> QED
        BY <1>4, <1>6, <3>2, <3>5
    <2> QED
      BY <1>8, <2>1, <2>2
  <1>13. ASSUME NEW w \in Pollers, Cycles!Finish(w) \/ Cycles!Abort(w)
         PROVE  IndexInv'
    BY <1>8, <1>13 DEF Cycles!Finish, Cycles!Abort, Cycles!Throw
  <1>14. CASE UNCHANGED cycle
    BY <1>5, <1>6, <1>14
  <1> QED
    BY <1>9, <1>10, <1>11, <1>12, <1>13, <1>14
       DEF Cycles!Next, Cycles!RunCycle, Cycles!Tick, Cycles!Land, Cycles!vars

------------------------------------------------------------------------------
(* Messages: what they say happened on the chain.                            *)

\* A message stands for what its transaction emitted, and that took effect.
Landed(m) ==
  /\ m.event_id.tx \in DOMAIN chain /\ ~chain[m.event_id.tx].err
  /\ chain[m.event_id.tx].events[1] = m.event

SentInv == MessageInv /\ \A m \in sent : Landed(m)

\* The Aggregator works on messages that SNS delivered, and marks their ids.
WorkInv ==
  /\ \A w \in Workers : worker[w].todo \in Seq(sent)
  /\ processed \subseteq {m.event_id : m \in sent}

\* What is on the chain stays there.
LEMMA ChainStays ==
  ASSUME Cycles!TypeOK, [Next]_vars
  PROVE  /\ \A t \in DOMAIN chain : t \in DOMAIN chain' /\ chain'[t] = chain[t]
         /\ DOMAIN chain' = 1..Len(chain') /\ Len(chain') \in Nat
         /\ \A p, o : VotesOnChain(p, o) \subseteq VotesOnChain(p, o)'
         /\ \A p : FinalOnChain(p) => FinalOnChain(p)'
  <1>1. /\ \A t \in DOMAIN chain : t \in DOMAIN chain' /\ chain'[t] = chain[t]
        /\ DOMAIN chain' = 1..Len(chain') /\ Len(chain') \in Nat
    BY CycleConstants, CycleStep, Cycles!ChainGrows
  <1> QED
    BY <1>1 DEF VotesOnChain, FinalOnChain

\* What a cycle sends.
LEMMA PublishSends ==
  ASSUME Cycles!TypeInv, IndexInv, [Next]_vars, NEW w \in Pollers, Publish(w),
         NEW m \in sent', m \notin sent
  PROVE  m \in Messages /\ Landed(m)
  <1> DEFINE n == NextOf(w)
             e == Ingest!EventAt(n)
             id == Ingest!BuildEventId(n, cycle[w].next)
  <1>1. m \in NewMessages(e, id)
    BY DEF Publish
  <1>2. PICK c \in 1..MaxCopies : m = [event |-> e, event_id |-> id, copy |-> c]
    BY <1>1 DEF NewMessages, Message
  <1>3. n \in cycle[w].events /\ cycle[w].pc = "publish"
    <2>1. \E x \in cycle[w].events : \A f \in cycle[w].events \ {x} : Ingest!ComesBefore(x, f)
      BY DEF Publish, Ingest!Publish
    <2> QED
      BY <2>1 DEF NextOf, Publish, Ingest!Publish
  <1> HIDE DEF n
  <1>4. Cycles!Real(n) /\ cycle[w] \in Cycles!Cycle
    BY <1>3 DEF Cycles!TypeInv, Cycles!RealInv, Cycles!TypeOK
  <1>5. /\ n.tx \in DOMAIN chain /\ ~chain[n.tx].err
        /\ e = chain[n.tx].events[1] /\ e \in ChainEvents
    BY <1>4, OneEvent DEF Cycles!TypeInv, Cycles!Real, Ingest!EventAt
  <1>6. id = [tx |-> n.tx, type |-> e.type, index |-> cycle[w].next]
    BY DEF Ingest!BuildEventId, Ingest!TypeOf
  <1>7. n.tx \in 1..MaxTxs
    <2>1. DOMAIN chain = 1..Len(chain) /\ Len(chain) \in Nat
      BY CycleConstants, Cycles!ChainType DEF Cycles!TypeInv
    <2>2. Len(chain) <= MaxTxs /\ MaxTxs \in Nat
      BY PipelineAssumption DEF IndexInv
    <2> QED
      BY <1>5, <2>1, <2>2
  <1>8. cycle[w].next \in 0..(Limit - 1)
    <2>1. IsFiniteSet(cycle[w].events) /\ cycle[w].next + Cardinality(cycle[w].events) <= Limit
      BY DEF IndexInv
    <2>2. Cardinality(cycle[w].events) \in Nat \ {0}
      BY <1>3, <2>1, FS_CardinalityType, FS_EmptySet
    <2>3. cycle[w].next \in Nat /\ Limit \in Nat
      BY <1>4, PipelineAssumption DEF Cycles!Cycle
    <2> QED
      BY <2>1, <2>2, <2>3
  <1> HIDE DEF e, id
  <1>9. id \in EventIds
    BY <1>5, <1>6, <1>7, <1>8 DEF EventIds
  <1>10. m \in Messages
    BY <1>2, <1>5, <1>6, <1>9 DEF Messages
  <1>11. Landed(m)
    BY <1>2, <1>5, <1>6 DEF Landed
  <1> QED
    BY <1>10, <1>11

LEMMA SentStep ==
  ASSUME Cycles!TypeInv, IndexInv, SentInv, [Next]_vars
  PROVE  SentInv' /\ sent \subseteq sent'
  <1>1. \A m : Landed(m) => Landed(m)'
    BY ChainStays DEF Cycles!TypeInv, Landed
  <1>2. sent' = sent \/ \E w \in Pollers : Publish(w)
    BY DEF Next, Land, RunCycle, Deliver, Handle, Expire, vars
  <1>3. \A m \in sent' : m \in sent \/ (m \in Messages /\ Landed(m))
    BY <1>2, PublishSends
  <1>4. sent \subseteq sent'
    BY <1>2 DEF Publish
  <1> QED
    BY <1>1, <1>3, <1>4 DEF SentInv, MessageInv

\* The record at hand is that of a message that was delivered.
LEMMA AtHand ==
  ASSUME Projection!TypeInv, SentInv, WorkInv, NEW w \in Workers,
         worker[w].pc \in Projection!Busy
  PROVE  \E m \in sent :
           /\ Landed(m)
           /\ m.event \in ChainEvents /\ m.event_id \in EventIds
           /\ m.event.type = m.event_id.type
           /\ Projection!EventAt(w).id = m.event_id
           /\ Projection!EventAt(w).type = ProjectedType(m.event.type)
           /\ Projection!EventAt(w).proposal = m.event.proposal
           /\ Projection!EventAt(w).option = m.event.option
  <1> DEFINE m == Head(worker[w].todo)
  <1>1. worker[w].todo # <<>>
    BY ProjectionConstants, Projection!CurrentType
  <1>2. m \in sent
    BY <1>1, HeadTailProperties DEF WorkInv
  <1>3. m \in Messages /\ Landed(m)
    BY <1>2 DEF SentInv, MessageInv
  <1>4. Projection!EventAt(w) = EventOf[m]
    BY DEF Projection!EventAt, Projection!Current
  <1> HIDE DEF m
  <1>5. /\ EventOf[m].id = m.event_id /\ EventOf[m].type = ProjectedType(m.event.type)
        /\ EventOf[m].proposal = m.event.proposal /\ EventOf[m].option = m.event.option
    BY <1>3 DEF EventOf
  <1>6. m.event \in ChainEvents /\ m.event_id \in EventIds /\ m.event.type = m.event_id.type
    BY <1>3 DEF Messages
  <1> QED
    BY <1>2, <1>3, <1>4, <1>5, <1>6

LEMMA WorkStep ==
  ASSUME Projection!TypeInv, Projection!VerdictInv, SentInv, WorkInv, [Next]_vars,
         sent \subseteq sent'
  PROVE  WorkInv'
  <1>1. MessageInv
    BY DEF SentInv
  <1>2. CASE UNCHANGED <<worker, processed>>
    <2>1. \A w \in Workers : worker[w].todo \in Seq(sent')
      BY SeqMonotonic DEF WorkInv
    <2> QED
      BY <1>2, <2>1 DEF WorkInv
  <1>3. ASSUME UNCHANGED <<ingestion, sent>>, NEW v \in Workers,
               \/ \E m \in sent : Projection!Receive(v, <<m>>)
               \/ Projection!Handle(v) \/ Projection!Return(v)
        PROVE  WorkInv'
    <2>1. ASSUME NEW w \in Workers
          PROVE  worker'[w].todo \in Seq(sent)
      <3>1. \/ worker'[w].todo = worker[w].todo
            \/ worker[w].todo # <<>> /\ worker'[w].todo = Tail(worker[w].todo)
            \/ worker'[w].todo = <<>>
            \/ \E m \in sent : worker'[w].todo = <<m>>
        BY <1>3, ProjectionConstants, Projection!TodoStep
      <3>2. worker[w].todo \in Seq(sent)
        BY DEF WorkInv
      <3>3. worker[w].todo # <<>> => Tail(worker[w].todo) \in Seq(sent)
        BY <3>2, HeadTailProperties
      <3>4. <<>> \in Seq(sent) /\ \A m \in sent : <<m>> \in Seq(sent)
        OBVIOUS
      <3> QED
        BY <3>1, <3>2, <3>3, <3>4
    <2>2. processed' \subseteq {m.event_id : m \in sent}
      <3>1. \/ processed' = processed
            \/ \E w \in Workers :
                 /\ worker[w].pc \in Projection!Busy
                 /\ processed' = processed \cup {Projection!EventAt(w).id}
        BY <1>1, ProjectionConstants, ProjectionStep, Projection!MarkStep
      <3> QED
        BY <3>1, AtHand DEF WorkInv
    <2>3. sent' = sent
      BY <1>3
    <2> QED
      BY <2>1, <2>2, <2>3 DEF WorkInv
  <1>4. UNCHANGED Projection!vars => UNCHANGED <<worker, processed>>
    BY DEF Projection!vars
  <1> QED
    BY <1>1, <1>2, <1>3, <1>4, ProjectionStep

------------------------------------------------------------------------------
(* The invariant, and that the whole implements both services.              *)

PipelineInv == Cycles!TypeInv /\ IndexInv /\ SentInv /\ WorkInv /\ Projection!DropInv

LEMMA PartsInit == Init => Cycles!Init /\ Projection!Init
  <1>1. Init => Cycles!Init
    BY DEF Init, Ingest!Init, Cycles!Init, Ingest!Idle, Cycles!Idle
  <1>2. Init => Projection!Init
    BY DEF Init, Project!Init, Projection!Init, Project!Idle, Projection!Idle,
       Project!CreatedRow, Projection!CreatedRow, Project!NoRow, Projection!NoRow,
       Project!NoParticipation, Projection!NoParticipation
  <1> QED
    BY <1>1, <1>2

LEMMA PipelineInit == Init => PipelineInv
  <1> SUFFICES ASSUME Init PROVE PipelineInv
    OBVIOUS
  <1>1. Cycles!TypeInv /\ Projection!DropInv
    BY PartsInit, CycleConstants, Cycles!TypeInit, ProjectionConstants, Projection!DropInit
  <1>2. Cycles!Idle.txs = {} /\ Cycles!Idle.events = {} /\ Cycles!Idle.next = 0
    BY DEF Cycles!Idle
  <1>3. /\ \A w \in Pollers : cycle[w] = Cycles!Idle
        /\ chain = <<>> /\ sent = {} /\ processed = {}
        /\ \A w \in Workers : worker[w].todo = <<>>
    BY PartsInit DEF Init, Cycles!Init, Projection!Init, Projection!Idle
  <1>4. Limit \in Nat \ {0} /\ MaxTxs \in Nat
    BY PipelineAssumption
  <1>5. IndexInv
    <2>1. Len(chain) <= MaxTxs
      BY <1>3, <1>4
    <2>2. ASSUME NEW w \in Pollers
          PROVE  cycle[w].txs = {} /\ cycle[w].events = {} /\ cycle[w].next = 0
      BY <1>2, <1>3
    <2>3. IsFiniteSet({}) /\ Cardinality({}) = 0
      BY FS_EmptySet
    <2>4. \A w \in Pollers :
            /\ IsFiniteSet(cycle[w].txs) /\ Cardinality(cycle[w].txs) = 0
            /\ IsFiniteSet(cycle[w].events) /\ Cardinality(cycle[w].events) = 0
      BY <2>2, <2>3, Zenon
    <2> QED
      BY <1>4, <2>1, <2>2, <2>4 DEF IndexInv
  <1>6. SentInv /\ WorkInv
    <2>1. SentInv
      BY <1>3 DEF SentInv, MessageInv
    <2>2. \A w \in Workers : worker[w].todo \in Seq(sent)
      BY <1>3, EmptySeq
    <2> QED
      BY <1>3, <2>1, <2>2 DEF WorkInv
  <1> QED
    BY <1>1, <1>5, <1>6 DEF PipelineInv

LEMMA PipelineStep ==
  ASSUME PipelineInv, [Next]_vars
  PROVE  /\ PipelineInv' /\ MessageInv /\ Projection!TypeInv
         /\ [Cycles!Next]_(Cycles!vars) /\ [Projection!Next]_(Projection!vars)
  <1>1. MessageInv /\ Projection!TypeInv /\ Projection!VerdictInv
    BY DEF PipelineInv, SentInv, Projection!DropInv
  <1>2. [Cycles!Next]_(Cycles!vars) /\ [Projection!Next]_(Projection!vars)
    BY <1>1, CycleStep, ProjectionStep
  <1>3. Cycles!TypeInv'
    BY <1>2, CycleConstants, Cycles!TypeStep DEF PipelineInv
  <1>4. Projection!DropInv'
    BY <1>2, ProjectionConstants, Projection!DropStep DEF PipelineInv
  <1>5. IndexInv'
    BY <1>2, IndexStep DEF PipelineInv
  <1>6. SentInv' /\ sent \subseteq sent'
    BY SentStep DEF PipelineInv
  <1>7. WorkInv'
    BY <1>1, <1>6, WorkStep DEF PipelineInv
  <1> QED
    BY <1>1, <1>2, <1>3, <1>4, <1>5, <1>6, <1>7 DEF PipelineInv

LEMMA PipelineInvariant == Spec => []PipelineInv
  <1>1. PipelineInv /\ [Next]_vars => PipelineInv'
    BY PipelineStep
  <1> QED
    BY <1>1, PipelineInit, PTL DEF Spec

\* The cycles of the pipeline are those of Ingestion, for any chain that ballots
\* allow: what is proved of Ingestion alone holds where the queue and the
\* Aggregator work beside it.
THEOREM PipelineIngests == Spec => Cycles!Spec
  <1>1. [Next]_vars => [Cycles!Next]_(Cycles!vars)
    BY CycleStep
  <1> QED
    BY <1>1, PartsInit, PTL DEF Spec, Cycles!Spec

\* The Aggregator of the pipeline is the Aggregator alone, which meets messages in
\* any order: what SNS delivers is among what its own module allows.
THEOREM PipelineProjects == Spec => Projection!Spec
  <1>1. PipelineInv /\ [Next]_vars => [Projection!Next]_(Projection!vars)
    BY PipelineStep
  <1> QED
    BY <1>1, PartsInit, PipelineInvariant, PTL DEF Spec, Projection!Spec

------------------------------------------------------------------------------
(* Results are shown only once the chain has them.                          *)

\* Results are shown only for a ballot that the chain has finalized, whatever fails
\* in the cycles and in the projection, and in whatever order messages come.
THEOREM ShownIsFinal == Spec => []ShownMeansFinal
  <1>1. Init => ShownMeansFinal
    BY PartsInit DEF Projection!Init, Projection!NoRow, Projection!CreatedRow,
       ShownMeansFinal
  <1>2. ASSUME PipelineInv, ShownMeansFinal, [Next]_vars
        PROVE  ShownMeansFinal'
    <2> SUFFICES ASSUME NEW p \in Proposals, rows'[p].results_visible
                 PROVE  FinalOnChain(p)'
      BY DEF ShownMeansFinal
    <2>1. \A q : FinalOnChain(q) => FinalOnChain(q)'
      BY <1>2, ChainStays DEF PipelineInv, Cycles!TypeInv
    <2>2. CASE rows[p].results_visible
      BY <1>2, <2>1, <2>2 DEF ShownMeansFinal
    <2>3. CASE ~rows[p].results_visible
      <3>1. PICK w \in Workers :
              /\ worker[w].pc \in Projection!Busy
              /\ Projection!EventAt(w).type = "ProposalFinalized"
              /\ Projection!EventAt(w).proposal = p
        BY <1>2, <2>3, PipelineStep, ProjectionConstants, Projection!ShowStep
      <3>2. PICK m \in sent :
              /\ Landed(m) /\ Projection!EventAt(w).type = ProjectedType(m.event.type)
              /\ Projection!EventAt(w).proposal = m.event.proposal
        BY <1>2, <3>1, PipelineStep, AtHand DEF PipelineInv
      <3>3. m.event.type = "ProposalFinalized" /\ m.event.proposal = p
        BY <3>1, <3>2 DEF ProjectedType
      <3>4. FinalOnChain(p)
        BY <3>2, <3>3 DEF Landed, FinalOnChain
      <3> QED
        BY <2>1, <3>4
    <2> QED
      BY <2>2, <2>3
  <1> QED
    BY <1>1, <1>2, PipelineInvariant, PTL DEF Spec

------------------------------------------------------------------------------
(* The tally and the chain.                                                 *)

\* The marked ids under which votes for option o of p were published.
MarkedReveals(p, o) == {id \in processed : id.tx \in VotesOnChain(p, o)}

\* The tally is bounded by them and by the increments that are held.
CountInv ==
  /\ Projection!KindInv /\ Projection!MapInv
  /\ \A p \in Proposals, o \in Options :
       Projection!Counted(p, o) <= Cardinality(MarkedReveals(p, o)) + Projection!Held(p, o)

LEMMA MarkedFinite ==
  ASSUME SentInv, WorkInv, NEW p, NEW o
  PROVE  /\ IsFiniteSet(MarkedReveals(p, o))
         /\ Cardinality(MarkedReveals(p, o)) \in Nat
  <1>1. MarkedReveals(p, o) \subseteq EventIds
    BY DEF MarkedReveals, WorkInv, SentInv, MessageInv, Messages
  <1> QED
    BY <1>1, IdsFinite, FS_Subset, FS_CardinalityType

LEMMA CountInit == Init => CountInv
  <1> SUFFICES ASSUME Init PROVE CountInv
    OBVIOUS
  <1>1. PipelineInv
    BY PipelineInit
  <1>2. /\ Projection!KindInv
        /\ \A p \in Proposals, o \in Options :
             Projection!Counted(p, o) = 0 /\ Projection!Held(p, o) = 0
    BY PartsInit, ProjectionConstants, Projection!TallyInit
  <1>3. \A p, o : Cardinality(MarkedReveals(p, o)) \in Nat
    BY <1>1, MarkedFinite DEF PipelineInv
  <1> QED
    BY <1>2, <1>3 DEF CountInv, Projection!MapInv

LEMMA CountStep ==
  ASSUME PipelineInv, CountInv, AggregatorFaults \subseteq {"overlap"}, [Next]_vars
  PROVE  CountInv'
  <1>1. /\ PipelineInv' /\ Projection!TypeInv /\ [Projection!Next]_(Projection!vars)
        /\ Projection!KindInv /\ Projection!MapInv
    BY PipelineStep DEF CountInv
  <1>2. Projection!KindInv' /\ Projection!MapInv'
    BY <1>1, ProjectionConstants, Projection!KindStep, Projection!MapStep
  <1>3. ASSUME NEW p \in Proposals, NEW o \in Options
        PROVE  Projection!Counted(p, o)' <=
                 Cardinality(MarkedReveals(p, o)') + Projection!Held(p, o)'
    <2> DEFINE old == MarkedReveals(p, o)
               new == MarkedReveals(p, o)'
    <2>1. old \subseteq new
      <3>1. processed \subseteq processed'
        BY <1>1, ProjectionConstants, Projection!MarkStep
      <3>2. VotesOnChain(p, o) \subseteq VotesOnChain(p, o)'
        BY ChainStays DEF PipelineInv, Cycles!TypeInv
      <3> QED
        BY <3>1, <3>2 DEF MarkedReveals
    <2>2. /\ IsFiniteSet(old) /\ Cardinality(old) \in Nat
          /\ IsFiniteSet(new) /\ Cardinality(new) \in Nat
      <3>1. IsFiniteSet(old) /\ Cardinality(old) \in Nat
        BY MarkedFinite DEF PipelineInv
      <3>2. new \subseteq EventIds
        BY <1>1 DEF MarkedReveals, PipelineInv, WorkInv, SentInv, MessageInv, Messages
      <3> QED
        BY <3>1, <3>2, IdsFinite, FS_Subset, FS_CardinalityType
    <2>3. Projection!Marks(p, o) => Cardinality(new) >= Cardinality(old) + 1
      <3> SUFFICES ASSUME Projection!Marks(p, o)
                   PROVE  Cardinality(new) >= Cardinality(old) + 1
        OBVIOUS
      <3>1. PICK w \in Workers :
              /\ worker[w].pc = "mark"
              /\ Projection!EventAt(w) \in Projection!Reveals(p, o)
              /\ Projection!EventAt(w).id \notin processed
              /\ processed' = processed \cup {Projection!EventAt(w).id}
        BY DEF Projection!Marks
      <3>2. worker[w].pc \in Projection!Busy
        BY <3>1 DEF Projection!Busy
      <3>3. PICK m \in sent :
              /\ Landed(m)
              /\ Projection!EventAt(w).id = m.event_id
              /\ Projection!EventAt(w).type = ProjectedType(m.event.type)
              /\ Projection!EventAt(w).proposal = m.event.proposal
              /\ Projection!EventAt(w).option = m.event.option
        BY <1>1, <3>2, AtHand DEF PipelineInv
      <3>4. /\ m.event.type = "VoteRevealed" /\ m.event.proposal = p /\ m.event.option = o
        BY <3>1, <3>3 DEF Projection!Reveals, ProjectedType
      <3>5. m.event_id.tx \in VotesOnChain(p, o)
        BY <3>3, <3>4 DEF Landed, VotesOnChain
      <3>6. m.event_id.tx \in VotesOnChain(p, o)'
        BY <3>5, ChainStays DEF PipelineInv, Cycles!TypeInv
      <3>7. m.event_id \in new /\ m.event_id \notin old
        BY <3>1, <3>3, <3>6 DEF MarkedReveals
      <3> HIDE DEF old, new
      <3>8. old \cup {m.event_id} \subseteq new
        BY <2>1, <3>7
      <3>9. Cardinality(old \cup {m.event_id}) = Cardinality(old) + 1
        BY <2>2, <3>7, FS_AddElement
      <3>10. Cardinality(old \cup {m.event_id}) <= Cardinality(new)
        BY <2>2, <3>8, FS_Subset
      <3> QED
        BY <2>2, <3>9, <3>10
    <2>4. Cardinality(old) <= Cardinality(new)
      <3> HIDE DEF old, new
      <3> QED
        BY <2>1, <2>2, FS_Subset
    <2>5. Projection!Counted(p, o) <= Cardinality(old) + Projection!Held(p, o)
      BY DEF CountInv
    <2>6. /\ Projection!Counted(p, o) \in Int /\ Projection!Counted(p, o)' \in Int
          /\ Projection!Held(p, o) \in Nat /\ Projection!Held(p, o)' \in Nat
          /\ \/ Projection!Counted(p, o)' <= 0
             \/ Projection!Counted(p, o)' - Projection!Held(p, o)' <=
                  Projection!Counted(p, o) - Projection!Held(p, o)
             \/ /\ Projection!Counted(p, o)' - Projection!Held(p, o)' <=
                     Projection!Counted(p, o) - Projection!Held(p, o) + 1
                /\ Projection!Marks(p, o)
      BY <1>1, ProjectionConstants, Projection!TallyBound
    <2> HIDE DEF old, new
    <2>7. Projection!Counted(p, o)' <= Cardinality(new) + Projection!Held(p, o)'
      BY <2>2, <2>3, <2>4, <2>5, <2>6
    <2> QED
      BY <2>7 DEF new
  <1> QED
    BY <1>2, <1>3 DEF CountInv

\* Ingestion has published no event under two ids.
OneIdEach ==
  \A m, n \in sent : m.event_id.tx = n.event_id.tx => m.event_id = n.event_id

\* The votes on the chain, as their marked ids count them.
LEMMA MarkedAreVotes ==
  ASSUME PipelineInv, OneIdEach, NEW p, NEW o
  PROVE  /\ Cardinality(MarkedReveals(p, o)) <= Cardinality(VotesOnChain(p, o))
         /\ Cardinality(VotesOnChain(p, o)) \in Nat
  <1> DEFINE tx == [id \in MarkedReveals(p, o) |-> id.tx]
  <1>1. \A id, other \in MarkedReveals(p, o) : id.tx = other.tx => id = other
    BY DEF PipelineInv, WorkInv, MarkedReveals, OneIdEach
  <1>2. tx \in Injection(MarkedReveals(p, o), VotesOnChain(p, o))
    BY <1>1 DEF MarkedReveals, Injection, IsInjective
  <1>3. IsFiniteSet(VotesOnChain(p, o))
    <2>1. DOMAIN chain = 1..Len(chain) /\ Len(chain) \in Nat
      BY CycleConstants, Cycles!ChainType DEF PipelineInv, Cycles!TypeInv
    <2>2. IsFiniteSet(DOMAIN chain)
      BY <2>1, FS_Interval
    <2>3. VotesOnChain(p, o) \subseteq DOMAIN chain
      BY DEF VotesOnChain
    <2> QED
      BY <2>2, <2>3, FS_Subset
  <1> HIDE DEF tx
  <1> QED
    BY <1>2, <1>3, FS_Injection, FS_CardinalityType

LEMMA CountInvariant ==
  ASSUME AggregatorFaults \subseteq {"overlap"}
  PROVE  Spec => []CountInv
  <1>1. PipelineInv /\ CountInv /\ [Next]_vars => CountInv'
    BY CountStep
  <1> QED
    BY <1>1, CountInit, PipelineInvariant, PTL DEF Spec

\* The read model is ahead of the chain only where Ingestion gave one event two
\* ids: as long as no call of the projection fails, duplicate messages and
\* invocations at work on the same event add nothing.
THEOREM AheadByIdsOnly ==
  ASSUME AggregatorFaults \subseteq {"overlap"}
  PROVE  Spec => [](OneIdEach => NeverAheadOfChain)
  <1>1. ASSUME PipelineInv, CountInv, OneIdEach
        PROVE  NeverAheadOfChain
    <2> SUFFICES ASSUME \A w \in Workers : worker[w].pc = "idle",
                        NEW p \in Proposals, NEW o \in Options
                 PROVE  rows[p].option_counts[o] <= Cardinality(VotesOnChain(p, o))
      BY DEF NeverAheadOfChain
    <2>1. Projection!Held(p, o) = 0
      BY ProjectionConstants, Projection!NothingHeld
    <2>2. Projection!Counted(p, o) \in Int
      BY <1>1, ProjectionConstants, Projection!TallyTypes DEF PipelineInv, Projection!DropInv
    <2>3. Projection!Counted(p, o) <= Cardinality(MarkedReveals(p, o)) + Projection!Held(p, o)
      BY <1>1 DEF CountInv
    <2>4. Cardinality(MarkedReveals(p, o)) \in Nat
      BY <1>1, MarkedFinite DEF PipelineInv
    <2>5. /\ Cardinality(MarkedReveals(p, o)) <= Cardinality(VotesOnChain(p, o))
          /\ Cardinality(VotesOnChain(p, o)) \in Nat
      BY <1>1, MarkedAreVotes
    <2>6. Projection!Counted(p, o) <= Cardinality(VotesOnChain(p, o))
      BY <2>1, <2>2, <2>3, <2>4, <2>5
    <2> QED
      BY <2>6 DEF Projection!Counted
  <1> QED
    BY <1>1, CountInvariant, PipelineInvariant, PTL

\* Each id under which a vote was published counts at most once, with any limit, any
\* number of cycles and invocations, and whatever is published or delivered again, as
\* long as no call of the projection fails.
THEOREM IdsCountOnce ==
  ASSUME AggregatorFaults \subseteq {"overlap"}
  PROVE  Spec => []VotesCountOncePerId
  <1>1. ASSUME PipelineInv, CountInv
        PROVE  VotesCountOncePerId
    <2> SUFFICES ASSUME \A w \in Workers : worker[w].pc = "idle",
                        NEW p \in Proposals, NEW o \in Options
                 PROVE  rows[p].option_counts[o] <= Cardinality(VoteIds(p, o))
      BY DEF VotesCountOncePerId
    <2>1. Projection!Held(p, o) = 0 /\ Projection!Counted(p, o) \in Int
      BY <1>1, ProjectionConstants, Projection!NothingHeld, Projection!TallyTypes
         DEF PipelineInv, Projection!DropInv
    <2>2. Projection!Counted(p, o) <= Cardinality(MarkedReveals(p, o)) + Projection!Held(p, o)
      BY <1>1 DEF CountInv
    <2>3. MarkedReveals(p, o) \subseteq VoteIds(p, o)
      BY <1>1 DEF PipelineInv, WorkInv, MarkedReveals, VoteIds
    <2>4. IsFiniteSet(VoteIds(p, o))
      <3>1. VoteIds(p, o) \subseteq EventIds
        BY <1>1 DEF PipelineInv, SentInv, MessageInv, Messages, VoteIds
      <3> QED
        BY <3>1, IdsFinite, FS_Subset
    <2>5. /\ Cardinality(MarkedReveals(p, o)) \in Nat /\ Cardinality(VoteIds(p, o)) \in Nat
          /\ Cardinality(MarkedReveals(p, o)) <= Cardinality(VoteIds(p, o))
      BY <2>3, <2>4, FS_Subset, FS_CardinalityType
    <2>6. Projection!Counted(p, o) <= Cardinality(VoteIds(p, o))
      BY <2>1, <2>2, <2>5
    <2> QED
      BY <2>6 DEF Projection!Counted
  <1> QED
    BY <1>1, CountInvariant, PipelineInvariant, PTL

------------------------------------------------------------------------------
(* From the chain to the queue.                                             *)

\* What a cycle has published has a message.
PublishedInv ==
  \A x \in published : \E m \in sent : m.event_id.tx = x.event.tx

\* A publication puts its first message into the queue, unless it is there.
LEMMA FirstMessage ==
  ASSUME NEW e, NEW id
  PROVE  Message(e, id, 1) \in sent \cup NewMessages(e, id)
  <1> SUFFICES ASSUME Message(e, id, 1) \notin sent
               PROVE  Message(e, id, 1) \in NewMessages(e, id)
    OBVIOUS
  <1>1. 1 \in 1..MaxCopies
    BY PipelineAssumption
  <1>2. Message(e, id, 1).copy = 1
    BY DEF Message
  <1>3. \A copy \in 1..1 : Message(e, id, copy) \in sent <=> copy < 1
    OBVIOUS
  <1> HIDE DEF Message
  <1> QED
    BY <1>1, <1>2, <1>3 DEF NewMessages

\* The events of one list are in one order: NextOf is the one that is published.
LEMMA NextIsFirst ==
  ASSUME Cycles!TypeOK, NEW w \in Pollers, NEW e \in cycle[w].events,
         \A f \in cycle[w].events \ {e} : Ingest!ComesBefore(e, f)
  PROVE  NextOf(w) = e
  <1> DEFINE n == NextOf(w)
  <1>1. n \in cycle[w].events /\ \A f \in cycle[w].events \ {n} : Ingest!ComesBefore(n, f)
    BY DEF NextOf
  <1> HIDE DEF n
  <1>2. n = e \/ (Ingest!ComesBefore(n, e) /\ Ingest!ComesBefore(e, n))
    BY <1>1
  <1>3. n.tx \in Nat /\ n.pos \in Nat /\ e.tx \in Nat /\ e.pos \in Nat
    BY <1>1 DEF Cycles!TypeOK, Cycles!Cycle, Cycles!ChainEvent
  <1>4. n = e
    BY <1>2, <1>3 DEF Ingest!ComesBefore
  <1> QED
    BY <1>4 DEF n

LEMMA PublishedStep ==
  ASSUME PipelineInv, PublishedInv, [Next]_vars
  PROVE  PublishedInv'
  <1>1. sent \subseteq sent'
    BY SentStep DEF PipelineInv
  <1>2. CASE published' = published
    BY <1>1, <1>2 DEF PublishedInv
  <1>3. ASSUME NEW w \in Pollers, Publish(w), NEW x \in published', x \notin published
        PROVE  \E m \in sent' : m.event_id.tx = x.event.tx
    <2>1. PICK e \in cycle[w].events :
            /\ \A f \in cycle[w].events \ {e} : Ingest!ComesBefore(e, f)
            /\ ~Ingest!CannotBeNormalized(Ingest!EventAt(e))
            /\ x = [event |-> e, event_id |-> Ingest!BuildEventId(e, cycle[w].next)]
      BY <1>3 DEF Publish, Ingest!Publish
    <2>2. NextOf(w) = e
      BY <2>1, NextIsFirst DEF PipelineInv, Cycles!TypeInv
    <2> DEFINE m == Message(Ingest!EventAt(e), x.event_id, 1)
    <2>3. sent' = sent \cup NewMessages(Ingest!EventAt(e), x.event_id)
      BY <1>3, <2>1, <2>2 DEF Publish
    <2>4. m \in sent'
      BY <2>3, FirstMessage
    <2>5. m.event_id.tx = x.event.tx
      BY <2>1 DEF Message, Ingest!BuildEventId
    <2> HIDE DEF m
    <2> QED
      BY <2>4, <2>5
  <1>4. published' = published \/ \E w \in Pollers : Publish(w)
    BY DEF Next, Land, Ingest!Land, Ingest!Tick, RunCycle, Ingest!GetSlot,
       Ingest!ListSignatures, Ingest!FetchTransactions, Ingest!Finish, Ingest!Abort,
       Deliver, Handle, Expire, ingestion, vars
  <1> QED
    BY <1>1, <1>2, <1>3, <1>4 DEF PublishedInv

\* Every event that complete cycles covered has a message in the aggregator queue.
CoveredHaveMessages ==
  \A t \in 1..covered.txs : ~chain[t].err => \E m \in sent : m.event_id.tx = t

\* From the chain to the queue no event is lost, for any number of cycles, any aborts
\* and any limit, and whatever the Aggregator does meanwhile: it is enough that complete
\* cycles follow each other within the lookback and the limit, and that the node serves
\* what it lists.
THEOREM CoveredReachQueue ==
  ASSUME MaxGap <= Lookback, MaxLanded <= Limit, "missing" \notin IngestionFaults
  PROVE  Spec => []CoveredHaveMessages
  <1>1. Cycles!Spec => []Cycles!CoverInv
    BY CycleConstants, Cycles!CoverInvariant
  <1>2. Init => PublishedInv
    BY PartsInit DEF Cycles!Init, PublishedInv
  <1>3. PipelineInv /\ PublishedInv /\ [Next]_vars => PublishedInv'
    BY PublishedStep
  <1>4. ASSUME PipelineInv, PublishedInv, Cycles!CoverInv
        PROVE  CoveredHaveMessages
    <2> SUFFICES ASSUME NEW t \in 1..covered.txs, ~chain[t].err
                 PROVE  \E m \in sent : m.event_id.tx = t
      BY DEF CoveredHaveMessages
    <2>1. 1 \in DOMAIN chain[t].events /\ Cycles!IsKnown(chain[t].events[1])
      <3>1. covered.txs <= Len(chain)
        BY <1>4 DEF Cycles!CoverInv, Cycles!ExtentInv, Cycles!Extents, Cycles!Past,
           Cycles!Within
      <3>2. DOMAIN chain = 1..Len(chain) /\ Len(chain) \in Nat /\ covered.txs \in Nat
        BY <1>4, CycleConstants, Cycles!ChainType
           DEF PipelineInv, Cycles!TypeInv, Cycles!TypeOK, Cycles!Extent
      <3>3. t \in DOMAIN chain
        BY <3>1, <3>2
      <3>4. 1 \in DOMAIN chain[t].events /\ chain[t].events[1] \in ChainEvents
        BY <1>4, <3>3, OneEvent DEF PipelineInv, Cycles!TypeInv
      <3> QED
        BY <3>4, PipelineAssumption DEF Cycles!IsKnown, Cycles!EventTypes, Cycles!Payload,
           Ingest!EventTypes, Ingest!Payload
    <2>2. PICK x \in published : x.event = [tx |-> t, pos |-> 1]
      BY <1>4, <2>1
         DEF Cycles!CoverInv, Cycles!NothingMissed, Cycles!AllPublished, Cycles!Published
    <2> QED
      BY <1>4, <2>2 DEF PublishedInv
  <1> QED
    BY <1>1, <1>2, <1>3, <1>4, PipelineIngests, PipelineInvariant, PTL DEF Spec

================================================================================
