------------------------------ MODULE Ingestion ------------------------------
(***************************************************************************)
(* The Ingestion Lambda: a scheduled cycle that lists the newest           *)
(* transactions of the program, reads the events from their logs and       *)
(* publishes each of them to SNS.  It keeps no state between cycles; what  *)
(* it covers depends only on how the chain moves between two of them.      *)
(*                                                                         *)
(* One action per remote call that a cycle waits for, because the chain    *)
(* moves between them and a cycle ends at the first call that fails.  The  *)
(* RPC node (the signatures newest first, a transaction that may not be    *)
(* served yet) and SNS are modelled from how the service uses them.        *)
(*                                                                         *)
(* A transaction is its position in the chain, an event the position in    *)
(* its transaction; EventDecoding says which payloads stop a cycle.  The   *)
(* lists of a cycle are sets: their order follows from the positions.      *)
(* Faulty... operators are slips in the definition that follows: no action *)
(* uses them, they show that properties can fail.                          *)
(***************************************************************************)
EXTENDS EventDecoding, Integers, Sequences

CONSTANTS
  Pollers,      (* invocations that may run at the same time              *)
  EventLists,   (* the lists of events that a transaction may emit        *)
  Limit,        (* the limit passed to getSignaturesForAddress            *)
  Lookback,     (* INGESTION_LOOKBACK_SLOTS                               *)
  MaxGap,       (* assumption: slots between two complete cycles          *)
  MaxLanded,    (* assumption: transactions between two complete cycles   *)
  Faults,       (* "abort": a cycle may stop; "missing": a transaction    *)
                (* may not be served                                      *)
  MaxAborts,    (* assumption: how many cycles are cut short              *)
  MaxSlot,      (* bound of the model: the last slot                      *)
  MaxTxs        (* bound of the model: the transactions of the program    *)

ASSUME IngestionAssumption ==
  /\ \A events \in EventLists :
       /\ Len(events) \in Nat
       /\ DOMAIN events = 1..Len(events)
       /\ \A k \in DOMAIN events : events[k].type \in STRING
  /\ Limit \in Nat \ {0}
  /\ Lookback \in Nat \ {0}
  /\ MaxGap \in Nat
  /\ MaxLanded \in Nat
  /\ Faults \subseteq {"abort", "missing"}
  /\ MaxAborts \in Nat
  /\ MaxSlot \in Nat
  /\ MaxTxs \in Nat

VARIABLES
  chain,      (* the confirmed transactions of the program, oldest first  *)
  slot,       (* the current confirmed slot                               *)
  cycle,      (* what every invocation is doing                           *)
  published,  (* the events published to SNS and the ids they got         *)
  covered,    (* how far the chain was when the listing of the last       *)
              (* complete cycle was taken                                 *)
  aborts      (* how many cycles were cut short                           *)

vars == <<chain, slot, cycle, published, covered, aborts>>

Transaction == [slot : Nat, err : BOOLEAN, events : EventLists]

\* An event of the chain: its transaction and its position there.
ChainEvent == [tx : Nat, pos : Nat]

Extent == [slot : Nat, txs : Nat]

\* from: fromSlot; seen: how far the chain was when it was listed; txs: the
\* transactions to fetch; events: those of parsedEvents that are not published
\* yet; next: the index of the first of them.
Cycle ==
  [pc : {"idle", "list", "fetch", "publish"}, from : Nat, seen : Extent,
   txs : SUBSET Nat, events : SUBSET ChainEvent, next : Nat]

Idle ==
  [pc |-> "idle", from |-> 0, seen |-> [slot |-> 0, txs |-> 0], txs |-> {},
   events |-> {}, next |-> 0]

Init ==
  /\ chain = <<>>
  /\ slot = 0
  /\ cycle = [w \in Pollers |-> Idle]
  /\ published = {}
  /\ covered = [slot |-> 0, txs |-> 0]
  /\ aborts = 0

------------------------------------------------------------------------------
(* The chain.                                                              *)

\* A cycle completes at least every MaxGap slots.
Tick ==
  /\ slot < MaxSlot
  /\ slot < covered.slot + MaxGap
  /\ slot' = slot + 1
  /\ UNCHANGED <<chain, cycle, published, covered, aborts>>

\* A transaction is confirmed.  A failed one keeps the logs of the instructions
\* that ran before the one that failed.
Land(events, err) ==
  /\ Len(chain) < MaxTxs
  /\ Len(chain) < covered.txs + MaxLanded
  /\ chain' = Append(chain, [slot |-> slot, err |-> err, events |-> events])
  /\ UNCHANGED <<slot, cycle, published, covered, aborts>>

------------------------------------------------------------------------------
(* A cycle: fetchRecentEvents, then one publish after another.             *)

GetSlot(w) ==
  /\ cycle[w].pc = "idle"
  /\ cycle' = [cycle EXCEPT ![w] =
       [Idle EXCEPT !.pc = "list",
                    !.from = IF slot > Lookback THEN slot - Lookback ELSE 0]]
  /\ UNCHANGED <<chain, slot, published, covered, aborts>>

\* The newest signatures of the program.
Signatures == {t \in DOMAIN chain : t > Len(chain) - Limit}

\* Slip: the window excludes its first slot.
FaultyInWindow(tx, from) == tx.slot > from

InWindow(tx, from) == tx.slot >= from

\* Slip: failed transactions are parsed like any other.
FaultyWorthFetching(tx, from) == InWindow(tx, from)

WorthFetching(tx, from) == ~tx.err /\ InWindow(tx, from)

ListSignatures(w) ==
  /\ cycle[w].pc = "list"
  /\ cycle' = [cycle EXCEPT
       ![w].pc = "fetch",
       ![w].seen = [slot |-> slot, txs |-> Len(chain)],
       ![w].txs = {t \in Signatures : WorthFetching(chain[t], cycle[w].from)}]
  /\ UNCHANGED <<chain, slot, published, covered, aborts>>

EventAt(e) == chain[e.tx].events[e.pos]

\* The events of a transaction that have a known type.
EventsOf(t) ==
  {e \in [tx : {t}, pos : DOMAIN chain[t].events] : IsKnown(EventAt(e))}

\* An exception leaves the handler: the rest of the cycle is dropped.
Throw(w) == cycle' = [cycle EXCEPT ![w] = Idle]

\* getTransaction for each of them; one that is not served is skipped.
FetchTransactions(w) ==
  /\ cycle[w].pc = "fetch"
  /\ \E missing \in SUBSET cycle[w].txs :
       /\ missing # {} => "missing" \in Faults
       /\ IF \E t \in cycle[w].txs \ missing :
                \E k \in DOMAIN chain[t].events : CannotBeRead(chain[t].events[k])
          THEN Throw(w)
          ELSE cycle' = [cycle EXCEPT
            ![w].pc = "publish",
            ![w].events = UNION {EventsOf(t) : t \in cycle[w].txs \ missing}]
  /\ UNCHANGED <<chain, slot, published, covered, aborts>>

TypeOf(e) == EventAt(e).type

\* Slip: the id leaves the index out.
FaultyBuildEventId(e, index) == [tx |-> e.tx, type |-> TypeOf(e)]

\* buildEventId: index is the position in the whole list of the cycle.
BuildEventId(e, index) == [tx |-> e.tx, type |-> TypeOf(e), index |-> index]

\* parsedEvents has the newest transaction first, its events in log order.
ComesBefore(e, f) == e.tx > f.tx \/ (e.tx = f.tx /\ e.pos < f.pos)

\* Normalize the next event and publish it.
Publish(w) ==
  /\ cycle[w].pc = "publish"
  /\ \E e \in cycle[w].events :
       /\ \A f \in cycle[w].events \ {e} : ComesBefore(e, f)
       /\ IF CannotBeNormalized(EventAt(e))
          THEN Throw(w) /\ UNCHANGED published
          ELSE /\ published' = published
                    \cup {[event |-> e, event_id |-> BuildEventId(e, cycle[w].next)]}
               /\ cycle' = [cycle EXCEPT ![w].events = @ \ {e}, ![w].next = @ + 1]
  /\ UNCHANGED <<chain, slot, covered, aborts>>

\* The cycle returns; it covers what was there when it listed the signatures.
Finish(w) ==
  /\ cycle[w].pc = "publish"
  /\ cycle[w].events = {}
  /\ covered' = IF cycle[w].seen.txs > covered.txs \/ cycle[w].seen.slot > covered.slot
                THEN cycle[w].seen ELSE covered
  /\ cycle' = [cycle EXCEPT ![w] = Idle]
  /\ UNCHANGED <<chain, slot, published, aborts>>

\* A call to the RPC node or to SNS fails, or the invocation times out.
Abort(w) ==
  /\ "abort" \in Faults
  /\ aborts < MaxAborts
  /\ cycle[w].pc # "idle"
  /\ Throw(w)
  /\ aborts' = aborts + 1
  /\ UNCHANGED <<chain, slot, published, covered>>

RunCycle(w) ==
  GetSlot(w) \/ ListSignatures(w) \/ FetchTransactions(w) \/ Publish(w) \/ Finish(w)

Next ==
  \/ Tick
  \/ \E events \in EventLists, err \in BOOLEAN : Land(events, err)
  \/ \E w \in Pollers : RunCycle(w) \/ Abort(w)

Spec == Init /\ [][Next]_vars

\* The schedule keeps invoking the handler, and an invocation goes on.
FairSpec == Spec /\ \A w \in Pollers : WF_vars(RunCycle(w))

------------------------------------------------------------------------------
(* Properties.                                                             *)

TypeOK ==
  /\ chain \in Seq(Transaction)
  /\ slot \in Nat
  /\ cycle \in [Pollers -> Cycle]
  /\ published \subseteq
       [event : ChainEvent, event_id : [tx : Nat, type : STRING, index : Nat]]
  /\ covered \in Extent
  /\ aborts \in 0..MaxAborts

Published(t, k) == \E x \in published : x.event = [tx |-> t, pos |-> k]

\* The events of a transaction that succeeded, of a type that Ingestion knows.
AllPublished(t) ==
  \A k \in DOMAIN chain[t].events :
    ~chain[t].err /\ IsKnown(chain[t].events[k]) => Published(t, k)

\* No event is missed: once a cycle completes, every event of the transactions
\* it could list has been published by it or by an earlier one, whatever
\* aborted in between, although no cycle remembers what the others did.
NothingMissed ==
  \A t \in 1..covered.txs : AllPublished(t)

\* A transaction that stops every cycle which fetches it.
Unreadable(t) ==
  ~chain[t].err /\ \E k \in DOMAIN chain[t].events : CannotBeRead(chain[t].events[k])

SharesWindow(t, u) == chain[t].slot - chain[u].slot \in -Lookback..Lookback

\* Once the program emits nothing more, every event reaches the services, unless an
\* integer from 2^53 on in a transaction of the same window stops the cycles: no other
\* payload does, whatever hashes are zero and whatever types are unknown.
EveryEventPublished ==
  <>[](\A t \in DOMAIN chain :
         \/ AllPublished(t)
         \/ \E u \in DOMAIN chain : Unreadable(u) /\ SharesWindow(t, u))

\* Events in the logs of a transaction that failed never reach the services.
NothingRevertedPublished == \A x \in published : ~chain[x.event.tx].err
==============================================================================
