---------------------------- MODULE IngestionProofs ----------------------------
(* Proofs about Ingestion for every value of its constants. *)
EXTENDS Ingestion, SequenceTheorems, TLAPS

------------------------------------------------------------------------------
(* Types, and what the lists of a cycle hold.                               *)

\* An event of a known type in a transaction that succeeded.
Real(e) ==
  /\ e.tx \in DOMAIN chain /\ ~chain[e.tx].err
  /\ e.pos \in DOMAIN chain[e.tx].events
  /\ IsKnown(EventAt(e))

\* Cycles fetch transactions that succeeded, and publish their known events.
RealInv ==
  /\ \A w \in Pollers :
       /\ \A t \in cycle[w].txs : t \in DOMAIN chain /\ ~chain[t].err
       /\ \A e \in cycle[w].events : Real(e)
  /\ \A x \in published : Real(x.event)

TypeInv == TypeOK /\ RealInv

LEMMA ChainType ==
  ASSUME TypeOK
  PROVE  /\ Len(chain) \in Nat /\ DOMAIN chain = 1..Len(chain)
         /\ \A t \in DOMAIN chain :
              /\ chain[t].slot \in Nat /\ chain[t].err \in BOOLEAN
              /\ chain[t].events \in EventLists
              /\ DOMAIN chain[t].events \subseteq Nat
              /\ \A k \in DOMAIN chain[t].events : chain[t].events[k].type \in STRING
  <1>1. chain \in Seq(Transaction)
    BY DEF TypeOK
  <1>2. Len(chain) \in Nat /\ DOMAIN chain = 1..Len(chain)
    BY <1>1
  <1>3. \A t \in DOMAIN chain : chain[t] \in Transaction
    BY <1>1, <1>2
  <1> QED
    BY <1>2, <1>3, IngestionAssumption DEF Transaction

\* The chain only grows, and a transaction keeps what it holds.
LEMMA ChainGrows ==
  ASSUME TypeOK, [Next]_vars
  PROVE  /\ Len(chain)' >= Len(chain) /\ Len(chain)' \in Nat
         /\ chain' \in Seq(Transaction)
         /\ DOMAIN chain' = 1..Len(chain)'
         /\ \A t \in DOMAIN chain : t \in DOMAIN chain' /\ chain'[t] = chain[t]
         /\ \A t \in DOMAIN chain' : t \notin DOMAIN chain => chain'[t].slot = slot
         /\ chain' # chain => UNCHANGED <<slot, cycle, published, covered, aborts>>
  <1>1. CASE chain' = chain
    BY <1>1, ChainType DEF TypeOK
  <1>2. ASSUME NEW events \in EventLists, NEW err \in BOOLEAN, Land(events, err)
        PROVE  /\ Len(chain)' >= Len(chain) /\ Len(chain)' \in Nat
               /\ chain' \in Seq(Transaction)
               /\ DOMAIN chain' = 1..Len(chain)'
               /\ \A t \in DOMAIN chain : t \in DOMAIN chain' /\ chain'[t] = chain[t]
               /\ \A t \in DOMAIN chain' : t \notin DOMAIN chain => chain'[t].slot = slot
               /\ UNCHANGED <<slot, cycle, published, covered, aborts>>
    <2> DEFINE tx == [slot |-> slot, err |-> err, events |-> events]
    <2>1. tx \in Transaction /\ tx.slot = slot
      BY DEF Transaction, TypeOK
    <2>2. chain' = Append(chain, tx) /\ chain \in Seq(Transaction)
      BY <1>2 DEF Land, TypeOK
    <2> HIDE DEF tx
    <2>3. /\ chain' \in Seq(Transaction)
          /\ Len(chain)' = Len(chain) + 1
          /\ \A i \in 1..Len(chain) : chain'[i] = chain[i]
          /\ chain'[Len(chain) + 1] = tx
      BY <2>1, <2>2, AppendProperties
    <2>4. Len(chain) \in Nat /\ DOMAIN chain = 1..Len(chain)
      BY ChainType
    <2>5. DOMAIN chain' = 1..Len(chain)'
      BY <2>3
    <2>6. \A t \in DOMAIN chain' : t \notin DOMAIN chain => t = Len(chain) + 1
      BY <2>3, <2>4, <2>5
    <2> QED
      BY <1>2, <2>1, <2>3, <2>4, <2>5, <2>6 DEF Land
  <1>3. chain' = chain \/ \E events \in EventLists, err \in BOOLEAN : Land(events, err)
    BY DEF Next, Tick, RunCycle, GetSlot, ListSignatures, FetchTransactions, Publish, Finish,
           Abort, vars
  <1> QED
    BY <1>1, <1>2, <1>3

\* What was real stays real.
LEMMA RealStays ==
  ASSUME TypeOK, [Next]_vars, NEW e, Real(e)
  PROVE  Real(e)'
  BY ChainGrows DEF Real, EventAt

LEMMA TypeStep ==
  ASSUME TypeInv, [Next]_vars
  PROVE  TypeInv'
  <1> USE DEF TypeInv
  <1>1. chain' \in Seq(Transaction)
    BY ChainGrows
  <1>2. \A t \in DOMAIN chain : t \in DOMAIN chain' /\ chain'[t] = chain[t]
    BY ChainGrows
  <1>3. \A e : Real(e) => Real(e)'
    BY RealStays
  <1>4. /\ slot \in Nat /\ cycle \in [Pollers -> Cycle] /\ covered \in Extent
        /\ aborts \in 0..MaxAborts /\ Len(chain) \in Nat /\ DOMAIN chain = 1..Len(chain)
    BY ChainType DEF TypeOK
  <1>5. Idle \in Cycle /\ Idle.txs = {} /\ Idle.events = {}
    BY DEF Idle, Cycle, Extent
  <1> DEFINE Holds(c) ==
               /\ \A t \in c.txs : t \in DOMAIN chain' /\ ~chain'[t].err
               /\ \A e \in c.events : Real(e)'
  <1>6. \A w \in Pollers : Holds(cycle[w])
    BY <1>2, <1>3 DEF RealInv
  <1>7. ASSUME NEW w \in Pollers, NEW c \in Cycle, Holds(c), cycle' = [cycle EXCEPT ![w] = c],
               UNCHANGED <<slot, published>>, covered' \in Extent, aborts' \in 0..MaxAborts
        PROVE  TypeInv'
    <2>1. cycle' \in [Pollers -> Cycle] /\ \A v \in Pollers : Holds(cycle'[v])
      BY <1>4, <1>6, <1>7
    <2> QED
      BY <1>1, <1>3, <1>7, <2>1 DEF TypeOK, RealInv
  <1>8. ASSUME UNCHANGED <<cycle, published, covered, aborts>>, slot' \in Nat
        PROVE  TypeInv'
    BY <1>1, <1>3, <1>6, <1>8 DEF TypeOK, RealInv
  <1>9. CASE Tick
    BY <1>4, <1>8, <1>9 DEF Tick
  <1>10. ASSUME NEW events \in EventLists, NEW err \in BOOLEAN, Land(events, err)
         PROVE  TypeInv'
    BY <1>4, <1>8, <1>10 DEF Land
  <1>11. ASSUME NEW w \in Pollers, GetSlot(w)
         PROVE  TypeInv'
    <2> DEFINE from == IF slot > Lookback THEN slot - Lookback ELSE 0
               c == [Idle EXCEPT !.pc = "list", !.from = from]
    <2>1. from \in Nat
      BY <1>4, IngestionAssumption
    <2>2. c \in Cycle /\ Holds(c)
      BY <1>5, <2>1 DEF Cycle
    <2>3. cycle' = [cycle EXCEPT ![w] = c] /\ UNCHANGED <<slot, published, covered, aborts>>
      BY <1>11 DEF GetSlot
    <2> HIDE DEF c
    <2> QED
      BY <1>4, <1>7, <2>2, <2>3
  <1>12. ASSUME NEW w \in Pollers, ListSignatures(w)
         PROVE  TypeInv'
    <2> DEFINE txs == {t \in Signatures : WorthFetching(chain[t], cycle[w].from)}
               c == [cycle[w] EXCEPT !.pc = "fetch", !.txs = txs,
                                     !.seen = [slot |-> slot, txs |-> Len(chain)]]
    <2>1. /\ cycle' = [cycle EXCEPT ![w] = c]
          /\ UNCHANGED <<slot, published, covered, aborts, chain>>
      BY <1>4, <1>12 DEF ListSignatures, Cycle
    <2>2. txs \subseteq DOMAIN chain /\ \A t \in txs : ~chain[t].err
      BY DEF Signatures, WorthFetching
    <2>5. txs \in SUBSET Nat /\ [slot |-> slot, txs |-> Len(chain)] \in Extent
      <3>1. DOMAIN chain \subseteq Nat
        BY <1>4
      <3> QED
        BY <1>4, <2>2, <3>1 DEF Extent
    <2> HIDE DEF txs
    <2>3. c \in Cycle /\ c.txs = txs /\ c.events = cycle[w].events
      BY <1>4, <2>5 DEF Cycle
    <2>4. Holds(c)
      BY <1>6, <2>1, <2>2, <2>3
    <2> HIDE DEF c
    <2> QED
      BY <1>4, <1>7, <2>1, <2>3, <2>4
  <1>13. ASSUME NEW w \in Pollers, cycle' = [cycle EXCEPT ![w] = Idle],
                UNCHANGED <<slot, published>>, covered' \in Extent, aborts' \in 0..MaxAborts
         PROVE  TypeInv'
    BY <1>5, <1>7, <1>13
  <1>14. ASSUME NEW w \in Pollers, FetchTransactions(w)
         PROVE  TypeInv'
    <2>1. PICK missing \in SUBSET cycle[w].txs :
            \/ Throw(w)
            \/ cycle' = [cycle EXCEPT ![w].pc = "publish",
                 ![w].events = UNION {EventsOf(t) : t \in cycle[w].txs \ missing}]
      BY <1>14 DEF FetchTransactions
    <2>2. UNCHANGED <<slot, published, covered, aborts, chain>>
      BY <1>14 DEF FetchTransactions
    <2>3. CASE Throw(w)
      BY <1>4, <1>13, <2>2, <2>3 DEF Throw
    <2> DEFINE events == UNION {EventsOf(t) : t \in cycle[w].txs \ missing}
               c == [cycle[w] EXCEPT !.pc = "publish", !.events = events]
    <2>4. CASE cycle' = [cycle EXCEPT ![w].pc = "publish", ![w].events = events]
      <3>1. cycle' = [cycle EXCEPT ![w] = c]
        BY <1>4, <2>4 DEF Cycle
      <3>2. \A t \in cycle[w].txs : \A e \in EventsOf(t) : e \in ChainEvent /\ Real(e)
        <4>1. \A t \in cycle[w].txs :
                /\ t \in DOMAIN chain /\ ~chain[t].err /\ t \in Nat
                /\ DOMAIN chain[t].events \subseteq Nat
          BY <1>4, ChainType DEF RealInv
        <4> QED
          BY <4>1 DEF EventsOf, Real, ChainEvent
      <3>3. \A e \in events : e \in ChainEvent /\ Real(e)
        BY <3>2
      <3>4. c \in Cycle /\ c.txs = cycle[w].txs /\ c.events = events
        BY <1>4, <3>3 DEF Cycle
      <3>5. Holds(c)
        BY <1>3, <1>6, <3>3, <3>4
      <3> HIDE DEF c
      <3> QED
        BY <1>4, <1>7, <2>2, <3>1, <3>4, <3>5
    <2> QED
      BY <2>1, <2>3, <2>4
  <1>15. ASSUME NEW w \in Pollers, Publish(w)
         PROVE  TypeInv'
    <2>1. PICK e \in cycle[w].events :
            \/ Throw(w) /\ UNCHANGED published
            \/ /\ published' = published
                    \cup {[event |-> e, event_id |-> BuildEventId(e, cycle[w].next)]}
               /\ cycle' = [cycle EXCEPT ![w].events = @ \ {e}, ![w].next = @ + 1]
      BY <1>15 DEF Publish
    <2>2. UNCHANGED <<slot, covered, aborts, chain>>
      BY <1>15 DEF Publish
    <2>3. CASE Throw(w) /\ UNCHANGED published
      BY <1>4, <1>13, <2>2, <2>3 DEF Throw
    <2>4. CASE /\ published' = published
                    \cup {[event |-> e, event_id |-> BuildEventId(e, cycle[w].next)]}
               /\ cycle' = [cycle EXCEPT ![w].events = @ \ {e}, ![w].next = @ + 1]
      <3> DEFINE c == [cycle[w] EXCEPT !.events = @ \ {e}, !.next = @ + 1]
      <3>1. cycle' = [cycle EXCEPT ![w] = c]
        BY <1>4, <2>4 DEF Cycle
      <3>0. /\ cycle[w] \in Cycle /\ cycle[w].next \in Nat /\ cycle[w].next + 1 \in Nat
            /\ cycle[w].events \in SUBSET ChainEvent /\ e \in ChainEvent
            /\ cycle[w].events \ {e} \in SUBSET ChainEvent
        BY <1>4 DEF Cycle
      <3>2. /\ c \in Cycle /\ c.txs = cycle[w].txs /\ c.events \subseteq cycle[w].events
            /\ cycle[w].next \in Nat /\ e \in ChainEvent
        BY <3>0 DEF Cycle
      <3>3. Holds(c)
        BY <1>6, <3>2
      <3> HIDE DEF c
      <3>4. Real(e) /\ Real(e)'
        BY <1>3 DEF RealInv
      <3>5. EventAt(e).type \in STRING
        BY <3>4, ChainType DEF Real, EventAt
      <3>6. [event |-> e, event_id |-> BuildEventId(e, cycle[w].next)] \in
              [event : ChainEvent, event_id : [tx : Nat, type : STRING, index : Nat]]
        BY <3>2, <3>5 DEF BuildEventId, TypeOf, ChainEvent
      <3>7. cycle' \in [Pollers -> Cycle] /\ \A v \in Pollers : Holds(cycle'[v])
        BY <1>4, <1>6, <3>1, <3>2, <3>3
      <3>8. \A x \in published' : Real(x.event)'
        BY <1>3, <2>4, <3>4 DEF RealInv
      <3>9. published' \subseteq
              [event : ChainEvent, event_id : [tx : Nat, type : STRING, index : Nat]]
        BY <2>4, <3>6 DEF TypeOK
      <3> QED
        BY <1>1, <1>4, <2>2, <3>7, <3>8, <3>9 DEF TypeOK, RealInv
    <2> QED
      BY <2>1, <2>3, <2>4
  <1>16. ASSUME NEW w \in Pollers, Finish(w)
         PROVE  TypeInv'
    <2>1. cycle[w].seen \in Extent
      BY <1>4 DEF Cycle
    <2> QED
      BY <1>4, <1>13, <1>16, <2>1 DEF Finish
  <1>17. ASSUME NEW w \in Pollers, Abort(w)
         PROVE  TypeInv'
    <2>1. aborts' \in 0..MaxAborts
      BY <1>4, <1>17, IngestionAssumption DEF Abort
    <2> QED
      BY <1>4, <1>13, <1>17, <2>1 DEF Abort, Throw
  <1>18. CASE UNCHANGED vars
    BY <1>4, <1>8, <1>18 DEF vars
  <1> QED
    BY <1>9, <1>10, <1>11, <1>12, <1>14, <1>15, <1>16, <1>17, <1>18 DEF Next, RunCycle

LEMMA TypeInit == Init => TypeInv
  <1> SUFFICES ASSUME Init PROVE TypeInv
    OBVIOUS
  <1>1. chain \in Seq(Transaction) /\ Idle \in Cycle
    BY EmptySeq DEF Init, Idle, Cycle, Extent
  <1>2. aborts \in 0..MaxAborts
    BY IngestionAssumption DEF Init
  <1> QED
    BY <1>1, <1>2 DEF Init, TypeInv, TypeOK, RealInv, Extent, Idle

LEMMA TypeInvariant == Spec => []TypeInv
  <1>1. TypeInv /\ [Next]_vars => TypeInv'
    BY TypeStep
  <1> QED
    BY <1>1, TypeInit, PTL DEF Spec

\* The chain, the cycles and the published messages hold values of their types, for
\* any number of invocations and any events.
THEOREM TypeCorrect == Spec => []TypeOK
  <1>1. TypeInv => TypeOK
    BY DEF TypeInv
  <1> QED
    BY <1>1, TypeInvariant, PTL

\* What a failed transaction logged is never published, whatever is fetched, missing
\* or published again.
THEOREM RevertedNeverPublished == Spec => []NothingRevertedPublished
  <1>1. TypeInv => NothingRevertedPublished
    BY DEF TypeInv, RealInv, Real, NothingRevertedPublished
  <1> QED
    BY <1>1, TypeInvariant, PTL

------------------------------------------------------------------------------
(* Nothing is missed.                                                       *)

\* How far the chain was at the listings that still matter.
Extents == {covered} \cup {cycle[w].seen : w \in Pollers}

\* x was reached by y at the latest.
Within(x, y) == x.slot <= y.slot /\ x.txs <= y.txs

\* An extent is a past state of the chain: what landed later has a later slot.
Past(x) ==
  /\ Within(x, [slot |-> slot, txs |-> Len(chain)])
  /\ \A t \in DOMAIN chain : t > x.txs => chain[t].slot >= x.slot

\* Extents are past states in one history.
ExtentInv ==
  /\ \A x \in Extents : Past(x)
  /\ \A x, y \in Extents : Within(x, y) \/ Within(y, x)

\* The assumptions on the schedule, and what they say of the window of a cycle.
WindowInv ==
  /\ slot <= covered.slot + MaxGap
  /\ Len(chain) <= covered.txs + MaxLanded
  /\ \A w \in Pollers : cycle[w].pc = "list" => cycle[w].from <= covered.slot

\* Of the transactions below n, all is published but what remains is left to c.
Remaining(n, txs, events) ==
  \A t \in 1..n :
    \/ AllPublished(t)
    \/ t \in txs
    \/ \A k \in DOMAIN chain[t].events :
         ~chain[t].err /\ IsKnown(chain[t].events[k]) =>
           Published(t, k) \/ [tx |-> t, pos |-> k] \in events

\* What a cycle still has to publish is in its lists.
WorkInv ==
  \A w \in Pollers :
    /\ cycle[w].pc = "fetch" => Remaining(cycle[w].seen.txs, cycle[w].txs, {})
    /\ cycle[w].pc = "publish" => Remaining(cycle[w].seen.txs, {}, cycle[w].events)

CoverInv == TypeInv /\ ExtentInv /\ WindowInv /\ WorkInv /\ NothingMissed

\* An extent in the past stays there.
LEMMA PastStays ==
  ASSUME TypeOK, [Next]_vars, NEW x \in Extent, Past(x)
  PROVE  Past(x)'
  <1>0. slot' = slot \/ slot' = slot + 1
    BY DEF Next, Tick, Land, RunCycle, GetSlot, ListSignatures, FetchTransactions,
           Publish, Finish, Abort, vars
  <1>1. slot \in Nat /\ slot' \in Nat /\ slot <= slot'
    BY <1>0 DEF TypeOK
  <1>2. /\ Len(chain) \in Nat /\ Len(chain)' \in Nat /\ Len(chain) <= Len(chain)'
        /\ \A t \in DOMAIN chain : t \in DOMAIN chain' /\ chain'[t] = chain[t]
        /\ \A t \in DOMAIN chain' : t \notin DOMAIN chain => chain'[t].slot = slot
    BY ChainType, ChainGrows
  <1>3. x.slot \in Nat /\ x.txs \in Nat /\ x.slot <= slot /\ x.txs <= Len(chain)
    BY DEF Past, Within, Extent
  <1>4. x.slot <= slot' /\ x.txs <= Len(chain)'
    BY <1>1, <1>2, <1>3
  <1>5. \A t \in DOMAIN chain' : t > x.txs => chain'[t].slot >= x.slot
    BY <1>1, <1>2, <1>3 DEF Past
  <1> QED
    BY <1>4, <1>5 DEF Past, Within

\* Published is for ever, for what is on the chain.
LEMMA PublishedStays ==
  ASSUME TypeOK, [Next]_vars, NEW t \in DOMAIN chain
  PROVE  /\ chain'[t] = chain[t]
         /\ \A k : Published(t, k) => Published(t, k)'
         /\ AllPublished(t) => AllPublished(t)'
  <1>1. published \subseteq published'
    BY DEF Next, Tick, Land, RunCycle, GetSlot, ListSignatures, FetchTransactions,
           Publish, Finish, Abort, vars
  <1>2. chain'[t] = chain[t]
    BY ChainGrows
  <1>3. \A k : Published(t, k) => Published(t, k)'
    BY <1>1 DEF Published
  <1> QED
    BY <1>2, <1>3 DEF AllPublished

\* What remains for a cycle remains, if it keeps its lists.
LEMMA RemainingStays ==
  ASSUME TypeOK, [Next]_vars, NEW n \in Nat, n <= Len(chain), NEW txs, NEW events,
         Remaining(n, txs, events)
  PROVE  Remaining(n, txs, events)'
  <1>1. 1..n \subseteq DOMAIN chain
    BY ChainType
  <1> QED
    BY <1>1, PublishedStays DEF Remaining

\* A listing leaves out what failed and what is covered: the window reaches back to
\* the last complete cycle, and so does the limit.
LEMMA ListingCovers ==
  ASSUME MaxGap <= Lookback, MaxLanded <= Limit, CoverInv,
         NEW w \in Pollers, cycle[w].pc = "list"
  PROVE  Remaining(Len(chain),
                   {t \in Signatures : WorthFetching(chain[t], cycle[w].from)}, {})
  <1> DEFINE txs == {t \in Signatures : WorthFetching(chain[t], cycle[w].from)}
  <1>1. /\ Len(chain) \in Nat /\ DOMAIN chain = 1..Len(chain)
        /\ \A t \in DOMAIN chain : chain[t].slot \in Nat /\ chain[t].err \in BOOLEAN
    BY ChainType DEF CoverInv, TypeInv
  <1>2. /\ covered.slot \in Nat /\ covered.txs \in Nat /\ cycle[w].from \in Nat
        /\ cycle[w].from <= covered.slot
        /\ Len(chain) <= covered.txs + MaxLanded
        /\ Past(covered)
    BY DEF CoverInv, TypeInv, TypeOK, WindowInv, ExtentInv, Extents, Extent, Cycle
  <1>3. MaxLanded \in Nat /\ Limit \in Nat
    BY IngestionAssumption
  <1> SUFFICES ASSUME NEW t \in 1..Len(chain), ~AllPublished(t), t \notin txs
               PROVE  chain[t].err
    BY DEF Remaining
  <1>4. t > covered.txs
    BY <1>1, <1>2 DEF CoverInv, NothingMissed
  <1>5. chain[t].slot >= covered.slot
    BY <1>1, <1>2, <1>4 DEF Past
  <1>6. t \in Signatures
    BY <1>1, <1>2, <1>3, <1>4 DEF Signatures
  <1>7. InWindow(chain[t], cycle[w].from)
    BY <1>1, <1>2, <1>5 DEF InWindow
  <1> QED
    BY <1>1, <1>6, <1>7 DEF WorthFetching

\* A complete cycle covers all it has seen, and every other step keeps the promise.
LEMMA CoverStep ==
  ASSUME MaxGap <= Lookback, MaxLanded <= Limit, "missing" \notin Faults,
         CoverInv, [Next]_vars
  PROVE  CoverInv'
  <1> USE DEF CoverInv
  <1>1. TypeInv'
    BY TypeStep
  <1> SUFFICES ExtentInv' /\ WindowInv' /\ WorkInv' /\ NothingMissed'
    BY <1>1
  <1>2. /\ TypeOK /\ slot \in Nat /\ Len(chain) \in Nat /\ DOMAIN chain = 1..Len(chain)
        /\ cycle \in [Pollers -> Cycle] /\ covered \in Extent
        /\ covered.slot \in Nat /\ covered.txs \in Nat
        /\ MaxGap \in Nat /\ MaxLanded \in Nat /\ Lookback \in Nat
    BY ChainType, IngestionAssumption DEF TypeInv, TypeOK, Extent
  <1>3. \A x \in Extents : x \in Extent /\ Past(x) /\ Past(x)'
    BY <1>2, PastStays DEF Extents, ExtentInv, Cycle
  <1> DEFINE now == [slot |-> slot, txs |-> Len(chain)]
  <1>4. now \in Extent /\ \A x \in Extents : Within(x, now)
    BY <1>2, <1>3 DEF Past, Extent
  <1>5. covered \in Extents /\ \A w \in Pollers : cycle[w].seen \in Extents
    BY DEF Extents
  <1>6. ASSUME UNCHANGED covered
        PROVE  NothingMissed'
    <2>1. 1..covered.txs \subseteq DOMAIN chain
      BY <1>2, <1>3, <1>5 DEF Past, Within
    <2> QED
      BY <1>2, <1>6, <2>1, PublishedStays DEF NothingMissed
  <1> DEFINE Left(c) ==
               \A n, txs, events :
                 \/ c.pc = "fetch" /\ n = c.seen.txs /\ txs = c.txs /\ events = {}
                 \/ c.pc = "publish" /\ n = c.seen.txs /\ txs = {} /\ events = c.events
                 => Remaining(n, txs, events)'
  <1>7. \A w \in Pollers : Left(cycle[w])
    <2>1. \A w \in Pollers : cycle[w].seen.txs \in Nat /\ cycle[w].seen.txs <= Len(chain)
      BY <1>3, <1>4, <1>5 DEF Within, Extent
    <2> QED
      BY <1>2, <2>1, RemainingStays DEF WorkInv
  <1> HIDE DEF Left, now
  \* The chain moves.
  <1>8. ASSUME UNCHANGED <<cycle, covered>>,
               slot' <= covered.slot + MaxGap, Len(chain)' <= covered.txs + MaxLanded
        PROVE  ExtentInv' /\ WindowInv' /\ WorkInv' /\ NothingMissed'
    <2>1. ExtentInv'
      BY <1>3, <1>8 DEF ExtentInv, Extents, Within
    <2>2. WindowInv'
      BY <1>8 DEF WindowInv
    <2>3. WorkInv'
      BY <1>7, <1>8 DEF WorkInv, Left
    <2> QED
      BY <1>6, <1>8, <2>1, <2>2, <2>3
  <1>9. CASE Tick
    <2>1. /\ slot' = slot + 1 /\ slot < covered.slot + MaxGap
          /\ UNCHANGED <<chain, cycle, covered>>
      BY <1>9 DEF Tick
    <2>2. slot' <= covered.slot + MaxGap /\ Len(chain)' <= covered.txs + MaxLanded
      BY <1>2, <2>1 DEF WindowInv
    <2> QED
      BY <1>8, <2>1, <2>2
  <1>10. ASSUME NEW events \in EventLists, NEW err \in BOOLEAN, Land(events, err)
         PROVE  ExtentInv' /\ WindowInv' /\ WorkInv' /\ NothingMissed'
    <2>1. Len(chain)' = Len(chain) + 1
      BY <1>10, <1>2, AppendProperties DEF Land, TypeOK, Transaction
    <2> QED
      BY <1>2, <1>8, <1>10, <2>1 DEF Land, WindowInv
  \* A cycle moves.
  <1>11. ASSUME NEW w \in Pollers, NEW c, cycle' = [cycle EXCEPT ![w] = c],
                UNCHANGED <<slot, chain, covered>>,
                c.seen \in Extents \/ c.seen = now \/ c.seen = Idle.seen,
                c.pc = "list" => c.from <= covered.slot, Left(c)
         PROVE  ExtentInv' /\ WindowInv' /\ WorkInv' /\ NothingMissed'
    <2>1. cycle'[w] = c /\ \A v \in Pollers \ {w} : cycle'[v] = cycle[v]
      BY <1>2, <1>11
    <2>2. Extents' \subseteq Extents \cup {now, Idle.seen}
      BY <1>5, <1>11, <2>1 DEF Extents
    <2>3. Idle.seen = [slot |-> 0, txs |-> 0]
      BY DEF Idle
    <2>4. \A x : x = now \/ x = Idle.seen => Past(x)'
      <3>1. \A t \in DOMAIN chain : chain[t].slot \in Nat
        BY <1>2, ChainType
      <3>2. \A x : x = now => Past(x)'
        BY <1>2, <1>11 DEF Past, Within, now
      <3>3. \A x : x = Idle.seen => Past(x)'
        BY <1>2, <1>11, <2>3, <3>1 DEF Past, Within
      <3> QED
        BY <3>2, <3>3
    <2>5. \A x \in Extents \cup {now} : Within(x, now) /\ Within(Idle.seen, x)
      BY <1>2, <1>3, <1>4, <2>3 DEF Within, Extent, now
    <2>6. Within(Idle.seen, Idle.seen)
      BY <2>3 DEF Within
    <2>7. \A x, y \in Extents' : Within(x, y) \/ Within(y, x)
      BY <2>2, <2>5, <2>6 DEF ExtentInv
    <2>8. \A x \in Extents' : Past(x)'
      BY <1>3, <2>2, <2>4
    <2>9. ExtentInv'
      BY <2>7, <2>8 DEF ExtentInv
    <2>10. WindowInv'
      BY <1>11, <2>1 DEF WindowInv
    <2>11. WorkInv'
      BY <1>7, <1>11, <2>1 DEF WorkInv, Left
    <2> QED
      BY <1>6, <1>11, <2>9, <2>10, <2>11
  <1>12. Left(Idle)
    BY DEF Left, Idle
  <1>13. ASSUME NEW w \in Pollers, Throw(w), UNCHANGED <<slot, chain, covered>>
         PROVE  ExtentInv' /\ WindowInv' /\ WorkInv' /\ NothingMissed'
    BY <1>11, <1>12, <1>13 DEF Throw, Idle
  <1>14. ASSUME NEW w \in Pollers, GetSlot(w)
         PROVE  ExtentInv' /\ WindowInv' /\ WorkInv' /\ NothingMissed'
    <2> DEFINE from == IF slot > Lookback THEN slot - Lookback ELSE 0
               c == [Idle EXCEPT !.pc = "list", !.from = from]
    <2>1. c.pc = "list" /\ c.from = from /\ c.seen = Idle.seen
      BY DEF Idle
    <2>2. cycle' = [cycle EXCEPT ![w] = c] /\ UNCHANGED <<slot, chain, covered>>
      BY <1>14 DEF GetSlot
    <2>3. from <= covered.slot
      BY <1>2 DEF WindowInv
    <2> HIDE DEF c, from
    <2> QED
      BY <1>11, <2>1, <2>2, <2>3 DEF Left
  <1>15. ASSUME NEW w \in Pollers, ListSignatures(w)
         PROVE  ExtentInv' /\ WindowInv' /\ WorkInv' /\ NothingMissed'
    <2> DEFINE txs == {t \in Signatures : WorthFetching(chain[t], cycle[w].from)}
               c == [cycle[w] EXCEPT !.pc = "fetch", !.seen = now, !.txs = txs]
    <2>1. cycle' = [cycle EXCEPT ![w] = c] /\ UNCHANGED <<slot, chain, covered>>
      BY <1>2, <1>15 DEF ListSignatures, Cycle, now
    <2>2. c.pc = "fetch" /\ c.seen = now /\ c.txs = txs
      BY <1>2 DEF Cycle
    <2>3. Remaining(now.txs, txs, {})
      BY <1>15, ListingCovers DEF ListSignatures, now
    <2> HIDE DEF c, txs
    <2>4. now.txs \in Nat /\ now.txs <= Len(chain)
      BY <1>2 DEF now
    <2>5. \A n, list : n = now.txs /\ list = txs => Remaining(n, list, {})'
      BY <1>2, <2>3, <2>4, RemainingStays
    <2>6. Left(c)
      BY <2>2, <2>5 DEF Left
    <2> QED
      BY <1>11, <2>1, <2>2, <2>6
  <1>16. ASSUME NEW w \in Pollers, FetchTransactions(w)
         PROVE  ExtentInv' /\ WindowInv' /\ WorkInv' /\ NothingMissed'
    <2> DEFINE events == UNION {EventsOf(t) : t \in cycle[w].txs}
               c == [cycle[w] EXCEPT !.pc = "publish", !.events = events]
    <2>1. UNCHANGED <<slot, chain, covered, published>> /\ cycle[w].pc = "fetch"
      BY <1>16 DEF FetchTransactions
    <2>2. Throw(w) \/ cycle' = [cycle EXCEPT ![w].pc = "publish", ![w].events = events]
      BY <1>16 DEF FetchTransactions
    <2>3. CASE Throw(w)
      BY <1>13, <2>1, <2>3
    <2>4. CASE cycle' = [cycle EXCEPT ![w].pc = "publish", ![w].events = events]
      <3>1. cycle' = [cycle EXCEPT ![w] = c]
        BY <1>2, <2>4 DEF Cycle
      <3>2. c.pc = "publish" /\ c.seen = cycle[w].seen /\ c.events = events
        BY <1>2 DEF Cycle
      <3>3. Remaining(cycle[w].seen.txs, {}, events)
        <4>1. Remaining(cycle[w].seen.txs, cycle[w].txs, {})
          BY <2>1 DEF WorkInv
        <4>2. \A t \in cycle[w].txs : \A k \in DOMAIN chain[t].events :
                IsKnown(chain[t].events[k]) => [tx |-> t, pos |-> k] \in events
          BY DEF EventsOf, EventAt
        <4> QED
          BY <4>1, <4>2 DEF Remaining
      <3> HIDE DEF c, events
      <3>4. \A n, list : n = cycle[w].seen.txs /\ list = events => Remaining(n, {}, list)'
        BY <2>1, <3>3 DEF Remaining, AllPublished, Published
      <3>5. Left(c)
        BY <3>2, <3>4 DEF Left
      <3> QED
        BY <1>5, <1>11, <2>1, <3>1, <3>2, <3>5
    <2> QED
      BY <2>2, <2>3, <2>4
  <1>17. ASSUME NEW w \in Pollers, Publish(w)
         PROVE  ExtentInv' /\ WindowInv' /\ WorkInv' /\ NothingMissed'
    <2>1. UNCHANGED <<slot, chain, covered>> /\ cycle[w].pc = "publish"
      BY <1>17 DEF Publish
    <2>2. PICK e \in cycle[w].events :
            \/ Throw(w)
            \/ /\ published' = published
                    \cup {[event |-> e, event_id |-> BuildEventId(e, cycle[w].next)]}
               /\ cycle' = [cycle EXCEPT ![w].events = @ \ {e}, ![w].next = @ + 1]
      BY <1>17 DEF Publish
    <2>3. CASE Throw(w)
      BY <1>13, <2>1, <2>3
    <2>4. CASE /\ published' = published
                    \cup {[event |-> e, event_id |-> BuildEventId(e, cycle[w].next)]}
               /\ cycle' = [cycle EXCEPT ![w].events = @ \ {e}, ![w].next = @ + 1]
      <3> DEFINE c == [cycle[w] EXCEPT !.events = @ \ {e}, !.next = @ + 1]
      <3>1. cycle' = [cycle EXCEPT ![w] = c]
        BY <1>2, <2>4 DEF Cycle
      <3>2. c.pc = "publish" /\ c.seen = cycle[w].seen /\ c.events = cycle[w].events \ {e}
        BY <1>2, <2>1 DEF Cycle
      <3> HIDE DEF c
      <3>3. \A t, k : e = [tx |-> t, pos |-> k] => Published(t, k)'
        <4> DEFINE x == [event |-> e, event_id |-> BuildEventId(e, cycle[w].next)]
        <4>0. x \in published' /\ x.event = e
          BY <2>4
        <4> HIDE DEF x
        <4>1. \E y \in published' : y.event = e
          BY <4>0
        <4> QED
          BY <4>1 DEF Published
      <3>4. \A n, list : n = cycle[w].seen.txs /\ list = cycle[w].events =>
                           Remaining(n, {}, list)'
        BY <1>7, <2>1 DEF Left
      <3>5. \A n, list : n = cycle[w].seen.txs /\ list = cycle[w].events \ {e} =>
                           Remaining(n, {}, list)'
        BY <3>3, <3>4 DEF Remaining
      <3>6. Left(c)
        BY <3>2, <3>5 DEF Left
      <3> QED
        BY <1>5, <1>11, <2>1, <3>1, <3>2, <3>6
    <2> QED
      BY <2>2, <2>3, <2>4
  <1>18. ASSUME NEW w \in Pollers, Finish(w)
         PROVE  ExtentInv' /\ WindowInv' /\ WorkInv' /\ NothingMissed'
    <2> DEFINE seen == cycle[w].seen
    <2>1. /\ UNCHANGED <<slot, chain, published>> /\ cycle' = [cycle EXCEPT ![w] = Idle]
          /\ covered' = covered \/ (covered' = seen /\ Within(covered, seen))
      <3>1. seen \in Extent /\ (Within(seen, covered) \/ Within(covered, seen))
        BY <1>3, <1>5 DEF ExtentInv
      <3> QED
        BY <1>2, <1>18, <3>1 DEF Finish, Within, Extent
    <2>2. CASE covered' = covered
      BY <1>13, <2>1, <2>2 DEF Throw
    <2>3. CASE covered' = seen /\ Within(covered, seen)
      <3>1. \A t \in 1..seen.txs : AllPublished(t)
        BY <1>18 DEF Finish, WorkInv, Remaining, AllPublished
      <3>2. NothingMissed'
        BY <2>1, <2>3, <3>1 DEF NothingMissed, AllPublished, Published
      <3>3. cycle'[w] = Idle /\ \A v \in Pollers \ {w} : cycle'[v] = cycle[v]
        BY <1>2, <2>1
      <3>4. WorkInv'
        BY <1>7, <1>12, <3>3 DEF WorkInv, Left
      <3>5. seen.slot \in Nat /\ seen.txs \in Nat
        BY <1>3, <1>5 DEF Extent
      <3>6. WindowInv'
        <4>1. \A v \in Pollers : cycle[v].from \in Nat
          BY <1>2 DEF Cycle
        <4>2. slot' <= covered'.slot + MaxGap /\ Len(chain)' <= covered'.txs + MaxLanded
          BY <1>2, <2>1, <2>3, <3>5 DEF WindowInv, Within
        <4>3. \A v \in Pollers : cycle'[v].pc = "list" => cycle'[v].from <= covered'.slot
          BY <1>2, <2>3, <3>3, <3>5, <4>1 DEF WindowInv, Within, Idle
        <4> QED
          BY <4>2, <4>3 DEF WindowInv
      <3>7. Extents' \subseteq Extents \cup {Idle.seen}
        BY <1>5, <2>3, <3>3 DEF Extents
      <3>8. Idle.seen = [slot |-> 0, txs |-> 0]
        BY DEF Idle
      <3>9. \A x : x = Idle.seen => Past(x)'
        <4>1. \A t \in DOMAIN chain : chain[t].slot \in Nat
          BY <1>2, ChainType
        <4> QED
          BY <1>2, <2>1, <3>8, <4>1 DEF Past, Within
      <3>10. \A x \in Extents \cup {Idle.seen} : Within(Idle.seen, x)
        BY <1>3, <3>8 DEF Within, Extent
      <3>11. ExtentInv'
        BY <1>3, <3>7, <3>9, <3>10 DEF ExtentInv
      <3> QED
        BY <3>2, <3>4, <3>6, <3>11
    <2> QED
      BY <2>1, <2>2, <2>3
  <1>19. ASSUME NEW w \in Pollers, Abort(w)
         PROVE  ExtentInv' /\ WindowInv' /\ WorkInv' /\ NothingMissed'
    BY <1>13, <1>19 DEF Abort
  <1>20. CASE UNCHANGED vars
    <2>1. slot' <= covered.slot + MaxGap /\ Len(chain)' <= covered.txs + MaxLanded
      BY <1>20 DEF vars, WindowInv
    <2> QED
      BY <1>8, <1>20, <2>1 DEF vars
  <1> QED
    BY <1>1, <1>9, <1>10, <1>14, <1>15, <1>16, <1>17, <1>18, <1>19, <1>20 DEF Next, RunCycle

LEMMA CoverInit == Init => CoverInv
  <1> SUFFICES ASSUME Init PROVE CoverInv
    OBVIOUS
  <1>1. TypeInv
    BY TypeInit
  <1>2. Len(chain) = 0 /\ DOMAIN chain = {} /\ slot = 0
    BY EmptySeq DEF Init
  <1>3. \A x \in Extents : x = [slot |-> 0, txs |-> 0]
    BY DEF Init, Extents, Idle
  <1>4. ExtentInv
    BY <1>2, <1>3 DEF ExtentInv, Past, Within
  <1>5. WindowInv
    BY <1>2, IngestionAssumption DEF Init, WindowInv, Idle
  <1>6. WorkInv /\ NothingMissed
    BY DEF Init, WorkInv, NothingMissed, Idle
  <1> QED
    BY <1>1, <1>4, <1>5, <1>6 DEF CoverInv

LEMMA CoverInvariant ==
  ASSUME MaxGap <= Lookback, MaxLanded <= Limit, "missing" \notin Faults
  PROVE  Spec => []CoverInv
  <1>1. CoverInv /\ [Next]_vars => CoverInv'
    BY CoverStep
  <1> QED
    BY <1>1, CoverInit, PTL DEF Spec

\* No event is missed by cycles that remember nothing, for any chain, any number of
\* overlapping invocations and any aborts: it is enough that between two complete
\* cycles pass no more slots than the lookback and no more transactions than the
\* limit, and that the node serves what it lists.
THEOREM CyclesMissNothing ==
  ASSUME MaxGap <= Lookback, MaxLanded <= Limit, "missing" \notin Faults
  PROVE  Spec => []NothingMissed
  <1>1. CoverInv => NothingMissed
    BY DEF CoverInv
  <1> QED
    BY <1>1, CoverInvariant, PTL
==============================================================================
