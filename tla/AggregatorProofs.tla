--------------------------- MODULE AggregatorProofs ---------------------------
(* Proofs about Aggregator for every value of its constants. *)
EXTENDS Aggregator, FiniteSetTheorems, SequenceTheorems, TLAPS

------------------------------------------------------------------------------
(* What a step leaves, in the terms the invariants need.                    *)

\* The steps of a record that is being handled.
Busy == {"check", "apply", "record", "undo", "mark", "unrecord", "unapply"}

\* An invocation has a record at hand exactly while it is busy.
HandlesRecords ==
  \A w \in Workers :
    /\ worker[w].pc \in Busy => worker[w].todo # <<>>
    /\ worker[w].pc = "return" => worker[w].todo = <<>>

TypeInv == TypeOK /\ HandlesRecords

\* The message is done with: its event is projected, or one that is skipped.
Settled(m, marks) == EventOf[m].type = "Eligibility" \/ EventOf[m].id \in marks

\* The record at hand of a busy invocation is one of the messages.
LEMMA CurrentType ==
  ASSUME TypeInv, NEW w \in Workers, worker[w].pc \in Busy
  PROVE  /\ worker[w] \in Invocation
         /\ worker[w].todo \in Seq(Messages) /\ worker[w].todo # <<>>
         /\ Current(w) \in Messages
         /\ EventAt(w) \in Event /\ EventAt(w) \in Events
  <1>1. worker[w] \in Invocation /\ worker[w].todo # <<>>
    BY DEF TypeInv, TypeOK, HandlesRecords
  <1>2. worker[w].todo \in Seq(Messages)
    BY <1>1 DEF Invocation
  <1>3. Current(w) \in Messages
    BY <1>1, <1>2, HeadTailProperties DEF Current
  <1> QED
    BY <1>1, <1>2, <1>3, AggregatorAssumption DEF EventAt, Events

\* The successors of an invocation that handles a record: it goes on, it ends the
\* record as failed, ends it as done, or rolls it back; it says done of settled
\* records only.
Successor(w, inv) ==
  \/ \E pc \in Busy \ {"unrecord", "unapply"} : inv = GoesTo(w, pc)
  \/ inv = GoesTo(w, "unapply") /\ worker[w].pc = "unrecord"
  \/ inv = Ends(w, "failed")
  \/ inv = Ends(w, "done") /\ Settled(Current(w), processed')
  \/ /\ \E verdict \in {"done", "failed"} :
          /\ inv = [worker[w] EXCEPT !.pc = "unrecord", !.verdict = verdict]
          /\ verdict = "done" => Settled(Current(w), processed')

\* What an invocation in the middle of a rollback will say is already true.
VerdictInv ==
  \A w \in Workers :
    worker[w].pc \in {"unrecord", "unapply"} /\ worker[w].verdict = "done" =>
      Settled(Current(w), processed)

\* Every step of a handler is a step to a successor.
LEMMA HandleIsSuccessor ==
  ASSUME TypeInv, VerdictInv, NEW w \in Workers, Handle(w)
  PROVE  /\ worker[w].pc \in Busy
         /\ \E inv : worker' = [worker EXCEPT ![w] = inv] /\ Successor(w, inv)
         /\ processed \subseteq processed' /\ processed' \subseteq Ids
         /\ UNCHANGED queue
  <1> DEFINE Goal == /\ \E inv : worker' = [worker EXCEPT ![w] = inv] /\ Successor(w, inv)
                     /\ processed \subseteq processed' /\ processed' \subseteq Ids
                     /\ UNCHANGED queue
  <1>1. worker[w].pc \in Busy
    BY DEF Handle, Check, ApplyCreated, ApplyCommitted, ApplyRevealed, ApplyEnded,
           Record, Undo, Mark, Unrecord, Unapply, Busy
  <1>2. /\ EventAt(w) \in Event /\ EventAt(w) \in Events
        /\ worker[w] \in Invocation /\ Current(w) \in Messages
        /\ EventAt(w).id \in Ids /\ processed \subseteq Ids
    BY <1>1, CurrentType DEF Ids, TypeInv, TypeOK
  <1> SUFFICES Goal
    BY <1>1
  <1>3. ASSUME NEW accepts, NEW row, NEW onDone, NEW onError,
               WriteRow(w, accepts, row, onDone, onError),
               processed' = processed =>
                 Successor(w, onDone) /\ Successor(w, onError)
        PROVE  Goal
    BY <1>2, <1>3 DEF WriteRow
  <1>4. ASSUME NEW flag, NEW value, NEW onDone, NEW onError,
               WriteActivity(w, flag, value, onDone, onError),
               processed' = processed =>
                 Successor(w, onDone) /\ Successor(w, onError)
        PROVE  Goal
    BY <1>2, <1>4 DEF WriteActivity
  <1>5. Successor(w, Ends(w, "failed"))
    BY DEF Successor
  <1>6. \A pc \in {"apply", "record", "undo", "mark"} : Successor(w, GoesTo(w, pc))
    BY DEF Successor, Busy
  <1>7. CASE Check(w)
    <2>1. UNCHANGED <<processed, queue>>
      BY <1>7 DEF Check
    <2>2. CASE EventAt(w).type = "Malformed"
      BY <1>2, <1>5, <1>7, <2>1, <2>2 DEF Check
    <2>3. CASE EventAt(w).type = "Eligibility"
      <3>1. Successor(w, Ends(w, "done"))
        BY <2>3 DEF Successor, Settled, EventAt
      <3> QED
        BY <1>2, <1>7, <2>1, <2>3, <3>1 DEF Check
    <2>4. CASE EventAt(w).type \notin {"Malformed", "Eligibility"}
      <3>1. PICK ok \in Outcomes(TRUE), already \in LookedUp(EventAt(w)) :
              worker' = [worker EXCEPT ![w] =
                           CASE ~ok            -> Ends(w, "failed")
                             [] ok /\ already  -> Ends(w, "done")
                             [] ok /\ ~already -> GoesTo(w, "apply")]
        BY <1>7, <2>4 DEF Check
      <3>2. ok \in BOOLEAN /\ already \in BOOLEAN
        <4>1. already = AlreadyProcessed(EventAt(w)) \/ already = FALSE
          BY <3>1 DEF LookedUp
        <4>2. AlreadyProcessed(EventAt(w)) \in BOOLEAN
          BY DEF AlreadyProcessed
        <4>3. ok \in BOOLEAN
          BY <3>1 DEF Outcomes
        <4> QED
          BY <4>1, <4>2, <4>3
      <3>3. already => Successor(w, Ends(w, "done"))
        BY <2>1 DEF Successor, Settled, EventAt, LookedUp, AlreadyProcessed
      <3>4. CASE ~ok
        <4>1. worker' = [worker EXCEPT ![w] = Ends(w, "failed")]
          BY <3>1, <3>4
        <4> QED
          BY <1>2, <1>5, <2>1, <4>1
      <3>5. CASE ok /\ already
        <4>1. worker' = [worker EXCEPT ![w] = Ends(w, "done")]
          BY <3>1, <3>5
        <4> QED
          BY <1>2, <2>1, <3>3, <3>5, <4>1
      <3>6. CASE ok /\ ~already
        <4>1. worker' = [worker EXCEPT ![w] = GoesTo(w, "apply")]
          BY <3>1, <3>6
        <4> QED
          BY <1>2, <1>6, <2>1, <4>1
      <3> QED
        BY <3>2, <3>4, <3>5, <3>6
    <2> QED
      BY <2>2, <2>3, <2>4
  <1>8. CASE ApplyCreated(w) \/ ApplyRevealed(w) \/ ApplyEnded(w)
    BY <1>3, <1>5, <1>6, <1>8 DEF ApplyCreated, ApplyRevealed, ApplyEnded
  <1>9. CASE ApplyCommitted(w) \/ Record(w)
    BY <1>4, <1>5, <1>6, <1>9 DEF ApplyCommitted, Record
  <1>10. CASE Undo(w)
    BY <1>3, <1>5, <1>10 DEF Undo
  <1>11. CASE Mark(w)
    <2>1. \A verdict \in {"done", "failed"} :
            (verdict = "done" => Settled(Current(w), processed')) =>
              Successor(w, RolledBack(w, verdict)) /\ Successor(w, Ends(w, verdict))
      BY DEF Successor, RolledBack
    <2>2. CASE /\ ~AlreadyProcessed(EventAt(w))
               /\ processed' = processed \cup {EventAt(w).id}
               /\ \E inv \in AfterMarked(w) : worker' = [worker EXCEPT ![w] = inv]
      <3>1. Settled(Current(w), processed')
        BY <2>2 DEF Settled, EventAt, Current
      <3>2. \A inv \in AfterMarked(w) : Successor(w, inv)
        BY <2>1, <3>1 DEF AfterMarked
      <3>3. UNCHANGED queue
        BY <1>11 DEF Mark
      <3> QED
        BY <1>2, <2>2, <3>2, <3>3
    <2>3. CASE /\ AlreadyProcessed(EventAt(w))
               /\ worker' = [worker EXCEPT ![w] = RolledBack(w, "done")]
               /\ UNCHANGED processed
      <3>1. Settled(Current(w), processed')
        BY <2>3 DEF Settled, EventAt, AlreadyProcessed
      <3> QED
        BY <1>2, <1>11, <2>1, <2>3, <3>1 DEF Mark
    <2>4. CASE /\ worker' = [worker EXCEPT ![w] = RolledBack(w, "failed")]
               /\ UNCHANGED processed
      BY <1>2, <1>11, <2>1, <2>4 DEF Mark
    <2> QED
      BY <1>11, <2>2, <2>3, <2>4 DEF Mark
  <1>12. CASE Unrecord(w) \/ Unapply(w)
    <2>1. worker[w].pc \in {"unrecord", "unapply"}
      BY <1>12 DEF Unrecord, Unapply
    <2>2. worker[w].verdict \in {"done", "failed"}
      BY <1>2 DEF Invocation
    <2>3. processed' = processed => Successor(w, Ends(w, worker[w].verdict))
      BY <2>1, <2>2 DEF VerdictInv, Settled, Successor
    <2>4. Unrecord(w) => Successor(w, GoesTo(w, "unapply"))
      BY DEF Successor, Unrecord
    <2> QED
      BY <1>3, <1>4, <1>12, <2>3, <2>4 DEF Unrecord, Unapply
  <1> QED
    BY <1>1, <1>7, <1>8, <1>9, <1>10, <1>11, <1>12 DEF Handle

------------------------------------------------------------------------------
(* Types.                                                                   *)

\* The tail of a sequence is empty if the sequence has one element.
LEMMA TailEmpty ==
  ASSUME NEW S, NEW seq \in Seq(S), seq # <<>>
  PROVE  /\ Len(seq) > 1 => Tail(seq) # <<>>
         /\ ~(Len(seq) > 1) => Tail(seq) = <<>>
  <1> DEFINE tail == Tail(seq)
  <1>1. Len(seq) \in Nat \ {0}
    BY EmptySeq
  <1>2. tail \in Seq(S) /\ Len(tail) = Len(seq) - 1
    BY HeadTailProperties
  <1>3. tail # <<>> => Len(tail) \in Nat \ {0}
    BY <1>2, EmptySeq
  <1>4. tail = <<>> => Len(tail) = 0
    BY EmptySeq
  <1> HIDE DEF tail
  <1>5. (Len(seq) > 1 => tail # <<>>) /\ (~(Len(seq) > 1) => tail = <<>>)
    BY <1>1, <1>2, <1>3, <1>4
  <1> QED
    BY <1>5 DEF tail

\* Ending a record leaves an invocation, and a record at hand or none.
LEMMA EndsType ==
  ASSUME TypeInv, NEW w \in Workers, worker[w].pc \in Busy,
         NEW verdict \in {"done", "failed"}
  PROVE  /\ Ends(w, verdict) \in Invocation
         /\ Ends(w, verdict).todo = Tail(worker[w].todo)
         /\ Ends(w, verdict).batch = worker[w].batch
         /\ worker[w].failed \subseteq Ends(w, verdict).failed
         /\ verdict = "failed" => Current(w) \in Ends(w, verdict).failed
         /\ \/ Ends(w, verdict).pc = "check" /\ Ends(w, verdict).todo # <<>>
            \/ Ends(w, verdict).pc = "return" /\ Ends(w, verdict).todo = <<>>
  <1> DEFINE todo == worker[w].todo
  <1>1. worker[w] \in Invocation /\ todo \in Seq(Messages) /\ todo # <<>>
        /\ Current(w) \in Messages
    BY CurrentType
  <1>2. Tail(todo) \in Seq(Messages) /\ Len(todo) \in Nat \ {0}
        /\ Len(Tail(todo)) = Len(todo) - 1
    BY <1>1, HeadTailProperties, EmptySeq
  <1>3. (Len(todo) > 1 => Tail(todo) # <<>>) /\ (~(Len(todo) > 1) => Tail(todo) = <<>>)
    BY <1>1, TailEmpty
  <1>4. /\ Ends(w, verdict).todo = Tail(todo)
        /\ Ends(w, verdict).batch = worker[w].batch
        /\ Ends(w, verdict).failed =
             IF verdict = "failed" THEN worker[w].failed \cup {Current(w)}
                                   ELSE worker[w].failed
        /\ Ends(w, verdict).pc = IF Len(todo) > 1 THEN "check" ELSE "return"
        /\ Ends(w, verdict).verdict = worker[w].verdict
    BY <1>1 DEF Ends, Invocation
  <1>5. Ends(w, verdict) \in Invocation
    BY <1>1, <1>2 DEF Ends, Invocation, Steps
  <1>6. \/ Ends(w, verdict).pc = "check" /\ Ends(w, verdict).todo # <<>>
        \/ Ends(w, verdict).pc = "return" /\ Ends(w, verdict).todo = <<>>
    BY <1>3, <1>4
  <1>7. /\ worker[w].failed \subseteq Ends(w, verdict).failed
        /\ verdict = "failed" => Current(w) \in Ends(w, verdict).failed
    BY <1>4
  <1> QED
    BY <1>4, <1>5, <1>6, <1>7

\* Every successor is an invocation with a record at hand exactly while it is busy.
LEMMA SuccessorType ==
  ASSUME TypeInv, NEW w \in Workers, worker[w].pc \in Busy, NEW inv, Successor(w, inv)
  PROVE  /\ inv \in Invocation
         /\ inv.pc \in Busy => inv.todo # <<>>
         /\ inv.pc = "return" => inv.todo = <<>>
  <1>1. worker[w] \in Invocation /\ worker[w].todo # <<>>
    BY CurrentType
  <1>2. CASE \E pc \in Busy : inv = GoesTo(w, pc)
    BY <1>1, <1>2 DEF GoesTo, Invocation, Steps, Busy
  <1>3. CASE inv = Ends(w, "done") \/ inv = Ends(w, "failed")
    BY <1>3, EndsType DEF Busy
  <1>4. CASE \E verdict \in {"done", "failed"} :
               inv = [worker[w] EXCEPT !.pc = "unrecord", !.verdict = verdict]
    BY <1>1, <1>4 DEF Invocation, Steps, Busy
  <1> QED
    BY <1>2, <1>3, <1>4 DEF Successor, Busy

\* What the repository calls leave has the type of the tables.
LEMMA RowType ==
  ASSUME NEW row \in Row, NEW o \in Options
  PROVE  /\ AfterCreated(row) \in Row
         /\ AfterRevealed(row, o) \in Row
         /\ AfterUndoRevealed(row, o) \in Row
         /\ AfterFinalized(row) \in Row
         /\ AfterClosed(row) \in Row
  <1>1. /\ row.option_counts \in [Options -> Int] /\ row.option_counts[o] \in Int
        /\ row.phase \in {"absent", "commit", "reveal", "finalized", "closed"}
    BY DEF Row
  <1>2. /\ [row.option_counts EXCEPT ![o] = row.option_counts[o] + 1] \in [Options -> Int]
        /\ [row.option_counts EXCEPT ![o] = row.option_counts[o] - 1] \in [Options -> Int]
    BY <1>1
  <1>3. PhaseAfterRevealed(row.phase) \in
          {"absent", "commit", "reveal", "finalized", "closed"}
    <2>1. CASE Dynamo /\ row.phase = "absent"
      BY <1>1, <2>1 DEF PhaseAfterRevealed
    <2>2. CASE ~Dynamo /\ row.phase = "commit"
      BY <1>1, <2>2 DEF PhaseAfterRevealed
    <2>3. CASE ~(Dynamo /\ row.phase = "absent") /\ ~(~Dynamo /\ row.phase = "commit")
      BY <1>1, <2>3 DEF PhaseAfterRevealed
    <2> QED
      BY <2>1, <2>2, <2>3
  <1>4. AfterRevealed(row, o) \in Row
    BY <1>1, <1>2, <1>3 DEF AfterRevealed, Row
  <1>5. AfterUndoRevealed(row, o) \in Row
    BY <1>1, <1>2 DEF AfterUndoRevealed, Row
  <1>6. AfterFinalized(row) \in Row /\ AfterClosed(row) \in Row
    BY <1>1 DEF AfterFinalized, AfterClosed, Row
  <1>7. AfterCreated(row) \in Row
    BY DEF AfterCreated, CreatedRow, Row
  <1> QED
    BY <1>4, <1>5, <1>6, <1>7

\* A handler changes the tables by repository calls only.
LEMMA HandleTables ==
  ASSUME TypeInv, NEW w \in Workers, Handle(w)
  PROVE  /\ rows' \in [Proposals -> Row]
         /\ activity' \in [Voters -> [Proposals -> Participation]]
  <1>1. worker[w].pc \in Busy
    BY DEF Handle, Check, ApplyCreated, ApplyCommitted, ApplyRevealed, ApplyEnded,
           Record, Undo, Mark, Unrecord, Unapply, Busy
  <1>2. /\ EventAt(w).proposal \in Proposals /\ EventAt(w).voter \in Voters
        /\ EventAt(w).option \in Options
    BY <1>1, CurrentType DEF Event
  <1>3. /\ rows \in [Proposals -> Row] /\ RowOf(w) \in Row
        /\ activity \in [Voters -> [Proposals -> Participation]]
    BY <1>2 DEF TypeInv, TypeOK, RowOf
  <1> DEFINE Goal == /\ rows' \in [Proposals -> Row]
                     /\ activity' \in [Voters -> [Proposals -> Participation]]
  <1>4. ASSUME NEW accepts, NEW row \in Row, NEW onDone, NEW onError,
               WriteRow(w, accepts, row, onDone, onError)
        PROVE  Goal
    BY <1>2, <1>3, <1>4 DEF WriteRow
  <1>5. ASSUME NEW flag, NEW value \in BOOLEAN, NEW onDone, NEW onError,
               WriteActivity(w, flag, value, onDone, onError)
        PROVE  Goal
    <2>1. activity[EventAt(w).voter][EventAt(w).proposal] \in Participation
      BY <1>2, <1>3
    <2>2. \A part \in Participation : AfterRecord(part, flag, value) \in Participation
      BY <1>5 DEF AfterRecord, Participation
    <2> QED
      BY <1>2, <1>3, <1>5, <2>1, <2>2 DEF WriteActivity
  <1>6. CASE Check(w) \/ Mark(w)
    BY <1>3, <1>6 DEF Check, Mark
  <1>7. CASE ApplyCreated(w) \/ ApplyRevealed(w) \/ ApplyEnded(w) \/ Undo(w) \/ Unapply(w)
    BY <1>2, <1>3, <1>4, <1>7, RowType
       DEF ApplyCreated, ApplyRevealed, ApplyEnded, Undo, Unapply
  <1>8. CASE ApplyCommitted(w) \/ Record(w) \/ Unrecord(w)
    BY <1>5, <1>8 DEF ApplyCommitted, Record, Unrecord
  <1> QED
    BY <1>6, <1>7, <1>8 DEF Handle

\* A step keeps the types, and a record at hand of every busy invocation.
LEMMA TypeStep ==
  ASSUME TypeInv, VerdictInv, [Next]_vars
  PROVE  TypeInv'
  <1> USE AggregatorAssumption DEF TypeInv, TypeOK, HandlesRecords
  <1>1. ASSUME NEW w \in Workers, NEW batch \in Batches, Receive(w, batch)
        PROVE  TypeInv'
    <2>1. batch \in Seq(Messages) /\ batch # <<>>
      BY <1>1 DEF Batches, Receive
    <2>2. {batch[i] : i \in DOMAIN batch} \in SUBSET Messages
      BY <2>1
    <2>3. [Idle EXCEPT !.pc = "check", !.batch = {batch[i] : i \in DOMAIN batch},
                       !.todo = batch] \in Invocation
      BY <2>1, <2>2 DEF Idle, Invocation, Steps
    <2>4. worker' \in [Workers -> Invocation] /\ HandlesRecords'
      BY <1>1, <2>1, <2>3 DEF Receive, Idle, Busy
    <2>5. \A m \in Messages :
            MayReceive(m) => [state |-> "inflight", receives |-> queue[m].receives + 1]
                               \in MessageState
      BY DEF MayReceive, MessageState
    <2>6. \A i \in DOMAIN batch : MayReceive(batch[i])
      BY <1>1 DEF Receive
    <2>7. queue' \in [Messages -> MessageState]
      BY <1>1, <2>5, <2>6 DEF Receive
    <2> QED
      BY <1>1, <2>4, <2>7 DEF Receive
  <1>2. ASSUME NEW w \in Workers, Handle(w)
        PROVE  TypeInv'
    <2>1. /\ worker[w].pc \in Busy
          /\ \E inv : worker' = [worker EXCEPT ![w] = inv] /\ Successor(w, inv)
          /\ processed' \subseteq Ids
          /\ UNCHANGED queue
      BY <1>2, HandleIsSuccessor
    <2>2. worker' \in [Workers -> Invocation] /\ HandlesRecords'
      BY <2>1, SuccessorType
    <2> QED
      BY <1>2, <2>1, <2>2, HandleTables
  <1>3. ASSUME NEW w \in Workers, Return(w)
        PROVE  TypeInv'
    <2>1. worker' \in [Workers -> Invocation] /\ HandlesRecords'
      BY <1>3, EmptySeq DEF Return, Idle, Invocation, Steps, Busy
    <2>2. \A m \in Messages : [queue[m] EXCEPT !.state = "deleted"] \in MessageState
      BY DEF MessageState
    <2>3. queue' \in [Messages -> MessageState]
      BY <1>3, <2>2 DEF Return
    <2> QED
      BY <1>3, <2>1, <2>3 DEF Return
  <1>4. ASSUME NEW w \in Workers, Crash(w)
        PROVE  TypeInv'
    BY <1>4, EmptySeq DEF Crash, Idle, Invocation, Steps, Busy
  <1>5. ASSUME NEW m \in Messages, Reappear(m) \/ Redrive(m)
        PROVE  TypeInv'
    BY <1>5 DEF Reappear, Redrive, MessageState
  <1>6. CASE UNCHANGED vars
    BY <1>6 DEF vars
  <1> QED
    BY <1>1, <1>2, <1>3, <1>4, <1>5, <1>6 DEF Next, Deliver

------------------------------------------------------------------------------
(* What an invocation says of its batch.                                    *)

\* Every message of a batch is still to be handled, to be reported, or settled.
Accounted(inv, marks) ==
  \A m \in inv.batch :
    \/ \E i \in 1..Len(inv.todo) : inv.todo[i] = m
    \/ m \in inv.failed
    \/ Settled(m, marks)

BatchInv == \A w \in Workers : Accounted(worker[w], processed)

\* Settled is for ever.
LEMMA SettledStays ==
  ASSUME NEW m, NEW marks, NEW more, marks \subseteq more, Settled(m, marks)
  PROVE  Settled(m, more)
  BY DEF Settled

LEMMA AccountedStays ==
  ASSUME NEW inv, NEW marks, NEW more, marks \subseteq more, Accounted(inv, marks)
  PROVE  Accounted(inv, more)
  BY SettledStays DEF Accounted

\* Whatever follows a record, its batch stays accounted for.
LEMMA SuccessorAccounted ==
  ASSUME TypeInv, NEW w \in Workers, worker[w].pc \in Busy,
         processed \subseteq processed', Accounted(worker[w], processed),
         NEW inv, Successor(w, inv)
  PROVE  Accounted(inv, processed')
  <1>1. Accounted(worker[w], processed')
    BY AccountedStays
  <1>2. worker[w] \in Invocation
    BY CurrentType
  <1>3. CASE \E pc \in Busy : inv = GoesTo(w, pc)
    BY <1>1, <1>2, <1>3 DEF GoesTo, Accounted, Invocation
  <1>4. CASE \E verdict \in {"done", "failed"} :
               inv = [worker[w] EXCEPT !.pc = "unrecord", !.verdict = verdict]
    BY <1>1, <1>2, <1>4 DEF Accounted, Invocation
  <1>5. ASSUME NEW verdict \in {"done", "failed"}, inv = Ends(w, verdict),
               verdict = "done" => Settled(Current(w), processed')
        PROVE  Accounted(inv, processed')
    <2> DEFINE todo == worker[w].todo
    <2>1. todo \in Seq(Messages) /\ todo # <<>> /\ Current(w) = todo[1]
      BY CurrentType DEF Current
    <2>2. /\ Len(todo) \in Nat \ {0} /\ Len(Tail(todo)) = Len(todo) - 1
          /\ \A i \in 1..Len(Tail(todo)) : Tail(todo)[i] = todo[i + 1]
      BY <2>1, HeadTailProperties, EmptySeq
    <2>3. \A i \in 1..Len(todo) :
            todo[i] = Current(w) \/ \E j \in 1..Len(Tail(todo)) : Tail(todo)[j] = todo[i]
      <3> TAKE i \in 1..Len(todo)
      <3>1. CASE i = 1
        BY <2>1, <3>1
      <3>2. CASE i # 1
        <4>1. i - 1 \in 1..Len(Tail(todo)) /\ Tail(todo)[i - 1] = todo[i]
          BY <2>2, <3>2
        <4> QED
          BY <4>1
      <3> QED
        BY <3>1, <3>2
    <2>4. /\ inv.todo = Tail(todo) /\ inv.batch = worker[w].batch
          /\ worker[w].failed \subseteq inv.failed
          /\ verdict = "failed" => Current(w) \in inv.failed
      BY <1>5, EndsType
    <2>5. Current(w) \in inv.failed \/ Settled(Current(w), processed')
      BY <1>5, <2>4
    <2>6. ASSUME NEW m \in inv.batch
          PROVE  \/ \E i \in 1..Len(inv.todo) : inv.todo[i] = m
                 \/ m \in inv.failed
                 \/ Settled(m, processed')
      <3>1. m \in worker[w].batch
        BY <2>4, <2>6
      <3>2. \/ \E i \in 1..Len(todo) : todo[i] = m
            \/ m \in worker[w].failed
            \/ Settled(m, processed')
        BY <1>1, <3>1 DEF Accounted
      <3>3. CASE \E i \in 1..Len(todo) : todo[i] = m
        BY <2>3, <2>4, <2>5, <3>3
      <3> QED
        BY <2>4, <3>2, <3>3
    <2> QED
      BY <2>6 DEF Accounted
  <1> QED
    BY <1>3, <1>4, <1>5 DEF Successor, Busy

DropInv == TypeInv /\ VerdictInv /\ BatchInv

\* A step of an invocation keeps what the others hold.
LEMMA OthersStay ==
  ASSUME TypeInv, NEW w \in Workers, NEW inv, worker' = [worker EXCEPT ![w] = inv]
  PROVE  /\ worker'[w] = inv
         /\ \A v \in Workers \ {w} : worker'[v] = worker[v]
  BY DEF TypeInv, TypeOK

\* The invariant holds through every step of a handler.
LEMMA HandleDrop ==
  ASSUME DropInv, NEW w \in Workers, Handle(w)
  PROVE  VerdictInv' /\ BatchInv'
  <1>1. /\ worker[w].pc \in Busy
        /\ processed \subseteq processed'
        /\ UNCHANGED queue
    BY HandleIsSuccessor DEF DropInv
  <1>2. PICK inv : worker' = [worker EXCEPT ![w] = inv] /\ Successor(w, inv)
    BY HandleIsSuccessor DEF DropInv
  <1>3. /\ worker'[w] = inv
        /\ \A v \in Workers \ {w} : worker'[v] = worker[v]
    BY <1>2, OthersStay DEF DropInv
  <1>4. BatchInv'
    <2>1. Accounted(inv, processed')
      BY <1>1, <1>2, SuccessorAccounted DEF DropInv, BatchInv
    <2>2. \A v \in Workers \ {w} : Accounted(worker[v], processed')
      BY <1>1, AccountedStays DEF DropInv, BatchInv
    <2> QED
      BY <1>3, <2>1, <2>2 DEF BatchInv
  <1>5. VerdictInv'
    <2>1. ASSUME NEW v \in Workers \ {w},
                 worker'[v].pc \in {"unrecord", "unapply"}, worker'[v].verdict = "done"
          PROVE  Settled(Current(v)', processed')
      <3>1. Settled(Current(v), processed)
        BY <1>3, <2>1 DEF DropInv, VerdictInv
      <3> QED
        BY <1>1, <1>3, <3>1, SettledStays DEF Current
    <2>2. ASSUME inv.pc \in {"unrecord", "unapply"}, inv.verdict = "done"
          PROVE  Settled(Head(inv.todo), processed')
      <3>1. worker[w] \in Invocation
        BY <1>1, CurrentType DEF DropInv
      <3>2. CASE \E verdict \in {"done", "failed"} :
                   /\ inv = [worker[w] EXCEPT !.pc = "unrecord", !.verdict = verdict]
                   /\ verdict = "done" => Settled(Current(w), processed')
        BY <2>2, <3>1, <3>2 DEF Invocation, Current
      <3>3. CASE inv = GoesTo(w, "unapply") /\ worker[w].pc = "unrecord"
        <4>1. /\ inv.todo = worker[w].todo
              /\ worker[w].verdict = "done"
          BY <2>2, <3>1, <3>3 DEF GoesTo, Invocation
        <4>2. Settled(Current(w), processed)
          BY <3>3, <4>1 DEF DropInv, VerdictInv
        <4> QED
          BY <1>1, <4>1, <4>2, SettledStays DEF Current
      <3>4. CASE inv = Ends(w, "done") \/ inv = Ends(w, "failed")
        <4>1. inv.pc \in {"check", "return"}
          BY <1>1, <3>4, EndsType DEF DropInv
        <4> QED
          BY <2>2, <4>1
      <3>5. CASE \E pc \in Busy \ {"unrecord", "unapply"} : inv = GoesTo(w, pc)
        BY <2>2, <3>1, <3>5 DEF GoesTo, Invocation
      <3> QED
        BY <1>2, <3>2, <3>3, <3>4, <3>5 DEF Successor
    <2>3. ASSUME NEW v \in Workers,
                 worker'[v].pc \in {"unrecord", "unapply"}, worker'[v].verdict = "done"
          PROVE  Settled(Current(v)', processed')
      <3>1. CASE v = w
        BY <1>3, <2>2, <2>3, <3>1 DEF Current
      <3> QED
        BY <2>1, <2>3, <3>1
    <2> QED
      BY <2>3 DEF VerdictInv
  <1> QED
    BY <1>4, <1>5

\* What invocations say of their messages stays true at every step.
LEMMA DropStep ==
  ASSUME DropInv, [Next]_vars
  PROVE  DropInv'
  <1>1. TypeInv'
    BY TypeStep DEF DropInv
  <1> SUFFICES VerdictInv' /\ BatchInv'
    BY <1>1 DEF DropInv
  <1> USE DEF DropInv
  <1>2. ASSUME NEW w \in Workers, NEW batch \in Batches, Receive(w, batch)
        PROVE  VerdictInv' /\ BatchInv'
    <2> DEFINE inv == [Idle EXCEPT !.pc = "check", !.batch = {batch[i] : i \in DOMAIN batch},
                                   !.todo = batch]
    <2>1. worker'[w] = inv /\ \A v \in Workers \ {w} : worker'[v] = worker[v]
      BY <1>2, OthersStay DEF Receive
    <2>2. UNCHANGED processed
      BY <1>2 DEF Receive
    <2>3. Accounted(inv, processed)
      BY <1>2 DEF Accounted, Batches, Idle
    <2>4. BatchInv'
      BY <2>1, <2>2, <2>3 DEF BatchInv
    <2>5. VerdictInv'
      BY <2>1, <2>2 DEF VerdictInv, Current, Idle
    <2> QED
      BY <2>4, <2>5
  <1>3. ASSUME NEW w \in Workers, Handle(w)
        PROVE  VerdictInv' /\ BatchInv'
    BY <1>3, HandleDrop
  <1>4. ASSUME NEW w \in Workers, worker' = [worker EXCEPT ![w] = Idle], UNCHANGED processed
        PROVE  VerdictInv' /\ BatchInv'
    <2>1. worker'[w] = Idle /\ \A v \in Workers \ {w} : worker'[v] = worker[v]
      BY <1>4, OthersStay
    <2>2. Accounted(Idle, processed)
      BY DEF Accounted, Idle
    <2>3. BatchInv'
      BY <1>4, <2>1, <2>2 DEF BatchInv
    <2>4. VerdictInv'
      BY <1>4, <2>1 DEF VerdictInv, Current, Idle
    <2> QED
      BY <2>3, <2>4
  <1>5. ASSUME NEW w \in Workers, Return(w)
        PROVE  VerdictInv' /\ BatchInv'
    BY <1>4, <1>5 DEF Return
  <1>6. ASSUME NEW w \in Workers, Crash(w)
        PROVE  VerdictInv' /\ BatchInv'
    BY <1>4, <1>6 DEF Crash
  <1>7. ASSUME NEW m \in Messages, Reappear(m) \/ Redrive(m)
        PROVE  VerdictInv' /\ BatchInv'
    <2>1. UNCHANGED <<worker, processed>>
      BY <1>7 DEF Reappear, Redrive
    <2> QED
      BY <2>1 DEF VerdictInv, BatchInv, Accounted, Current
  <1>8. CASE UNCHANGED vars
    BY <1>8 DEF vars, VerdictInv, BatchInv, Accounted, Current
  <1> QED
    BY <1>2, <1>3, <1>5, <1>6, <1>7, <1>8 DEF Next, Deliver

LEMMA DropInit == Init => DropInv
  <1> SUFFICES ASSUME Init PROVE DropInv
    OBVIOUS
  <1> USE AggregatorAssumption DEF Init
  <1>1. Idle \in Invocation
    BY EmptySeq DEF Idle, Invocation, Steps
  <1>2. NoRow \in Row /\ CreatedRow \in Row
    BY DEF NoRow, CreatedRow, Row
  <1>3. /\ rows \in [Proposals -> Row]
        /\ worker \in [Workers -> Invocation]
    BY <1>1, <1>2
  <1>4. activity \in [Voters -> [Proposals -> Participation]]
    <2>1. \A b \in BOOLEAN : [NoParticipation EXCEPT !.has_map = b] \in Participation
      BY DEF Participation, NoParticipation
    <2>2. \A v \in Voters : (v \in VoterMaps) \in BOOLEAN
      OBVIOUS
    <2>3. \A v \in Voters : [NoParticipation EXCEPT !.has_map = v \in VoterMaps] \in Participation
      BY <2>1, <2>2
    <2> QED
      BY <2>3
  <1>5. queue \in [Messages -> MessageState] /\ processed \subseteq Ids
    BY DEF MessageState
  <1>6. HandlesRecords
    BY DEF HandlesRecords, Busy, Idle
  <1>7. VerdictInv /\ BatchInv
    BY DEF VerdictInv, BatchInv, Accounted, Idle
  <1> QED
    BY <1>3, <1>4, <1>5, <1>6, <1>7 DEF DropInv, TypeInv, TypeOK

LEMMA DropInvariant == Spec => []DropInv
  <1>1. DropInv /\ [Next]_vars => DropInv'
    BY DropStep
  <1> QED
    BY <1>1, DropInit, PTL DEF Spec

\* Tables, messages and invocations hold values of their types, for any number of
\* messages and invocations, any batch size and any faults.
THEOREM TypeCorrect == Spec => []TypeOK
  <1>1. DropInv => TypeOK
    BY DEF DropInv, TypeInv
  <1> QED
    BY <1>1, DropInvariant, PTL

------------------------------------------------------------------------------
(* Results are visible at the end only.                                     *)

\* No repository call shows the results of a row that has not ended.
LEMMA CallsKeepEnd ==
  ASSUME NEW row \in Row, NEW o \in Options,
         row.results_visible => row.phase \in {"finalized", "closed"}
  PROVE  \A after \in {AfterCreated(row), AfterRevealed(row, o), AfterUndoRevealed(row, o),
                       AfterFinalized(row), AfterClosed(row)} :
           after.results_visible => after.phase \in {"finalized", "closed"}
  <1> DEFINE Good(r) == r.results_visible => r.phase \in {"finalized", "closed"}
  <1>1. Good(AfterCreated(row)) /\ Good(AfterFinalized(row)) /\ Good(AfterClosed(row))
    BY DEF AfterCreated, CreatedRow, AfterFinalized, AfterClosed, Row
  <1>2. Good(AfterUndoRevealed(row, o))
    BY DEF AfterUndoRevealed, Row
  <1>3. row.phase \in {"finalized", "closed"} => PhaseAfterRevealed(row.phase) = row.phase
    BY DEF PhaseAfterRevealed
  <1>4. Good(AfterRevealed(row, o))
    BY <1>3 DEF AfterRevealed, Row
  <1> QED
    BY <1>1, <1>2, <1>4

\* A handler leaves the row of its proposal as it was, or as one call leaves it.
LEMMA HandleRow ==
  ASSUME TypeInv, NEW w \in Workers, Handle(w)
  PROVE  \/ rows' = rows
         \/ \E after \in {AfterCreated(RowOf(w)), AfterRevealed(RowOf(w), EventAt(w).option),
                          AfterUndoRevealed(RowOf(w), EventAt(w).option),
                          AfterFinalized(RowOf(w)), AfterClosed(RowOf(w))} :
              rows' = [rows EXCEPT ![EventAt(w).proposal] = after]
  <1>1. CASE Check(w) \/ Mark(w)
    BY <1>1 DEF Check, Mark
  <1>2. CASE ApplyCommitted(w) \/ Record(w) \/ Unrecord(w)
    BY <1>2 DEF ApplyCommitted, Record, Unrecord, WriteActivity
  <1>3. ASSUME NEW accepts, NEW row, NEW onDone, NEW onError,
               WriteRow(w, accepts, row, onDone, onError)
        PROVE  rows' = rows \/ rows' = [rows EXCEPT ![EventAt(w).proposal] = row]
    BY <1>3 DEF WriteRow
  <1>4. CASE ApplyCreated(w)
    BY <1>3, <1>4 DEF ApplyCreated
  <1>5. CASE ApplyRevealed(w)
    BY <1>3, <1>5 DEF ApplyRevealed
  <1>6. CASE ApplyEnded(w)
    BY <1>3, <1>6 DEF ApplyEnded
  <1>7. CASE Undo(w)
    BY <1>3, <1>7 DEF Undo
  <1>8. CASE Unapply(w)
    BY <1>3, <1>8 DEF Unapply
  <1> QED
    BY <1>1, <1>2, <1>4, <1>5, <1>6, <1>7, <1>8 DEF Handle

\* Steps of the queue and of its deliveries leave the tables alone.
LEMMA DeliveryStep ==
  ASSUME [Next]_vars
  PROVE  \/ \E w \in Workers : Handle(w)
         \/ UNCHANGED <<processed, rows>>
  BY DEF Next, Deliver, Receive, Return, Crash, Reappear, Redrive, vars

\* Results show for proposals that have ended only, with either backend, any faults
\* and any order of events.
THEOREM VisibleCorrect == Spec => []VisibleMeansEnded
  <1>1. Init => VisibleMeansEnded
    BY DEF Init, VisibleMeansEnded, NoRow, CreatedRow
  <1>2. TypeInv /\ VisibleMeansEnded /\ [Next]_vars => VisibleMeansEnded'
    <2> SUFFICES ASSUME TypeInv, VisibleMeansEnded, [Next]_vars
                 PROVE  VisibleMeansEnded'
      OBVIOUS
    <2>1. CASE UNCHANGED rows
      BY <2>1 DEF VisibleMeansEnded
    <2>2. ASSUME NEW w \in Workers, Handle(w)
          PROVE  VisibleMeansEnded'
      <3>1. /\ EventAt(w).proposal \in Proposals /\ EventAt(w).option \in Options
            /\ RowOf(w) \in Row
            /\ RowOf(w).results_visible => RowOf(w).phase \in {"finalized", "closed"}
        <4>1. worker[w].pc \in Busy
          BY <2>2 DEF Handle, Check, ApplyCreated, ApplyCommitted, ApplyRevealed, ApplyEnded,
                      Record, Undo, Mark, Unrecord, Unapply, Busy
        <4>2. EventAt(w).proposal \in Proposals /\ EventAt(w).option \in Options
          BY <4>1, CurrentType DEF Event
        <4> QED
          BY <4>2 DEF RowOf, VisibleMeansEnded, TypeInv, TypeOK
      <3>2. CASE rows' = rows
        BY <3>2 DEF VisibleMeansEnded
      <3>3. ASSUME NEW after,
                   rows' = [rows EXCEPT ![EventAt(w).proposal] = after],
                   after.results_visible => after.phase \in {"finalized", "closed"}
            PROVE  VisibleMeansEnded'
        BY <3>1, <3>3 DEF VisibleMeansEnded, TypeInv, TypeOK
      <3> QED
        BY <2>2, <3>1, <3>2, <3>3, CallsKeepEnd, HandleRow
    <2> QED
      BY <2>1, <2>2, DeliveryStep
  <1>3. DropInv => TypeInv
    BY DEF DropInv
  <1> QED
    BY <1>1, <1>2, <1>3, DropInvariant, PTL DEF Spec

------------------------------------------------------------------------------
(* The tally.                                                               *)

\* No ProposalCreated is projected late or again: one would reset the counters.
NoCreation == \A e \in Events : e.type # "ProposalCreated"

\* Two events have two ids.
IdsNameEvents == \A e, f \in Events : e.id = f.id => e = f

\* The steps between the increment of a tally and its marker or its undoing.
Uncertain == {"record", "undo", "mark", "unrecord", "unapply"}

\* The second write, the undo and the end of a rollback are those of a reveal.
KindInv ==
  \A w \in Workers :
    /\ worker[w].pc \in {"record", "undo", "unapply"} => EventAt(w).type = "VoteRevealed"
    /\ worker[w].pc = "unrecord" => EventAt(w).type \in {"VoteCommitted", "VoteRevealed"}

\* The votes for option o of p that are marked.
MarkedVotes(p, o) == {e \in Reveals(p, o) : e.id \in processed}

LEMMA EventsFinite ==
  /\ IsFiniteSet(Events)
  /\ \A p \in Proposals, o \in Options :
       /\ IsFiniteSet(Reveals(p, o)) /\ IsFiniteSet(MarkedVotes(p, o))
       /\ IsFiniteSet(Pending(p, o))
       /\ Marked(p, o) \in Nat /\ Cardinality(Pending(p, o)) \in Nat
  <1>1. IsFiniteSet(Events)
    <2>1. EventOf \in Surjection(Messages, Events)
      BY AggregatorAssumption DEF Surjection, Events
    <2> QED
      BY <2>1, FS_Surjection, AggregatorAssumption
  <1>2. ASSUME NEW p \in Proposals, NEW o \in Options
        PROVE  /\ IsFiniteSet(Reveals(p, o)) /\ IsFiniteSet(MarkedVotes(p, o))
               /\ IsFiniteSet(Pending(p, o))
               /\ Marked(p, o) \in Nat /\ Cardinality(Pending(p, o)) \in Nat
    <2>1. /\ Reveals(p, o) \subseteq Events /\ MarkedVotes(p, o) \subseteq Events
          /\ Pending(p, o) \subseteq Workers
      BY DEF Reveals, MarkedVotes, Pending
    <2>2. /\ IsFiniteSet(Reveals(p, o)) /\ IsFiniteSet(MarkedVotes(p, o))
          /\ IsFiniteSet(Pending(p, o))
      BY <1>1, <2>1, FS_Subset, AggregatorAssumption
    <2>3. Marked(p, o) = Cardinality(MarkedVotes(p, o))
      BY DEF Marked, MarkedVotes
    <2> QED
      BY <2>2, <2>3, FS_CardinalityType
  <1> QED
    BY <1>1, <1>2

\* A step of w changes the pending invocations by w only.
LEMMA PendingStep ==
  ASSUME TypeInv, NEW w \in Workers, NEW inv, worker' = [worker EXCEPT ![w] = inv],
         NEW p \in Proposals, NEW o \in Options
  PROVE  Cardinality(Pending(p, o))' =
           IF w \in Pending(p, o)
           THEN IF w \in Pending(p, o)' THEN Cardinality(Pending(p, o))
                                        ELSE Cardinality(Pending(p, o)) - 1
           ELSE IF w \in Pending(p, o)' THEN Cardinality(Pending(p, o)) + 1
                                        ELSE Cardinality(Pending(p, o))
  <1> DEFINE before == Pending(p, o)
             after == Pending(p, o)'
  <1>1. \A v \in Workers \ {w} : v \in after <=> v \in before
    BY OthersStay DEF Pending, EventAt, Current, Reveals, Events
  <1>2. before \subseteq Workers /\ after \subseteq Workers
    BY DEF Pending
  <1>3. IsFiniteSet(before) /\ Cardinality(before) \in Nat
    BY EventsFinite
  <1>4. Cardinality(Pending(p, o))' = Cardinality(after)
    OBVIOUS
  <1> HIDE DEF before, after
  <1>5. CASE (w \in before) = (w \in after)
    <2>1. after = before
      BY <1>1, <1>2, <1>5
    <2> QED
      BY <1>4, <1>5, <2>1 DEF before, after
  <1>6. CASE w \in before /\ w \notin after
    <2>1. after = before \ {w}
      BY <1>1, <1>2, <1>6
    <2> QED
      BY <1>3, <1>4, <1>6, <2>1, FS_RemoveElement DEF before, after
  <1>7. CASE w \notin before /\ w \in after
    <2>1. after = before \cup {w}
      BY <1>1, <1>2, <1>7
    <2> QED
      BY <1>3, <1>4, <1>7, <2>1, FS_AddElement DEF before, after
  <1> QED
    BY <1>5, <1>6, <1>7

\* A new marker counts its vote, and no other.
LEMMA MarkedStep ==
  ASSUME IdsNameEvents, NEW e \in Events, e.id \notin processed,
         processed' = processed \cup {e.id}, NEW p \in Proposals, NEW o \in Options
  PROVE  Marked(p, o)' = IF e \in Reveals(p, o) THEN Marked(p, o) + 1 ELSE Marked(p, o)
  <1>1. MarkedVotes(p, o)' =
          IF e \in Reveals(p, o) THEN MarkedVotes(p, o) \cup {e} ELSE MarkedVotes(p, o)
    BY DEF IdsNameEvents, MarkedVotes, Reveals, Events
  <1>2. IsFiniteSet(MarkedVotes(p, o)) /\ e \notin MarkedVotes(p, o)
    BY EventsFinite DEF MarkedVotes
  <1>3. /\ Marked(p, o) = Cardinality(MarkedVotes(p, o))
        /\ Marked(p, o)' = Cardinality(MarkedVotes(p, o)')
    BY DEF Marked, MarkedVotes
  <1>4. Cardinality(MarkedVotes(p, o) \cup {e}) = Cardinality(MarkedVotes(p, o)) + 1
    BY <1>2, FS_AddElement
  <1> QED
    BY <1>1, <1>3, <1>4

\* What the record of an invocation is does not change while it is handled.
LEMMA KindStep ==
  ASSUME TypeInv, KindInv, [Next]_vars
  PROVE  KindInv'
  <1> DEFINE Kind(inv) ==
               /\ inv.pc \in {"record", "undo", "unapply"} =>
                    EventOf[Head(inv.todo)].type = "VoteRevealed"
               /\ inv.pc = "unrecord" =>
                    EventOf[Head(inv.todo)].type \in {"VoteCommitted", "VoteRevealed"}
  <1>1. \A w \in Workers : Kind(worker[w])
    BY DEF KindInv, EventAt, Current
  <1>2. ASSUME NEW w \in Workers, NEW inv, worker' = [worker EXCEPT ![w] = inv], Kind(inv)
        PROVE  KindInv'
    BY <1>1, <1>2, OthersStay DEF KindInv, EventAt, Current
  <1>3. ASSUME NEW w \in Workers, NEW batch, Receive(w, batch)
        PROVE  KindInv'
    <2> DEFINE inv == [Idle EXCEPT !.pc = "check", !.batch = {batch[i] : i \in DOMAIN batch},
                                   !.todo = batch]
    <2>1. worker' = [worker EXCEPT ![w] = inv] /\ inv.pc = "check"
      BY <1>3 DEF Receive, Idle
    <2> HIDE DEF inv
    <2> QED
      BY <1>2, <2>1
  <1>4. ASSUME NEW w \in Workers, Return(w) \/ Crash(w)
        PROVE  KindInv'
    BY <1>2, <1>4 DEF Return, Crash, Idle
  <1>5. ASSUME NEW w \in Workers, Handle(w)
        PROVE  KindInv'
    <2>1. worker[w].pc \in Busy
      BY <1>5 DEF Handle, Check, ApplyCreated, ApplyCommitted, ApplyRevealed, ApplyEnded,
                  Record, Undo, Mark, Unrecord, Unapply, Busy
    <2>2. worker[w] \in Invocation
      BY <2>1, CurrentType
    <2>3. \A verdict \in {"done", "failed"} : Kind(Ends(w, verdict))
      BY <2>1, EndsType
    <2>4. \A pc \in {"apply", "mark"} : Kind(GoesTo(w, pc))
      BY <2>2 DEF GoesTo, Invocation
    <2>5. EventAt(w).type = "VoteRevealed" =>
            \A pc \in {"record", "undo", "unapply"} : Kind(GoesTo(w, pc))
      BY <2>2 DEF GoesTo, Invocation, EventAt, Current
    <2>6. \A verdict \in {"done", "failed"} : Kind(RolledBack(w, verdict))
      BY <2>2, <2>3 DEF RolledBack, Invocation, EventAt, Current
    <2>7. worker[w].verdict \in {"done", "failed"}
      BY <2>2 DEF Invocation
    <2> HIDE DEF Kind
    <2>8. ASSUME NEW accepts, NEW row, NEW onDone, NEW onError,
                 WriteRow(w, accepts, row, onDone, onError), Kind(onDone), Kind(onError)
          PROVE  KindInv'
      <3>1. \E inv : Kind(inv) /\ worker' = [worker EXCEPT ![w] = inv]
        BY <2>8 DEF WriteRow
      <3> QED
        BY <1>2, <3>1
    <2>9. ASSUME NEW flag, NEW value, NEW onDone, NEW onError,
                 WriteActivity(w, flag, value, onDone, onError), Kind(onDone), Kind(onError)
          PROVE  KindInv'
      <3>1. \E inv : Kind(inv) /\ worker' = [worker EXCEPT ![w] = inv]
        BY <2>9 DEF WriteActivity
      <3> QED
        BY <1>2, <3>1
    <2>10. CASE Check(w)
      <3>1. \E inv \in {Ends(w, "failed"), Ends(w, "done"), GoesTo(w, "apply")} :
              worker' = [worker EXCEPT ![w] = inv]
        BY <2>10 DEF Check, Outcomes
      <3> QED
        BY <1>2, <2>3, <2>4, <3>1
    <2>11. CASE ApplyCreated(w) \/ ApplyEnded(w)
      BY <2>3, <2>4, <2>8, <2>11 DEF ApplyCreated, ApplyEnded
    <2>12. CASE ApplyRevealed(w)
      BY <2>3, <2>5, <2>8, <2>12 DEF ApplyRevealed
    <2>13. CASE ApplyCommitted(w)
      BY <2>3, <2>4, <2>9, <2>13 DEF ApplyCommitted
    <2>14. CASE Record(w)
      BY <2>4, <2>5, <2>9, <2>14 DEF Record, KindInv
    <2>15. CASE Undo(w)
      BY <2>3, <2>8, <2>15 DEF Undo
    <2>16. CASE Mark(w)
      <3>1. \E inv \in {RolledBack(w, "done"), RolledBack(w, "failed"), Ends(w, "done")} :
              worker' = [worker EXCEPT ![w] = inv]
        BY <2>16 DEF Mark, AfterMarked
      <3> QED
        BY <1>2, <2>3, <2>6, <3>1
    <2>17. CASE Unrecord(w)
      BY <2>3, <2>5, <2>7, <2>9, <2>17 DEF Unrecord
    <2>18. CASE Unapply(w)
      BY <2>3, <2>7, <2>8, <2>18 DEF Unapply
    <2> QED
      BY <1>5, <2>10, <2>11, <2>12, <2>13, <2>14, <2>15, <2>16, <2>17, <2>18 DEF Handle
  <1>6. CASE UNCHANGED worker
    BY <1>6 DEF KindInv, EventAt, Current
  <1> QED
    BY <1>3, <1>4, <1>5, <1>6 DEF Next, Deliver, Reappear, Redrive, vars

\* The increments that are held, neither marked nor undone.
Held(p, o) == Cardinality(Pending(p, o))

\* A step marks a held vote for option o of p, ...
Marks(p, o) ==
  \E w \in Workers :
    /\ worker[w].pc = "mark" /\ EventAt(w) \in Reveals(p, o)
    /\ EventAt(w).id \notin processed
    /\ processed' = processed \cup {EventAt(w).id}

\* ... or marks no such vote.
MarksOther(p, o) ==
  \/ processed' = processed
  \/ \E e \in Events \ Reveals(p, o) :
       e.id \notin processed /\ processed' = processed \cup {e.id}

\* By how much a step changes the tally, the marked votes and the held increments.
Changes(p, o, counted, marked, held) ==
  /\ Counted(p, o)' = Counted(p, o) + counted
  /\ IF marked = 1 THEN Marks(p, o) ELSE MarksOther(p, o)
  /\ Held(p, o)' = Held(p, o) + held

\* A ProposalCreated, late or again, empties the tally.
Empties(p, o) ==
  /\ \E e \in Events : e.type = "ProposalCreated" /\ e.proposal = p
  /\ Counted(p, o)' = 0 /\ MarksOther(p, o) /\ Held(p, o)' = Held(p, o)

IsAbandoned(p, o) == \E w \in Workers : Abandons(w, p, o)

\* What a step may do to the votes of one option: nothing, count one and hold it,
\* count one whose response is lost, take back a held one, abandon it, mark a held
\* one and let go of it or (the response is lost) not, or, by a ProposalCreated,
\* empty the tally.
TallyStep(p, o) ==
  \/ Changes(p, o, 0, 0, 0)
  \/ Changes(p, o, 1, 0, 1) /\ rows'[p].has_counts
  \/ Changes(p, o, 1, 0, 0) /\ "lost_update" \in Faults /\ IsAbandoned(p, o)
  \/ Changes(p, o, -1, 0, -1) /\ Held(p, o) >= 1
  \/ /\ Changes(p, o, 0, 0, -1)
     /\ Held(p, o) >= 1
     /\ \/ Dynamo /\ ~rows[p].has_counts
        \/ Faults \cap {"crash", "refuse"} # {}
        \/ Counted(p, o) <= 0
     /\ Counted(p, o) > 0 => IsAbandoned(p, o)
  \/ Changes(p, o, 0, 1, -1)
  \/ Changes(p, o, 0, 1, 0) /\ "lost_marker" \in Faults
  \/ Empties(p, o)

\* The counters of one option after each call.
LEMMA CountAfter ==
  ASSUME NEW row \in Row, NEW o \in Options, NEW other \in Options
  PROVE  /\ row.option_counts[o] \in Int
         /\ AfterFinalized(row).option_counts = row.option_counts
         /\ AfterClosed(row).option_counts = row.option_counts
         /\ AfterRevealed(row, other).option_counts[o] =
              IF o = other THEN row.option_counts[o] + 1 ELSE row.option_counts[o]
         /\ AfterUndoRevealed(row, other).option_counts[o] =
              IF o = other /\ (Dynamo \/ row.option_counts[o] > 0)
              THEN row.option_counts[o] - 1 ELSE row.option_counts[o]
  <1>1. row.option_counts \in [Options -> Int]
    BY DEF Row
  <1> QED
    BY <1>1 DEF AfterFinalized, AfterClosed, AfterRevealed, AfterUndoRevealed, Row

\* Every step of a handler is such a step for every option.
LEMMA HandleTally ==
  ASSUME TypeInv, KindInv,
         NEW w \in Workers, Handle(w), NEW p \in Proposals, NEW o \in Options
  PROVE  TallyStep(p, o)
  <1> DEFINE e == EventAt(w)
             own == e \in Reveals(p, o)
             holds == w \in Pending(p, o)
             holdsNext == w \in Pending(p, o)'
  <1>1. worker[w].pc \in Busy
    BY DEF Handle, Check, ApplyCreated, ApplyCommitted, ApplyRevealed, ApplyEnded,
           Record, Undo, Mark, Unrecord, Unapply, Busy
  <1>2. /\ worker[w] \in Invocation /\ e \in Event /\ e \in Events
        /\ e.proposal \in Proposals /\ e.option \in Options /\ RowOf(w) \in Row
        /\ rows \in [Proposals -> Row]
    BY <1>1, CurrentType DEF TypeInv, TypeOK, Event, RowOf
  <1>3. /\ Held(p, o) \in Nat /\ Counted(p, o) \in Int
        /\ holds => Held(p, o) >= 1
    <2>1. rows[p].option_counts \in [Options -> Int]
      BY <1>2 DEF Row
    <2>2. holds => Held(p, o) # 0
      BY EventsFinite, FS_EmptySet DEF Held
    <2> QED
      BY <2>1, <2>2, EventsFinite DEF Counted, Held
  <1>4. holds <=> own /\ worker[w].pc \in Uncertain
    BY DEF Pending, Uncertain
  <1>5. own <=> e.type = "VoteRevealed" /\ e.proposal = p /\ e.option = o
    BY <1>2 DEF Reveals
  <1>6. ASSUME NEW inv, worker' = [worker EXCEPT ![w] = inv]
        PROVE  Held(p, o)' = IF holds THEN IF holdsNext THEN Held(p, o) ELSE Held(p, o) - 1
                                      ELSE IF holdsNext THEN Held(p, o) + 1 ELSE Held(p, o)
    BY <1>6, PendingStep DEF Held
  <1>7. ASSUME NEW inv, worker' = [worker EXCEPT ![w] = inv], inv.todo = worker[w].todo
        PROVE  holdsNext <=> own /\ inv.pc \in Uncertain
    BY <1>7, OthersStay DEF Pending, EventAt, Current, Reveals, Events, Uncertain
  <1>8. ASSUME NEW inv, worker' = [worker EXCEPT ![w] = inv], inv.pc \notin Uncertain
        PROVE  ~holdsNext
    BY <1>8, OthersStay DEF Pending, Uncertain
  <1>9. \A verdict \in {"done", "failed"} : Ends(w, verdict).pc \notin Uncertain
    BY <1>1, EndsType DEF Uncertain
  <1>10. \A pc \in Steps : GoesTo(w, pc).todo = worker[w].todo /\ GoesTo(w, pc).pc = pc
    BY <1>2 DEF GoesTo, Invocation
  <1>11. processed' = processed => MarksOther(p, o)
    BY DEF MarksOther
  <1>12. rows' = rows => Counted(p, o)' = Counted(p, o)
    BY DEF Counted
  <1>13. ASSUME NEW row, rows' = [rows EXCEPT ![e.proposal] = row]
         PROVE  Counted(p, o)' = IF e.proposal = p THEN row.option_counts[o] ELSE Counted(p, o)
    BY <1>2, <1>13 DEF Counted
  <1>14. worker[w].verdict \in {"done", "failed"}
    BY <1>2 DEF Invocation
  <1> HIDE DEF e, own, holds, holdsNext
  <1>15. CASE Check(w)
    <2>1. UNCHANGED <<processed, rows>> /\ worker[w].pc = "check"
      BY <1>15 DEF Check
    <2>2. \E inv \in {Ends(w, "failed"), Ends(w, "done"), GoesTo(w, "apply")} :
            worker' = [worker EXCEPT ![w] = inv]
      BY <1>15 DEF Check, Outcomes
    <2>3. ~holds /\ ~holdsNext
      BY <1>4, <1>8, <1>9, <1>10, <2>1, <2>2 DEF Uncertain, Steps
    <2>4. Held(p, o)' = Held(p, o)
      BY <1>6, <2>2, <2>3
    <2>5. Counted(p, o)' = Counted(p, o) /\ MarksOther(p, o)
      BY <1>11, <1>12, <2>1
    <2>6. Changes(p, o, 0, 0, 0)
      BY <1>3, <2>4, <2>5 DEF Changes
    <2> QED
      BY <2>6 DEF TallyStep
  <1>16. CASE ApplyCreated(w)
    <2>1. ~own /\ e.type = "ProposalCreated"
      BY <1>5, <1>16 DEF ApplyCreated, e
    <2>2. \E inv : worker' = [worker EXCEPT ![w] = inv]
                   /\ inv \in {GoesTo(w, "mark"), Ends(w, "failed")}
      BY <1>16 DEF ApplyCreated, WriteRow
    <2>3. ~holds /\ ~holdsNext
      BY <1>4, <1>7, <1>8, <1>9, <1>10, <2>1, <2>2 DEF Uncertain, Steps
    <2>4. Held(p, o)' = Held(p, o) /\ MarksOther(p, o)
      BY <1>6, <1>11, <1>16, <2>2, <2>3 DEF ApplyCreated, WriteRow
    <2>5. rows' = rows \/ rows' = [rows EXCEPT ![e.proposal] = CreatedRow]
      BY <1>16 DEF ApplyCreated, WriteRow, AfterCreated, e
    <2>6. CASE rows' = rows \/ e.proposal # p
      <3>1. Counted(p, o)' = Counted(p, o)
        BY <1>12, <1>13, <2>5, <2>6
      <3>2. Changes(p, o, 0, 0, 0)
        BY <1>3, <2>4, <3>1 DEF Changes
      <3> QED
        BY <3>2 DEF TallyStep
    <2>7. CASE rows' = [rows EXCEPT ![e.proposal] = CreatedRow] /\ e.proposal = p
      <3>1. Counted(p, o)' = 0
        <4>1. CreatedRow.option_counts[o] = 0
          BY DEF CreatedRow
        <4> QED
          BY <1>13, <2>7, <4>1
      <3>2. Empties(p, o)
        BY <1>2, <2>1, <2>4, <2>7, <3>1 DEF Empties, e
      <3> QED
        BY <3>2 DEF TallyStep
    <2> QED
      BY <2>5, <2>6, <2>7
  <1>17. CASE ApplyCommitted(w) \/ ApplyEnded(w)
    <2>1. ~own
      BY <1>5, <1>17 DEF ApplyCommitted, ApplyEnded, e
    <2>2. \E inv : worker' = [worker EXCEPT ![w] = inv]
                   /\ inv \in {GoesTo(w, "mark"), Ends(w, "failed")}
      BY <1>17 DEF ApplyCommitted, ApplyEnded, WriteRow, WriteActivity
    <2>3. ~holds /\ ~holdsNext
      BY <1>4, <1>7, <1>8, <1>9, <1>10, <2>1, <2>2 DEF Uncertain, Steps
    <2>4. UNCHANGED processed /\ Counted(p, o)' = Counted(p, o)
      <3>1. CASE ApplyCommitted(w)
        BY <1>12, <3>1 DEF ApplyCommitted, WriteActivity
      <3>2. CASE ApplyEnded(w)
        <4>1. \/ rows' = rows
              \/ rows' = [rows EXCEPT ![e.proposal] = AfterFinalized(RowOf(w))]
              \/ rows' = [rows EXCEPT ![e.proposal] = AfterClosed(RowOf(w))]
          BY <3>2 DEF ApplyEnded, WriteRow, e
        <4>2. UNCHANGED processed
          BY <3>2 DEF ApplyEnded, WriteRow
        <4> QED
          BY <1>2, <1>12, <1>13, <4>1, <4>2, CountAfter DEF RowOf, Counted, e
      <3> QED
        BY <1>17, <3>1, <3>2
    <2>5. Held(p, o)' = Held(p, o)
      BY <1>6, <2>2, <2>3
    <2>6. Changes(p, o, 0, 0, 0)
      BY <1>3, <1>11, <2>4, <2>5 DEF Changes
    <2> QED
      BY <2>6 DEF TallyStep
  <1>18. CASE ApplyRevealed(w)
    <2>0. PICK ok \in Outcomes(RevealedAccepts(RowOf(w))) :
            \E answer \in Answers(ok) :
              /\ rows' = IF ok THEN [rows EXCEPT ![e.proposal] =
                                       AfterRevealed(RowOf(w), e.option)]
                               ELSE rows
              /\ worker' = [worker EXCEPT ![w] = IF answer THEN GoesTo(w, "record")
                                                           ELSE Ends(w, "failed")]
              /\ UNCHANGED processed
      BY <1>18 DEF ApplyRevealed, WriteRow, e
    <2>1. PICK answer \in Answers(ok) :
            /\ rows' = IF ok THEN [rows EXCEPT ![e.proposal] =
                                     AfterRevealed(RowOf(w), e.option)]
                             ELSE rows
            /\ worker' = [worker EXCEPT ![w] = IF answer THEN GoesTo(w, "record")
                                                         ELSE Ends(w, "failed")]
            /\ UNCHANGED processed
      BY <2>0
    <2>2. ~holds /\ e.type = "VoteRevealed"
      BY <1>4, <1>18 DEF ApplyRevealed, Uncertain, e
    <2>3. Counted(p, o)' = IF ok /\ own THEN Counted(p, o) + 1 ELSE Counted(p, o)
      BY <1>2, <1>5, <1>12, <1>13, <2>1, <2>2, CountAfter DEF Outcomes, RowOf, Counted, e
    <2>4. CASE answer
      <3>1. worker' = [worker EXCEPT ![w] = GoesTo(w, "record")]
        BY <2>1, <2>4
      <3>2. ok
        BY <2>1, <2>4 DEF Answers, Outcomes
      <3>3. holdsNext <=> own
        BY <1>7, <1>10, <3>1 DEF Uncertain, Steps
      <3>4. Held(p, o)' = IF own THEN Held(p, o) + 1 ELSE Held(p, o)
        BY <1>6, <2>2, <3>1, <3>3
      <3>5. IF own THEN Changes(p, o, 1, 0, 1) ELSE Changes(p, o, 0, 0, 0)
        BY <1>3, <1>11, <2>1, <2>3, <3>2, <3>4 DEF Changes
      <3>6. own => rows'[p].has_counts
        BY <1>2, <1>5, <2>1, <3>2 DEF AfterRevealed, Row
      <3> QED
        BY <3>5, <3>6 DEF TallyStep
    <2>5. CASE ~answer
      <3>1. worker' = [worker EXCEPT ![w] = Ends(w, "failed")]
        BY <2>1, <2>5
      <3>2. ok => "lost_update" \in Faults
        BY <2>1, <2>5 DEF Answers, Outcomes
      <3>3. ~holdsNext
        BY <1>8, <1>9, <3>1
      <3>4. Held(p, o)' = Held(p, o)
        BY <1>6, <2>2, <3>1, <3>3
      <3>5. IF ok /\ own THEN Changes(p, o, 1, 0, 0) ELSE Changes(p, o, 0, 0, 0)
        BY <1>3, <1>11, <2>1, <2>3, <3>4 DEF Changes
      <3>6. own => IsAbandoned(p, o)
        <4>1. worker'[w] = Ends(w, "failed")
          BY <3>1, OthersStay
        <4>2. worker'[w].pc # "record"
          BY <1>9, <4>1 DEF Uncertain
        <4> QED
          BY <1>18, <4>2 DEF IsAbandoned, Abandons, ApplyRevealed, own, e
      <3> QED
        BY <3>2, <3>5, <3>6 DEF TallyStep
    <2> QED
      BY <2>1, <2>4, <2>5 DEF Answers, Outcomes
  <1>19. CASE Record(w) \/ Unrecord(w)
    <2>1. UNCHANGED <<processed, rows>>
      BY <1>19 DEF Record, Unrecord, WriteActivity
    <2>2. e.type = "VoteRevealed" =>
            \E inv \in {GoesTo(w, "mark"), GoesTo(w, "undo"), GoesTo(w, "unapply")} :
              worker' = [worker EXCEPT ![w] = inv]
      BY <1>19 DEF Record, Unrecord, WriteActivity, e
    <2>3. worker[w].pc \in Uncertain
      BY <1>19 DEF Record, Unrecord, Uncertain
    <2>4. CASE own
      <3>1. holds /\ holdsNext
        BY <1>4, <1>5, <1>7, <1>10, <2>2, <2>3, <2>4 DEF Uncertain, Steps
      <3>2. Held(p, o)' = Held(p, o)
        BY <1>5, <1>6, <2>2, <2>4, <3>1
      <3>3. Changes(p, o, 0, 0, 0)
        BY <1>3, <1>11, <1>12, <2>1, <3>2 DEF Changes
      <3> QED
        BY <3>3 DEF TallyStep
    <2>5. CASE ~own
      <3>1. \E inv : /\ worker' = [worker EXCEPT ![w] = inv]
                     /\ inv.todo = worker[w].todo \/ inv.pc \notin Uncertain
        BY <1>9, <1>10, <1>14, <1>19 DEF Record, Unrecord, WriteActivity, Steps
      <3>2. ~holds /\ ~holdsNext
        BY <1>4, <1>7, <1>8, <2>5, <3>1
      <3>3. Held(p, o)' = Held(p, o)
        BY <1>6, <3>1, <3>2
      <3>4. Changes(p, o, 0, 0, 0)
        BY <1>3, <1>11, <1>12, <2>1, <3>3 DEF Changes
      <3> QED
        BY <3>4 DEF TallyStep
    <2> QED
      BY <2>4, <2>5
  <1>20. CASE Undo(w) \/ Unapply(w)
    <2>1. PICK ok \in Outcomes(RevealedAccepts(RowOf(w))) :
            /\ rows' = IF ok THEN [rows EXCEPT ![e.proposal] = AfterUndoRevealed(RowOf(w), e.option)]
                             ELSE rows
            /\ \E verdict \in {"done", "failed"} : worker' = [worker EXCEPT ![w] = Ends(w, verdict)]
            /\ UNCHANGED processed
      BY <1>14, <1>20 DEF Undo, Unapply, WriteRow, e
    <2>2. e.type = "VoteRevealed" /\ worker[w].pc \in Uncertain
      BY <1>20 DEF KindInv, Undo, Unapply, Uncertain, e
    <2>3. ~holdsNext /\ (holds <=> own)
      BY <1>4, <1>8, <1>9, <2>1, <2>2
    <2>4. Counted(p, o)' = IF ok /\ own /\ (Dynamo \/ Counted(p, o) > 0)
                           THEN Counted(p, o) - 1 ELSE Counted(p, o)
      BY <1>2, <1>5, <1>12, <1>13, <2>1, <2>2, CountAfter DEF Outcomes, RowOf, Counted, e
    <2>5. ~ok => \/ Dynamo /\ ~RowOf(w).has_counts
                 \/ Faults \cap {"crash", "refuse"} # {}
      BY <2>1 DEF Outcomes, RevealedAccepts
    <2>6. ok \in BOOLEAN
      BY <2>1 DEF Outcomes
    <2>7. Held(p, o)' = IF own THEN Held(p, o) - 1 ELSE Held(p, o)
      BY <1>6, <2>1, <2>3
    <2>8. CASE ~own
      <3>1. Changes(p, o, 0, 0, 0)
        BY <1>3, <1>11, <2>1, <2>4, <2>7, <2>8 DEF Changes
      <3> QED
        BY <3>1 DEF TallyStep
    <2>9. CASE own /\ ok /\ (Dynamo \/ Counted(p, o) > 0)
      <3>1. Changes(p, o, -1, 0, -1) /\ Held(p, o) >= 1
        BY <1>3, <1>11, <2>1, <2>3, <2>4, <2>7, <2>9 DEF Changes
      <3> QED
        BY <3>1 DEF TallyStep
    <2>10. CASE own /\ ~(ok /\ (Dynamo \/ Counted(p, o) > 0))
      <3>1. Changes(p, o, 0, 0, -1) /\ Held(p, o) >= 1
        BY <1>3, <1>11, <2>1, <2>3, <2>4, <2>7, <2>10 DEF Changes
      <3>2. Counted(p, o) > 0 \/ Counted(p, o) <= 0
        BY <1>3
      <3>3. RowOf(w) = rows[p]
        BY <1>5, <2>10 DEF RowOf, e
      <3>4. Counted(p, o) > 0 => IsAbandoned(p, o)
        <4>1. Counted(p, o) > 0 => rows' = rows
          BY <2>1, <2>6, <2>10
        <4>2. worker[w].pc \in {"undo", "unapply"}
          BY <1>20 DEF Undo, Unapply
        <4> QED
          BY <1>20, <2>10, <4>1, <4>2 DEF IsAbandoned, Abandons, own, e
      <3> QED
        BY <2>5, <2>6, <2>10, <3>1, <3>2, <3>3, <3>4 DEF TallyStep
    <2> QED
      BY <2>8, <2>9, <2>10
  <1>21. CASE Mark(w)
    <2>1. rows' = rows /\ worker[w].pc \in Uncertain
      BY <1>21 DEF Mark, Uncertain
    <2>2. ASSUME ~AlreadyProcessed(e), processed' = processed \cup {e.id}
          PROVE  IF own THEN Marks(p, o) ELSE MarksOther(p, o)
      <3>1. e.id \notin processed /\ worker[w].pc = "mark"
        BY <1>21, <2>2 DEF AlreadyProcessed, Mark
      <3> QED
        BY <1>2, <2>2, <3>1 DEF Marks, MarksOther, own, e
    <2>3. CASE /\ ~AlreadyProcessed(e)
               /\ processed' = processed \cup {e.id}
               /\ worker' = [worker EXCEPT ![w] = Ends(w, "done")]
      <3>1. worker' = [worker EXCEPT ![w] = Ends(w, "done")]
        BY <2>3
      <3>2. ~holdsNext /\ (holds <=> own)
        BY <1>4, <1>8, <1>9, <2>1, <3>1
      <3>3. IF own THEN Marks(p, o) ELSE MarksOther(p, o)
        BY <2>3, <2>2
      <3>4. Held(p, o)' = IF own THEN Held(p, o) - 1 ELSE Held(p, o)
        BY <1>6, <3>1, <3>2
      <3>5. IF own THEN Changes(p, o, 0, 1, -1) ELSE Changes(p, o, 0, 0, 0)
        BY <1>3, <1>12, <2>1, <3>3, <3>4 DEF Changes
      <3> QED
        BY <3>5 DEF TallyStep
    <2>4. CASE /\ \E verdict \in {"done", "failed"} :
                    worker' = [worker EXCEPT ![w] = RolledBack(w, verdict)]
               /\ \/ UNCHANGED processed
                  \/ /\ ~AlreadyProcessed(e) /\ processed' = processed \cup {e.id}
                     /\ "lost_marker" \in Faults
      <3>1. PICK verdict \in {"done", "failed"} :
              worker' = [worker EXCEPT ![w] = RolledBack(w, verdict)]
        BY <2>4
      <3>2. \/ MarksOther(p, o)
            \/ own /\ Marks(p, o) /\ "lost_marker" \in Faults
        BY <1>11, <2>4, <2>2
      <3>3. CASE own
        <4>1. /\ RolledBack(w, verdict).pc = "unrecord"
              /\ RolledBack(w, verdict).todo = worker[w].todo
          BY <1>2, <1>5, <3>3 DEF RolledBack, Invocation, e
        <4>2. holds /\ holdsNext
          BY <1>4, <1>7, <2>1, <3>1, <3>3, <4>1 DEF Uncertain
        <4>3. Held(p, o)' = Held(p, o)
          BY <1>6, <3>1, <4>2
        <4>4. \/ Changes(p, o, 0, 0, 0)
              \/ Changes(p, o, 0, 1, 0) /\ "lost_marker" \in Faults
          BY <1>3, <1>12, <2>1, <3>2, <4>3 DEF Changes
        <4> QED
          BY <4>4 DEF TallyStep
      <3>4. CASE ~own
        <4>1. \/ RolledBack(w, verdict).todo = worker[w].todo
              \/ RolledBack(w, verdict).pc \notin Uncertain
          BY <1>2, <1>9 DEF RolledBack, Invocation
        <4>2. ~holds /\ ~holdsNext
          BY <1>4, <1>7, <1>8, <3>1, <3>4, <4>1
        <4>3. Held(p, o)' = Held(p, o)
          BY <1>6, <3>1, <4>2
        <4>4. Changes(p, o, 0, 0, 0)
          BY <1>3, <1>12, <2>1, <3>2, <3>4, <4>3 DEF Changes
        <4> QED
          BY <4>4 DEF TallyStep
      <3> QED
        BY <3>3, <3>4
    <2>5. \/ /\ ~AlreadyProcessed(e) /\ processed' = processed \cup {e.id}
             /\ \E inv \in AfterMarked(w) : worker' = [worker EXCEPT ![w] = inv]
          \/ /\ \E verdict \in {"done", "failed"} :
                  worker' = [worker EXCEPT ![w] = RolledBack(w, verdict)]
             /\ UNCHANGED processed
      BY <1>21 DEF Mark, e
    <2>6. \A inv \in AfterMarked(w) :
            \/ inv = Ends(w, "done")
            \/ /\ "lost_marker" \in Faults
               /\ \E verdict \in {"done", "failed"} : inv = RolledBack(w, verdict)
      BY DEF AfterMarked
    <2> QED
      BY <2>3, <2>4, <2>5, <2>6
  <1> QED
    BY <1>15, <1>16, <1>17, <1>18, <1>19, <1>20, <1>21 DEF Handle

\* Deliveries count nothing; a crash forgets what its invocation held.
LEMMA EveryTallyStep ==
  ASSUME TypeInv, KindInv, [Next]_vars, NEW p \in Proposals, NEW o \in Options
  PROVE  TallyStep(p, o)
  <1>1. CASE \E w \in Workers : Handle(w)
    BY <1>1, HandleTally
  <1>2. /\ Held(p, o) \in Nat
        /\ TypeOK => Counted(p, o) \in Int
    BY EventsFinite DEF TypeOK, Row, Counted, Held
  <1>3. ASSUME UNCHANGED <<processed, rows>>
        PROVE  Counted(p, o)' = Counted(p, o) /\ MarksOther(p, o)
    BY <1>3 DEF Counted, MarksOther
  <1>4. ASSUME NEW w \in Workers, NEW inv, worker' = [worker EXCEPT ![w] = inv],
               worker[w].pc \notin Uncertain, inv.pc \notin Uncertain,
               UNCHANGED <<processed, rows>>
        PROVE  TallyStep(p, o)
    <2>1. w \notin Pending(p, o) /\ w \notin Pending(p, o)'
      BY <1>4, OthersStay DEF Pending, Uncertain
    <2>2. Held(p, o)' = Held(p, o)
      BY <1>4, <2>1, PendingStep DEF Held
    <2>3. Changes(p, o, 0, 0, 0)
      BY <1>2, <1>3, <1>4, <2>2 DEF Changes, TypeInv
    <2> QED
      BY <2>3 DEF TallyStep
  <1>5. ASSUME NEW w \in Workers, NEW batch, Receive(w, batch)
        PROVE  TallyStep(p, o)
    <2> DEFINE inv == [Idle EXCEPT !.pc = "check", !.batch = {batch[i] : i \in DOMAIN batch},
                                   !.todo = batch]
    <2>1. /\ worker' = [worker EXCEPT ![w] = inv] /\ inv.pc = "check"
          /\ worker[w].pc = "idle" /\ UNCHANGED <<processed, rows>>
      BY <1>5 DEF Receive, Idle
    <2> HIDE DEF inv
    <2> QED
      BY <1>4, <2>1 DEF Uncertain
  <1>6. ASSUME NEW w \in Workers, Return(w)
        PROVE  TallyStep(p, o)
    BY <1>4, <1>6 DEF Return, Idle, Uncertain
  <1>7. ASSUME NEW w \in Workers, Crash(w)
        PROVE  TallyStep(p, o)
    <2>0. worker'[w] = Idle
      BY <1>7, OthersStay DEF Crash
    <2>1. w \notin Pending(p, o)'
      BY <2>0 DEF Pending, Idle
    <2>2. Held(p, o)' = IF w \in Pending(p, o) THEN Held(p, o) - 1 ELSE Held(p, o)
      BY <1>7, <2>1, PendingStep DEF Crash, Held
    <2>3. w \in Pending(p, o) => Held(p, o) >= 1
      <3>1. w \in Pending(p, o) => Held(p, o) # 0
        BY EventsFinite, FS_EmptySet DEF Held
      <3> QED
        BY <1>2, <3>1
    <2>4. Counted(p, o)' = Counted(p, o) /\ MarksOther(p, o)
      BY <1>3, <1>7 DEF Crash
    <2>5. IF w \in Pending(p, o) THEN Changes(p, o, 0, 0, -1) ELSE Changes(p, o, 0, 0, 0)
      BY <1>2, <2>2, <2>4 DEF Changes, TypeInv
    <2>6. w \in Pending(p, o) => IsAbandoned(p, o)
      BY <1>7 DEF IsAbandoned, Abandons, Pending
    <2> QED
      BY <1>7, <2>3, <2>5, <2>6 DEF TallyStep, Crash
  <1>8. CASE UNCHANGED <<processed, rows, worker>>
    <2>1. Held(p, o)' = Held(p, o)
      BY <1>8 DEF Held, Pending, EventAt, Current, Reveals, Events
    <2>2. Changes(p, o, 0, 0, 0)
      BY <1>2, <1>3, <1>8, <2>1 DEF Changes, TypeInv
    <2> QED
      BY <2>2 DEF TallyStep
  <1> QED
    BY <1>1, <1>5, <1>6, <1>7, <1>8 DEF Next, Deliver, Reappear, Redrive, vars

\* Where ids name events, such a step changes the marked votes by so much.
LEMMA MarkedChanges ==
  ASSUME TypeInv, IdsNameEvents, NEW p \in Proposals, NEW o \in Options
  PROVE  /\ Marks(p, o) => Marked(p, o)' = Marked(p, o) + 1
         /\ MarksOther(p, o) => Marked(p, o)' = Marked(p, o)
  <1>1. ASSUME Marks(p, o)
        PROVE  Marked(p, o)' = Marked(p, o) + 1
    <2>1. PICK w \in Workers :
            /\ EventAt(w) \in Reveals(p, o) /\ EventAt(w).id \notin processed
            /\ processed' = processed \cup {EventAt(w).id}
      BY <1>1 DEF Marks
    <2>2. EventAt(w) \in Events
      BY <2>1 DEF Reveals
    <2> QED
      BY <2>1, <2>2, MarkedStep
  <1>2. ASSUME MarksOther(p, o)
        PROVE  Marked(p, o)' = Marked(p, o)
    <2>1. CASE processed' = processed
      BY <2>1 DEF Marked, Reveals, Events
    <2>2. CASE processed' # processed
      BY <1>2, <2>2, MarkedStep DEF MarksOther
    <2> QED
      BY <2>1, <2>2
  <1> QED
    BY <1>1, <1>2

\* What is counted covers what is marked and what is held.
CoversMarks ==
  \A p \in Proposals, o \in Options : Counted(p, o) >= Marked(p, o) + Held(p, o)

LEMMA TallyInit ==
  ASSUME Init
  PROVE  /\ KindInv /\ ExactTally
         /\ \A p \in Proposals, o \in Options :
              Counted(p, o) = 0 /\ Marked(p, o) = 0 /\ Held(p, o) = 0
  <1>1. KindInv
    BY DEF Init, KindInv, Idle
  <1>2. ASSUME NEW p \in Proposals, NEW o \in Options
        PROVE  Counted(p, o) = 0 /\ Marked(p, o) = 0 /\ Held(p, o) = 0
    <2>1. Counted(p, o) = 0
      BY DEF Init, Counted, NoRow, CreatedRow
    <2>2. {e \in Reveals(p, o) : e.id \in processed} = {} /\ Pending(p, o) = {}
      BY DEF Init, Pending, Idle
    <2> QED
      BY <2>1, <2>2, FS_EmptySet DEF Marked, Held
  <1> QED
    BY <1>1, <1>2 DEF ExactTally, Held

LEMMA TallyTypes ==
  ASSUME TypeInv, NEW p \in Proposals, NEW o \in Options
  PROVE  Counted(p, o) \in Int /\ Marked(p, o) \in Nat /\ Held(p, o) \in Nat
  BY EventsFinite DEF TypeInv, TypeOK, Row, Counted, Held

\* A marked vote is in the tally, with either backend, through any crashes, failing
\* calls, lost responses to updates, duplicates and overlapping deliveries: only a
\* lost response to the marker itself and a late creation are excluded.
THEOREM NoUndercount ==
  ASSUME NoCreation, IdsNameEvents, "lost_marker" \notin Faults
  PROVE  Spec => []NeverUndercounts
  <1>1. Init => KindInv /\ CoversMarks
    <2> SUFFICES ASSUME Init PROVE KindInv /\ CoversMarks
      OBVIOUS
    <2>1. \A p \in Proposals, o \in Options :
            Counted(p, o) = 0 /\ Marked(p, o) = 0 /\ Held(p, o) = 0
      BY TallyInit
    <2> QED
      BY <2>1, TallyInit DEF CoversMarks
  <1>2. TypeInv /\ TypeInv' /\ KindInv /\ CoversMarks /\ [Next]_vars => KindInv' /\ CoversMarks'
    <2> SUFFICES ASSUME TypeInv, KindInv, CoversMarks, [Next]_vars,
                        NEW p \in Proposals, NEW o \in Options
                 PROVE  (Counted(p, o) >= Marked(p, o) + Held(p, o))'
      BY KindStep DEF CoversMarks
    <2>1. /\ Counted(p, o) \in Int /\ Marked(p, o) \in Nat /\ Held(p, o) \in Nat
          /\ Counted(p, o) >= Marked(p, o) + Held(p, o)
      BY TallyTypes DEF CoversMarks
    <2>2. \E c \in Int, m \in {0, 1}, h \in Int : Changes(p, o, c, m, h) /\ c >= m + h
      BY EveryTallyStep DEF TallyStep, Empties, NoCreation
    <2>3. PICK c \in Int, m \in {0, 1}, h \in Int :
            /\ c >= m + h
            /\ Counted(p, o)' = Counted(p, o) + c
            /\ Marked(p, o)' = Marked(p, o) + m
            /\ Held(p, o)' = Held(p, o) + h
      BY <2>1, <2>2, MarkedChanges DEF Changes
    <2> QED
      BY <2>1, <2>3
  <1>3. TypeInv /\ CoversMarks => NeverUndercounts
    <2> SUFFICES ASSUME TypeInv, CoversMarks, NEW p \in Proposals, NEW o \in Options
                 PROVE  Counted(p, o) >= Marked(p, o)
      BY DEF NeverUndercounts
    <2>1. Counted(p, o) >= Marked(p, o) + Held(p, o)
      BY DEF CoversMarks
    <2> QED
      BY <2>1, TallyTypes
  <1>4. DropInv => TypeInv
    BY DEF DropInv
  <1> QED
    BY <1>1, <1>2, <1>3, <1>4, DropInvariant, PTL DEF Spec

\* DynamoDB has a map of counters where increments are held.
MapInv ==
  \A p \in Proposals, o \in Options : Dynamo /\ Held(p, o) >= 1 => rows[p].has_counts

LEMMA MapStep ==
  ASSUME TypeInv, KindInv, MapInv, [Next]_vars
  PROVE  MapInv'
  <1> SUFFICES ASSUME NEW p \in Proposals, NEW o \in Options, Dynamo, Held(p, o)' >= 1
               PROVE  rows'[p].has_counts
    BY DEF MapInv, Dynamo
  <1>1. rows[p].has_counts => rows'[p].has_counts
    <2>1. CASE rows' = rows
      BY <2>1
    <2>2. ASSUME NEW w \in Workers, Handle(w), rows[p].has_counts
          PROVE  rows'[p].has_counts
      <3>1. /\ EventAt(w).proposal \in Proposals /\ EventAt(w).option \in Options
            /\ rows \in [Proposals -> Row] /\ RowOf(w) \in Row
        <4>1. worker[w].pc \in Busy
          BY <2>2 DEF Handle, Check, ApplyCreated, ApplyCommitted, ApplyRevealed, ApplyEnded,
                      Record, Undo, Mark, Unrecord, Unapply, Busy
        <4> QED
          BY <4>1, CurrentType DEF Event, TypeInv, TypeOK, RowOf
      <3> DEFINE Keeps(row) == RowOf(w).has_counts => row.has_counts
      <3>2. /\ Keeps(AfterRevealed(RowOf(w), EventAt(w).option))
            /\ Keeps(AfterUndoRevealed(RowOf(w), EventAt(w).option))
            /\ Keeps(AfterFinalized(RowOf(w))) /\ Keeps(AfterClosed(RowOf(w)))
            /\ Keeps(AfterCreated(RowOf(w)))
        BY <3>1 DEF AfterRevealed, AfterUndoRevealed, AfterFinalized, AfterClosed,
                    AfterCreated, CreatedRow, Row
      <3>3. ASSUME NEW row, rows' = [rows EXCEPT ![EventAt(w).proposal] = row], Keeps(row)
            PROVE  rows'[p].has_counts
        BY <2>2, <3>1, <3>3 DEF RowOf
      <3> HIDE DEF Keeps
      <3> QED
        BY <2>1, <2>2, <3>2, <3>3, HandleRow
    <2> QED
      BY <2>1, <2>2, DeliveryStep
  <1>2. Held(p, o) \in Nat
    BY EventsFinite DEF Held
  <1>3. Held(p, o) >= 1 \/ rows'[p].has_counts
    BY <1>2, EveryTallyStep DEF TallyStep, Changes, Empties
  <1> QED
    BY <1>1, <1>3 DEF MapInv

\* No call fails for reasons of its own, loses its response or is cut off: what is left
\* is the visibility timeout, stale reads of markers, and what a backend rejects.
Faultless == Faults \subseteq {"overlap"}

LEMMA ExactInvariant ==
  ASSUME NoCreation, IdsNameEvents, Faultless
  PROVE  Spec => [](TypeInv /\ KindInv /\ ExactTally)
  <1>1. Init => KindInv /\ MapInv /\ ExactTally
    BY TallyInit DEF MapInv
  <1>2. TypeInv /\ KindInv /\ MapInv /\ ExactTally /\ [Next]_vars =>
          KindInv' /\ MapInv' /\ ExactTally'
    <2> SUFFICES ASSUME TypeInv, KindInv, MapInv, ExactTally, [Next]_vars,
                        NEW p \in Proposals, NEW o \in Options
                 PROVE  (Counted(p, o) = Marked(p, o) + Held(p, o))'
      BY KindStep, MapStep DEF ExactTally, Held
    <2>1. /\ Counted(p, o) \in Int /\ Marked(p, o) \in Nat /\ Held(p, o) \in Nat
          /\ Counted(p, o) = Marked(p, o) + Held(p, o)
      BY TallyTypes DEF ExactTally, Held
    <2>2. Held(p, o) >= 1 => ~(Counted(p, o) <= 0) /\ ~(Dynamo /\ ~rows[p].has_counts)
      BY <2>1 DEF MapInv
    <2>3. /\ "lost_update" \notin Faults /\ "lost_marker" \notin Faults
          /\ ~Empties(p, o) /\ Faults \cap {"crash", "refuse"} = {}
      BY DEF Faultless, Empties, NoCreation
    <2>4. TallyStep(p, o)
      BY <2>3, EveryTallyStep
    <2>5. \/ Changes(p, o, 0, 0, 0) \/ Changes(p, o, 1, 0, 1)
          \/ Changes(p, o, -1, 0, -1) \/ Changes(p, o, 0, 1, -1)
      BY <2>2, <2>3, <2>4 DEF TallyStep
    <2> QED
      BY <2>1, <2>5, MarkedChanges DEF Changes
  <1>3. DropInv => TypeInv
    BY DEF DropInv
  <1> QED
    BY <1>1, <1>2, <1>3, DropInvariant, PTL DEF Spec

\* With either backend, as long as no call fails but those that the backend rejects, the
\* tally is the marked votes plus those being handled, for any number of duplicates and
\* overlapping invocations, stale reads, lost races and rejected votes, rollbacks included.
THEOREM TallyExact ==
  ASSUME NoCreation, IdsNameEvents, Faultless
  PROVE  Spec => []ExactTally
  BY ExactInvariant, PTL

\* Markers are made one at a time, for events that have none.
LEMMA OneMarker ==
  ASSUME TypeInv, [Next]_vars
  PROVE  \/ processed' = processed
         \/ \E e \in Events : e.id \notin processed /\ processed' = processed \cup {e.id}
  <1>1. ASSUME NEW w \in Workers, Mark(w)
        PROVE  \/ processed' = processed
               \/ \E e \in Events : e.id \notin processed /\ processed' = processed \cup {e.id}
    <2>1. EventAt(w) \in Events
      BY <1>1, CurrentType DEF Mark, Busy
    <2> QED
      BY <1>1, <2>1 DEF Mark, AlreadyProcessed
  <1>2. ASSUME NEW w \in Workers, Handle(w), ~Mark(w)
        PROVE  processed' = processed
    BY <1>2 DEF Handle, Check, ApplyCreated, ApplyCommitted, ApplyRevealed, ApplyEnded,
                Record, Undo, Unrecord, Unapply, WriteRow, WriteActivity
  <1> QED
    BY <1>1, <1>2, DeliveryStep

\* Where the tally is exact, what is settled of it is what is marked.
LEMMA SettledIsMarked ==
  ASSUME TypeInv, ExactTally
  PROVE  SettledTally = [b \in Proposals \X Options |-> Marked(b[1], b[2])]
  <1>1. ASSUME NEW b \in Proposals \X Options
        PROVE  Counted(b[1], b[2]) - Cardinality(Pending(b[1], b[2])) = Marked(b[1], b[2])
    <2>1. b[1] \in Proposals /\ b[2] \in Options
      OBVIOUS
    <2>2. Counted(b[1], b[2]) = Marked(b[1], b[2]) + Held(b[1], b[2])
      BY <2>1 DEF ExactTally, Held
    <2>3. Counted(b[1], b[2]) - Held(b[1], b[2]) = Marked(b[1], b[2])
      BY <2>1, <2>2, TallyTypes
    <2> QED
      BY <2>3 DEF Held
  <1> QED
    BY <1>1 DEF SettledTally

\* The Aggregator implements VoteCount: with the held increments set aside, votes
\* become part of the read model one at a time, each once, for its own option, in the
\* tables that are deployed as in the tests' store, whatever duplicates, overlapping
\* invocations and rejected updates do to one another's tallies.
THEOREM CountsVotes ==
  ASSUME NoCreation, IdsNameEvents, Faultless
  PROVE  Spec => ImplementsVoteCount
  <1>1. ASSUME Init, TypeInv, ExactTally
        PROVE  ReadModel!Init
    <2>1. CountedVotes = {}
      BY <1>1 DEF Init, CountedVotes
    <2>2. \A b \in Proposals \X Options : Marked(b[1], b[2]) = 0
      BY <1>1, TallyInit
    <2>3. SettledTally = [b \in Proposals \X Options |-> 0]
      BY <1>1, <2>2, SettledIsMarked
    <2> QED
      BY <2>1, <2>3 DEF ReadModel!Init
  <1>2. ASSUME TypeInv, ExactTally, TypeInv', ExactTally', [Next]_vars
        PROVE  [ReadModel!Next]_(ReadModel!voteVars)
    <2> DEFINE ballots == Proposals \X Options
    <2>1. SettledTally = [b \in ballots |-> Marked(b[1], b[2])]
      BY <1>2, SettledIsMarked
    <2>2. SettledTally' = [b \in ballots |-> Marked(b[1], b[2])']
      <3>1. \A b \in ballots :
              (Counted(b[1], b[2]) - Cardinality(Pending(b[1], b[2])))' = Marked(b[1], b[2])'
        <4> SUFFICES ASSUME NEW b \in ballots
                     PROVE  Counted(b[1], b[2])' - Held(b[1], b[2])' = Marked(b[1], b[2])'
          BY DEF Held
        <4>1. Counted(b[1], b[2])' = Marked(b[1], b[2])' + Held(b[1], b[2])'
          BY <1>2 DEF ExactTally, Held
        <4>2. Marked(b[1], b[2])' \in Nat /\ Held(b[1], b[2])' \in Nat
          <5>1. /\ {e \in Reveals(b[1], b[2]) : e.id \in processed}' \subseteq Events
                /\ Pending(b[1], b[2])' \subseteq Workers
            BY DEF Reveals, Events, Pending
          <5>2. /\ IsFiniteSet({e \in Reveals(b[1], b[2]) : e.id \in processed}')
                /\ IsFiniteSet(Pending(b[1], b[2])')
            BY <5>1, EventsFinite, FS_Subset, AggregatorAssumption
          <5> QED
            BY <5>2, FS_CardinalityType DEF Marked, Held
        <4> QED
          BY <4>1, <4>2
      <3> QED
        BY <3>1 DEF SettledTally
    <2>3. CASE processed' = processed
      <3>1. CountedVotes' = CountedVotes
        BY <2>3 DEF CountedVotes, RevealEvents, Events
      <3>2. \A b \in ballots : Marked(b[1], b[2])' = Marked(b[1], b[2])
        BY <2>3 DEF Marked, Reveals, Events
      <3>3. SettledTally' = SettledTally
        BY <2>1, <2>2, <3>2
      <3> QED
        BY <3>1, <3>3 DEF ReadModel!voteVars
    <2>4. ASSUME NEW e \in Events, e.id \notin processed, processed' = processed \cup {e.id}
          PROVE  [ReadModel!Next]_(ReadModel!voteVars)
      <3>1. \A b \in ballots :
              Marked(b[1], b[2])' =
                IF e \in Reveals(b[1], b[2]) THEN Marked(b[1], b[2]) + 1 ELSE Marked(b[1], b[2])
        BY <2>4, MarkedStep
      <3>2. CountedVotes' = IF e \in RevealEvents THEN CountedVotes \cup {e} ELSE CountedVotes
        BY <2>4 DEF CountedVotes, RevealEvents, Events, IdsNameEvents
      <3>3. CASE e \in RevealEvents
        <4>1. e \in Event
          BY AggregatorAssumption DEF Events
        <4>2. \A b \in ballots : e \in Reveals(b[1], b[2]) <=> b = <<e.proposal, e.option>>
          BY <3>3 DEF RevealEvents, Reveals
        <4>3. <<e.proposal, e.option>> \in ballots
          BY <4>1 DEF Event
        <4>4. SettledTally' = [SettledTally EXCEPT ![<<e.proposal, e.option>>] = @ + 1]
          BY <2>1, <2>2, <3>1, <4>2, <4>3
        <4>5. e \notin CountedVotes
          BY <2>4 DEF CountedVotes
        <4>6. [f \in RevealEvents |-> <<f.proposal, f.option>>][e] = <<e.proposal, e.option>>
          BY <3>3
        <4>7. ReadModel!Count(e)
          BY <3>2, <3>3, <4>4, <4>5, <4>6 DEF ReadModel!Count
        <4> QED
          BY <3>3, <4>7 DEF ReadModel!Next
      <3>4. CASE e \notin RevealEvents
        <4>1. \A b \in ballots : e \notin Reveals(b[1], b[2])
          BY <3>4 DEF RevealEvents, Reveals
        <4>2. SettledTally' = SettledTally
          BY <2>1, <2>2, <3>1, <4>1
        <4> QED
          BY <3>2, <3>4, <4>2 DEF ReadModel!voteVars
      <3> QED
        BY <3>3, <3>4
    <2> QED
      BY <1>2, <2>3, <2>4, OneMarker
  <1> QED
    BY <1>1, <1>2, ExactInvariant, PTL DEF Spec, ImplementsVoteCount, ReadModel!Spec

------------------------------------------------------------------------------
(* Final results stay visible.                                              *)

\* An invocation that is about to mark a ProposalFinalized has shown the results.
ShownBeforeMark ==
  \A w \in Workers :
    worker[w].pc = "mark" /\ EventAt(w).type = "ProposalFinalized" =>
      rows[EventAt(w).proposal].results_visible

\* No call but ProposalCreated hides results.
LEMMA VisibleStays ==
  ASSUME TypeInv, NoCreation, [Next]_vars, NEW p \in Proposals, rows[p].results_visible
  PROVE  rows'[p].results_visible
  <1>1. CASE UNCHANGED rows
    BY <1>1
  <1>2. ASSUME NEW w \in Workers, Handle(w)
        PROVE  rows'[p].results_visible
    <2>1. worker[w].pc \in Busy
      BY <1>2 DEF Handle, Check, ApplyCreated, ApplyCommitted, ApplyRevealed, ApplyEnded,
                  Record, Undo, Mark, Unrecord, Unapply, Busy
    <2>2. /\ EventAt(w) \in Events /\ EventAt(w).option \in Options
          /\ EventAt(w).proposal \in Proposals
          /\ rows \in [Proposals -> Row] /\ RowOf(w) \in Row
      BY <2>1, CurrentType DEF Event, TypeInv, TypeOK, RowOf
    <2>3. ~ApplyCreated(w)
      BY <2>2 DEF ApplyCreated, NoCreation
    <2> DEFINE Shows(row) == RowOf(w).results_visible => row.results_visible
    <2>4. /\ Shows(AfterRevealed(RowOf(w), EventAt(w).option))
          /\ Shows(AfterUndoRevealed(RowOf(w), EventAt(w).option))
          /\ Shows(AfterFinalized(RowOf(w))) /\ Shows(AfterClosed(RowOf(w)))
      BY <2>2 DEF AfterRevealed, AfterUndoRevealed, AfterFinalized, AfterClosed, Row
    <2>5. ASSUME NEW accepts, NEW row, NEW onDone, NEW onError,
                 WriteRow(w, accepts, row, onDone, onError), Shows(row)
          PROVE  rows'[p].results_visible
      BY <2>2, <2>5 DEF WriteRow, RowOf
    <2> HIDE DEF Shows
    <2>6. CASE Check(w) \/ ApplyCommitted(w) \/ Record(w) \/ Mark(w) \/ Unrecord(w)
      BY <1>1, <2>6 DEF Check, ApplyCommitted, Record, Mark, Unrecord, WriteActivity
    <2>7. CASE ApplyRevealed(w)
      BY <2>4, <2>5, <2>7 DEF ApplyRevealed
    <2>8. CASE ApplyEnded(w)
      BY <2>4, <2>5, <2>8 DEF ApplyEnded
    <2>9. CASE Undo(w)
      BY <2>4, <2>5, <2>9 DEF Undo
    <2>10. CASE Unapply(w)
      BY <2>4, <2>5, <2>10 DEF Unapply
    <2> QED
      BY <1>2, <2>3, <2>6, <2>7, <2>8, <2>9, <2>10 DEF Handle
  <1> QED
    BY <1>1, <1>2, DeliveryStep

\* An invocation comes to the marker from its last write, with the same record.
LEMMA ToMark ==
  ASSUME TypeInv, NEW w \in Workers, Handle(w), worker'[w].pc = "mark"
  PROVE  /\ EventAt(w)' = EventAt(w)
         /\ ApplyCreated(w) \/ ApplyCommitted(w) \/ ApplyEnded(w) \/ Record(w)
  <1>1. worker[w].pc \in Busy
    BY DEF Handle, Check, ApplyCreated, ApplyCommitted, ApplyRevealed, ApplyEnded,
           Record, Undo, Mark, Unrecord, Unapply, Busy
  <1>2. worker[w] \in Invocation /\ worker \in [Workers -> Invocation]
    BY <1>1, CurrentType DEF TypeInv, TypeOK
  <1> DEFINE Left(inv) == inv.pc # "mark"
  <1>3. \A verdict \in {"done", "failed"} : Left(Ends(w, verdict))
    BY <1>1, EndsType
  <1>4. \A pc \in {"apply", "record", "undo", "unapply"} : Left(GoesTo(w, pc))
    BY <1>2 DEF GoesTo, Invocation
  <1>5. \A verdict \in {"done", "failed"} : Left(RolledBack(w, verdict))
    BY <1>2, <1>3 DEF RolledBack, Invocation
  <1>6. worker[w].verdict \in {"done", "failed"}
    BY <1>2 DEF Invocation
  <1>7. ASSUME NEW inv, worker' = [worker EXCEPT ![w] = inv], Left(inv)
        PROVE  FALSE
    BY <1>2, <1>7
  <1> HIDE DEF Left
  <1>8. ~Check(w)
    BY <1>3, <1>4, <1>7 DEF Check, Outcomes
  <1>9. ~ApplyRevealed(w) /\ ~Undo(w) /\ ~Unapply(w)
    <2>1. ASSUME NEW accepts, NEW row, NEW onDone, NEW onError,
                 WriteRow(w, accepts, row, onDone, onError), Left(onDone), Left(onError)
          PROVE  FALSE
      <3>1. \E inv : Left(inv) /\ worker' = [worker EXCEPT ![w] = inv]
        BY <2>1 DEF WriteRow
      <3> QED
        BY <1>7, <3>1
    <2> QED
      BY <1>3, <1>4, <1>6, <2>1 DEF ApplyRevealed, Undo, Unapply
  <1>10. ~Mark(w)
    <2>1. Mark(w) =>
            \E inv \in {RolledBack(w, "done"), RolledBack(w, "failed"), Ends(w, "done")} :
              worker' = [worker EXCEPT ![w] = inv]
      BY DEF Mark, AfterMarked
    <2> QED
      BY <1>3, <1>5, <1>7, <2>1
  <1>11. ~Unrecord(w)
    <2>1. Unrecord(w) =>
            \E inv \in {GoesTo(w, "unapply"), Ends(w, worker[w].verdict)} :
              worker' = [worker EXCEPT ![w] = inv]
      BY DEF Unrecord, WriteActivity
    <2> QED
      BY <1>3, <1>4, <1>6, <1>7, <2>1
  <1>12. ApplyCreated(w) \/ ApplyCommitted(w) \/ ApplyEnded(w) \/ Record(w)
    BY <1>8, <1>9, <1>10, <1>11 DEF Handle
  <1>13. PICK inv \in {GoesTo(w, "mark"), GoesTo(w, "undo"), Ends(w, "failed")} :
           worker' = [worker EXCEPT ![w] = inv]
    BY <1>12 DEF ApplyCreated, ApplyCommitted, ApplyEnded, Record, WriteRow, WriteActivity
  <1>14. inv = GoesTo(w, "mark")
    BY <1>3, <1>4, <1>7, <1>13
  <1>15. worker'[w].todo = worker[w].todo
    BY <1>2, <1>13, <1>14 DEF GoesTo, Invocation
  <1> QED
    BY <1>12, <1>15 DEF EventAt, Current

\* Once the end of a proposal is projected its results are visible for good, with
\* either backend and any faults, whatever votes, retries and copies follow.
THEOREM FinalVisible ==
  ASSUME NoCreation, IdsNameEvents
  PROVE  Spec => []FinalizedIsVisible
  <1>1. Init => KindInv /\ ShownBeforeMark /\ FinalizedIsVisible
    BY TallyInit DEF Init, ShownBeforeMark, FinalizedIsVisible, Idle
  <1>2. ASSUME TypeInv, KindInv, ShownBeforeMark, FinalizedIsVisible, [Next]_vars
        PROVE  KindInv' /\ ShownBeforeMark' /\ FinalizedIsVisible'
    <2>1. \A p \in Proposals : rows[p].results_visible => rows'[p].results_visible
      BY <1>2, VisibleStays
    <2>2. \A e \in Events : e \in Event /\ e.proposal \in Proposals
      BY AggregatorAssumption DEF Events, Event
    <2>3. FinalizedIsVisible'
      <3>1. CASE processed' = processed
        BY <1>2, <2>1, <2>2, <3>1 DEF FinalizedIsVisible, Events
      <3>2. ASSUME NEW w \in Workers, Mark(w)
            PROVE  FinalizedIsVisible'
        <4>1. EventAt(w) \in Events
          BY <3>2, CurrentType, <1>2 DEF Mark, Busy
        <4>2. \A e \in Events : e.id \in processed' => e.id \in processed \/ e = EventAt(w)
          BY <3>2, <4>1 DEF Mark, IdsNameEvents
        <4>3. /\ EventAt(w).type = "ProposalFinalized" =>
                   rows[EventAt(w).proposal].results_visible
              /\ UNCHANGED rows
          BY <1>2, <3>2 DEF Mark, ShownBeforeMark
        <4> QED
          BY <1>2, <4>2, <4>3 DEF FinalizedIsVisible, Events
      <3>3. ASSUME NEW w \in Workers, Handle(w), ~Mark(w)
            PROVE  processed' = processed
        BY <3>3 DEF Handle, Check, ApplyCreated, ApplyCommitted, ApplyRevealed, ApplyEnded,
                    Record, Undo, Unrecord, Unapply, WriteRow, WriteActivity
      <3> QED
        BY <1>2, <3>1, <3>2, <3>3, DeliveryStep
    <2>4. ShownBeforeMark'
      <3> SUFFICES ASSUME NEW w \in Workers, worker'[w].pc = "mark",
                          EventAt(w)'.type = "ProposalFinalized"
                   PROVE  rows'[EventAt(w)'.proposal].results_visible
        BY DEF ShownBeforeMark
      <3>1. CASE worker'[w] = worker[w]
        <4>1. EventAt(w)' = EventAt(w) /\ EventAt(w) \in Events
          BY <1>2, <3>1, CurrentType DEF EventAt, Current, Busy
        <4> QED
          BY <1>2, <2>1, <2>2, <3>1, <4>1 DEF ShownBeforeMark
      <3>2. CASE Handle(w)
        <4>1. /\ EventAt(w)' = EventAt(w)
              /\ ApplyCreated(w) \/ ApplyCommitted(w) \/ ApplyEnded(w) \/ Record(w)
          BY <1>2, <3>2, ToMark
        <4>2. ApplyEnded(w)
          BY <1>2, <4>1 DEF ApplyCreated, ApplyCommitted, Record, KindInv
        <4>3. /\ worker[w] \in Invocation /\ EventAt(w).proposal \in Proposals
              /\ worker \in [Workers -> Invocation] /\ rows \in [Proposals -> Row]
          BY <1>2, <2>2, <4>2, CurrentType DEF ApplyEnded, Busy, TypeInv, TypeOK
        <4>4. PICK ok \in Outcomes(TRUE) : \E answer \in Answers(ok) :
                /\ rows' = IF ok THEN [rows EXCEPT ![EventAt(w).proposal] =
                                         AfterFinalized(RowOf(w))]
                                 ELSE rows
                /\ worker' = [worker EXCEPT ![w] = IF answer THEN GoesTo(w, "mark")
                                                             ELSE Ends(w, "failed")]
          BY <4>1, <4>2 DEF ApplyEnded, WriteRow
        <4>5. ok
          <5>0. ~ok => \A answer \in Answers(ok) : ~answer
            BY <4>4 DEF Answers, Outcomes
          <5>1. ~ok => worker'[w] = Ends(w, "failed")
            BY <4>3, <4>4, <5>0
          <5>2. Ends(w, "failed").pc # "mark"
            BY <1>2, <4>2, EndsType DEF ApplyEnded, Busy
          <5> QED
            BY <5>1, <5>2
        <4>6. rows' = [rows EXCEPT ![EventAt(w).proposal] = AfterFinalized(RowOf(w))]
          BY <4>4, <4>5
        <4>7. AfterFinalized(RowOf(w)).results_visible
          BY <4>3 DEF AfterFinalized, RowOf, Row
        <4> QED
          BY <4>1, <4>3, <4>6, <4>7
      <3>3. CASE worker'[w] # worker[w] /\ ~Handle(w)
        <4>1. \/ \E v \in Workers, batch \in Batches : Receive(v, batch)
              \/ \E v \in Workers : Handle(v) \/ Return(v) \/ Crash(v)
          BY <1>2, <3>3 DEF Next, Deliver, Reappear, Redrive, vars
        <4>2. ASSUME NEW v \in Workers, NEW inv, worker' = [worker EXCEPT ![v] = inv]
              PROVE  v = w /\ worker'[w] = inv
          BY <1>2, <3>3, <4>2, OthersStay
        <4>3. ASSUME NEW v \in Workers, Handle(v)
              PROVE  v = w
          <5>1. \E inv : worker' = [worker EXCEPT ![v] = inv]
            BY <4>3 DEF Handle, Check, ApplyCreated, ApplyCommitted, ApplyRevealed, ApplyEnded,
                        Record, Undo, Mark, Unrecord, Unapply, WriteRow, WriteActivity
          <5> QED
            BY <4>2, <5>1
        <4>4. ASSUME NEW v \in Workers, NEW batch, Receive(v, batch)
              PROVE  FALSE
          <5> DEFINE inv == [Idle EXCEPT !.pc = "check", !.todo = batch,
                                         !.batch = {batch[i] : i \in DOMAIN batch}]
          <5>1. worker' = [worker EXCEPT ![v] = inv] /\ inv.pc = "check"
            BY <4>4 DEF Receive, Idle
          <5> HIDE DEF inv
          <5> QED
            BY <4>2, <5>1
        <4>5. ASSUME NEW v \in Workers, Return(v) \/ Crash(v)
              PROVE  FALSE
          BY <4>2, <4>5 DEF Return, Crash, Idle
        <4> QED
          BY <3>3, <4>1, <4>3, <4>4, <4>5
      <3> QED
        BY <3>1, <3>2, <3>3
    <2> QED
      BY <1>2, <2>3, <2>4, KindStep
  <1>3. DropInv => TypeInv
    BY DEF DropInv
  <1> QED
    BY <1>1, <1>2, <1>3, DropInvariant, PTL DEF Spec

------------------------------------------------------------------------------
(* What leaves the queue.                                                   *)

\* No message is deleted unless it is one to skip, its event is marked and shows in the
\* tables, or the invocation that returns reports it: with either backend and either
\* event source mapping, for any batches, through crashes, failing calls, lost responses
\* to updates, stale reads and overlapping deliveries.
THEOREM DropsReported ==
  ASSUME NoCreation, IdsNameEvents, "lost_marker" \notin Faults
  PROVE  Spec => DropsAreReported
  <1>1. ASSUME TypeInv, VerdictInv, BatchInv, NeverUndercounts, FinalizedIsVisible, [Next]_vars,
               NEW m \in Messages, queue[m].state # "deleted", queue'[m].state = "deleted"
        PROVE  \/ EventOf[m].type = "Eligibility"
               \/ Projected(EventOf[m])'
               \/ \E w \in Workers : m \in worker[w].failed /\ Return(w)
    <2>1. queue \in [Messages -> MessageState] /\ EventOf[m] \in Events
      BY <1>1 DEF TypeInv, TypeOK, Events
    <2>2. PICK w \in Workers : Return(w)
      <3>1. ASSUME NEW w \in Workers, Handle(w)
            PROVE  UNCHANGED queue
        BY <1>1, <3>1, HandleIsSuccessor
      <3>2. ASSUME NEW w \in Workers, NEW batch, Receive(w, batch)
            PROVE  FALSE
        BY <1>1, <2>1, <3>2 DEF Receive
      <3>3. ASSUME NEW n \in Messages, Reappear(n) \/ Redrive(n)
            PROVE  FALSE
        BY <1>1, <2>1, <3>3 DEF Reappear, Redrive, MessageState
      <3> QED
        BY <1>1, <3>1, <3>2, <3>3 DEF Next, Deliver, Crash, vars
    <2>3. m \in worker[w].batch /\ worker[w].todo = <<>>
      BY <1>1, <2>1, <2>2 DEF Return, DeletedOnReturn, TypeInv, HandlesRecords
    <2>4. m \in worker[w].failed \/ Settled(m, processed)
      BY <1>1, <2>3 DEF BatchInv, Accounted
    <2>5. UNCHANGED <<processed, rows>>
      BY <2>2 DEF Return
    <2>6. ASSUME EventOf[m].id \in processed
          PROVE  Projected(EventOf[m])'
      <3>1. EventOf[m].proposal \in Proposals /\ EventOf[m].option \in Options
        BY AggregatorAssumption DEF Event
      <3>2. Projected(EventOf[m])
        BY <1>1, <2>1, <2>6, <3>1 DEF Projected, NeverUndercounts, FinalizedIsVisible
      <3> QED
        BY <2>5, <3>2 DEF Projected, Counted, Marked, Reveals, Events
    <2> QED
      BY <2>2, <2>4, <2>6 DEF Settled
  <1>2. TypeInv /\ VerdictInv /\ BatchInv /\ NeverUndercounts /\ FinalizedIsVisible
          /\ [Next]_vars =>
          [\A m \in Messages :
             queue[m].state # "deleted" /\ queue'[m].state = "deleted" =>
               \/ EventOf[m].type = "Eligibility"
               \/ Projected(EventOf[m])'
               \/ \E w \in Workers : m \in worker[w].failed /\ Return(w)]_vars
    BY <1>1
  <1>3. DropInv => TypeInv /\ VerdictInv /\ BatchInv
    BY DEF DropInv
  <1> QED
    BY <1>2, <1>3, DropInvariant, NoUndercount, FinalVisible, PTL DEF Spec, DropsAreReported

------------------------------------------------------------------------------
(* A bound of the tally that needs no naming of events by their ids.        *)

\* While no call on the tally fails or loses its response and nothing crashes, the
\* tally less what is held of it grows by new marks only.
LEMMA TallyBound ==
  ASSUME TypeInv, KindInv, MapInv, Faults \subseteq {"overlap", "lost_marker"},
         [Next]_vars, NEW p \in Proposals, NEW o \in Options
  PROVE  /\ Counted(p, o) \in Int /\ Counted(p, o)' \in Int
         /\ Held(p, o) \in Nat /\ Held(p, o)' \in Nat
         /\ \/ Counted(p, o)' <= 0
            \/ /\ Counted(p, o)' - Held(p, o)' <= Counted(p, o) - Held(p, o)
               /\ MarksOther(p, o)
            \/ /\ Counted(p, o)' - Held(p, o)' <= Counted(p, o) - Held(p, o) + 1
               /\ Marks(p, o)
  <1>1. Counted(p, o) \in Int /\ Held(p, o) \in Nat
    BY TallyTypes
  <1>2. "lost_update" \notin Faults /\ Faults \cap {"crash", "refuse"} = {}
    OBVIOUS
  <1>3. TallyStep(p, o)
    BY <1>2, EveryTallyStep
  <1>4. Held(p, o) >= 1 => ~(Dynamo /\ ~rows[p].has_counts)
    BY DEF MapInv
  <1>5. \/ Changes(p, o, 0, 0, 0) \/ Changes(p, o, 1, 0, 1) \/ Changes(p, o, -1, 0, -1)
        \/ Changes(p, o, 0, 0, -1) /\ Counted(p, o) <= 0 /\ Held(p, o) >= 1
        \/ Changes(p, o, 0, 1, -1) \/ Changes(p, o, 0, 1, 0) \/ Empties(p, o)
    BY <1>2, <1>3, <1>4 DEF TallyStep
  <1>6. Held(p, o)' \in Nat
    <2>1. Pending(p, o)' \subseteq Workers
      BY DEF Pending
    <2>2. IsFiniteSet(Pending(p, o)')
      BY <2>1, FS_Subset, AggregatorAssumption
    <2> QED
      BY <2>2, FS_CardinalityType DEF Held
  <1> QED
    BY <1>1, <1>5, <1>6 DEF Changes, Empties

\* Nothing is held where no invocation is at work.
LEMMA NothingHeld ==
  ASSUME \A w \in Workers : worker[w].pc = "idle", NEW p \in Proposals, NEW o \in Options
  PROVE  Held(p, o) = 0
  <1>1. Pending(p, o) = {}
    BY DEF Pending
  <1> QED
    BY <1>1, FS_EmptySet DEF Held

------------------------------------------------------------------------------
(* What makes a tally too large.                                            *)

\* Marks are not taken back, and a vote that is marked adds one, also where several
\* events have one id.
LEMMA MarkedGrows ==
  ASSUME TypeInv, NEW p \in Proposals, NEW o \in Options
  PROVE  /\ Marks(p, o) => Marked(p, o)' >= Marked(p, o) + 1
         /\ MarksOther(p, o) => Marked(p, o)' >= Marked(p, o)
         /\ Marks(p, o) \/ MarksOther(p, o) => Marked(p, o)' \in Nat
  <1> DEFINE after == MarkedVotes(p, o)'
  <1>1. /\ Marked(p, o) = Cardinality(MarkedVotes(p, o))
        /\ Marked(p, o)' = Cardinality(after)
    BY DEF Marked, MarkedVotes
  <1>2. IsFiniteSet(MarkedVotes(p, o)) /\ Marked(p, o) \in Nat /\ IsFiniteSet(Reveals(p, o))
    BY EventsFinite
  <1>3. after \subseteq Reveals(p, o)
    BY DEF MarkedVotes, Reveals, Events
  <1>4. IsFiniteSet(after) /\ Cardinality(after) \in Nat
    BY <1>2, <1>3, FS_Subset, FS_CardinalityType
  <1>5. processed \subseteq processed' => MarkedVotes(p, o) \subseteq after
    BY DEF MarkedVotes, Reveals, Events
  <1>6. ASSUME NEW e, e \in Reveals(p, o), e.id \notin processed,
               processed' = processed \cup {e.id}
        PROVE  Cardinality(after) >= Marked(p, o) + 1
    <2>1. e \in after /\ e \notin MarkedVotes(p, o)
      BY <1>6 DEF MarkedVotes, Reveals, Events
    <2>2. MarkedVotes(p, o) \cup {e} \subseteq after
      BY <1>5, <1>6, <2>1
    <2>3. Cardinality(MarkedVotes(p, o) \cup {e}) = Marked(p, o) + 1
      BY <1>1, <1>2, <2>1, FS_AddElement
    <2> HIDE DEF after
    <2> QED
      BY <1>2, <1>4, <2>2, <2>3, FS_Subset
  <1> HIDE DEF after
  <1>7. Marks(p, o) => Cardinality(after) >= Marked(p, o) + 1
    BY <1>6 DEF Marks
  <1>8. ASSUME processed \subseteq processed'
        PROVE  Cardinality(after) >= Marked(p, o)
    BY <1>1, <1>2, <1>4, <1>5, <1>8, FS_Subset
  <1>9. MarksOther(p, o) => Cardinality(after) >= Marked(p, o)
    BY <1>8 DEF MarksOther
  <1> QED
    BY <1>1, <1>4, <1>7, <1>9

LEMMA KindInvariant == Spec => [](TypeInv /\ KindInv)
  <1>1. Init => KindInv
    BY TallyInit
  <1>2. TypeInv /\ KindInv /\ [Next]_vars => KindInv'
    BY KindStep
  <1>3. DropInv => TypeInv
    BY DEF DropInv
  <1> QED
    BY <1>1, <1>2, <1>3, DropInvariant, PTL DEF Spec

\* Every vote too many is a failure's: whatever the backend, the duplicates, the
\* overlaps, the creations that come late and the ids that events share, the tally
\* runs ahead of marks and work in hand by one at a time, and only where an invocation
\* stops, a response is lost or an undo fails.
THEOREM FailuresOvercount == Spec => OvercountsByFailuresOnly
  <1>1. ASSUME TypeInv, TypeInv', KindInv, [Next]_vars,
               NEW p \in Proposals, NEW o \in Options,
               Counted(p, o)' > 0, Excess(p, o)' > Excess(p, o)
        PROVE  Excess(p, o)' = Excess(p, o) + 1 /\ IsAbandoned(p, o)
    <2>1. /\ Counted(p, o) \in Int /\ Marked(p, o) \in Nat /\ Held(p, o) \in Nat
          /\ Excess(p, o) = Counted(p, o) - Marked(p, o) - Held(p, o)
          /\ Excess(p, o)' = Counted(p, o)' - Marked(p, o)' - Held(p, o)'
      BY <1>1, TallyTypes DEF Excess, Held
    <2>2. /\ Marks(p, o) => Marked(p, o)' >= Marked(p, o) + 1 /\ Marked(p, o)' \in Nat
          /\ MarksOther(p, o) => Marked(p, o)' >= Marked(p, o) /\ Marked(p, o)' \in Nat
      BY <1>1, MarkedGrows
    <2>3. TallyStep(p, o)
      BY <1>1, EveryTallyStep
    <2>4. /\ ~Changes(p, o, 0, 0, 0) /\ ~Changes(p, o, 1, 0, 1) /\ ~Changes(p, o, -1, 0, -1)
          /\ ~Changes(p, o, 0, 1, -1) /\ ~Changes(p, o, 0, 1, 0)
      BY <1>1, <2>1, <2>2 DEF Changes
    <2>5. ~Empties(p, o)
      BY <1>1 DEF Empties
    <2>6. \/ Changes(p, o, 1, 0, 0) /\ IsAbandoned(p, o)
          \/ Changes(p, o, 0, 0, -1) /\ (Counted(p, o) > 0 => IsAbandoned(p, o))
      BY <2>3, <2>4, <2>5 DEF TallyStep
    <2> QED
      BY <1>1, <2>1, <2>2, <2>6 DEF Changes
  <1>2. TypeInv /\ TypeInv' /\ KindInv /\ [Next]_vars =>
          [\A p \in Proposals, o \in Options :
             Counted(p, o)' > 0 /\ Excess(p, o)' > Excess(p, o) =>
               /\ Excess(p, o)' = Excess(p, o) + 1
               /\ \E w \in Workers : Abandons(w, p, o)]_vars
    BY <1>1 DEF IsAbandoned
  <1> QED
    BY <1>2, KindInvariant, PTL DEF Spec, OvercountsByFailuresOnly

\* No option has more votes than were revealed for it.  The code does not keep this
\* where an invocation stops between counting and marking.
NeverOvercounts ==
  \A p \in Proposals, o \in Options : Counted(p, o) <= Cardinality(Reveals(p, o))

\* While nothing stops and no call on the tally fails, each vote counts at most once
\* as soon as no invocation is at work, with either backend, through duplicates,
\* overlaps, lost responses to the marker, late creations and shared ids.
THEOREM RestsWithoutOvercount ==
  ASSUME Faults \subseteq {"overlap", "lost_marker"}
  PROVE  Spec => []((\A w \in Workers : worker[w].pc = "idle") => NeverOvercounts)
  <1> DEFINE Bound == \A p \in Proposals, o \in Options :
               Counted(p, o) <= 0 \/ Counted(p, o) <= Marked(p, o) + Held(p, o)
  <1>1. Init => MapInv /\ Bound
    <2> SUFFICES ASSUME Init PROVE MapInv /\ Bound
      OBVIOUS
    <2>1. \A p \in Proposals, o \in Options : Counted(p, o) = 0 /\ Held(p, o) = 0
      BY TallyInit
    <2> QED
      BY <2>1 DEF MapInv
  <1>2. TypeInv /\ KindInv /\ MapInv /\ [Next]_vars => MapInv'
    BY MapStep
  <1>3. TypeInv /\ KindInv /\ MapInv /\ Bound /\ [Next]_vars => Bound'
    <2> SUFFICES ASSUME TypeInv, KindInv, MapInv, Bound, [Next]_vars,
                        NEW p \in Proposals, NEW o \in Options
                 PROVE  Counted(p, o)' <= 0 \/ Counted(p, o)' <= Marked(p, o)' + Held(p, o)'
      OBVIOUS
    <2>1. Marked(p, o) \in Nat
      BY TallyTypes
    <2>2. Counted(p, o) <= 0 \/ Counted(p, o) <= Marked(p, o) + Held(p, o)
      OBVIOUS
    <2>3. /\ Marks(p, o) => Marked(p, o)' >= Marked(p, o) + 1 /\ Marked(p, o)' \in Nat
          /\ MarksOther(p, o) => Marked(p, o)' >= Marked(p, o) /\ Marked(p, o)' \in Nat
      BY MarkedGrows
    <2> HIDE DEF Bound
    <2> QED
      BY <2>1, <2>2, <2>3, TallyBound
  <1>4. TypeInv /\ Bound => ((\A w \in Workers : worker[w].pc = "idle") => NeverOvercounts)
    <2> SUFFICES ASSUME TypeInv, Bound, \A w \in Workers : worker[w].pc = "idle",
                        NEW p \in Proposals, NEW o \in Options
                 PROVE  Counted(p, o) <= Cardinality(Reveals(p, o))
      BY DEF NeverOvercounts
    <2>1. Held(p, o) = 0
      BY NothingHeld
    <2>2. /\ Marked(p, o) \in Nat /\ Cardinality(Reveals(p, o)) \in Nat
          /\ Marked(p, o) <= Cardinality(Reveals(p, o))
      <3>1. MarkedVotes(p, o) \subseteq Reveals(p, o) /\ IsFiniteSet(Reveals(p, o))
        BY EventsFinite DEF MarkedVotes
      <3>2. Marked(p, o) = Cardinality(MarkedVotes(p, o))
        BY DEF Marked, MarkedVotes
      <3> QED
        BY <3>1, <3>2, FS_Subset, FS_CardinalityType
    <2>3. Counted(p, o) <= 0 \/ Counted(p, o) <= Marked(p, o) + Held(p, o)
      OBVIOUS
    <2>4. Counted(p, o) \in Int
      BY TallyTypes
    <2> QED
      BY <2>1, <2>2, <2>3, <2>4
  <1> QED
    BY <1>1, <1>2, <1>3, <1>4, KindInvariant, PTL DEF Spec

------------------------------------------------------------------------------
(* How often a vote can count.                                              *)

\* The messages an invocation still has to handle, ...
Remaining(w) == {worker[w].todo[i] : i \in DOMAIN worker[w].todo}

\* ... those of them it has not counted, ...
Uncounted(w) ==
  IF worker[w].pc \in Uncertain THEN Remaining(w) \ {Current(w)} ELSE Remaining(w)

\* ... and, of all invocations, those with a vote for option o of p.
Ahead(p, o) ==
  {x \in Workers \X Messages :
     x[2] \in Uncounted(x[1]) /\ EventOf[x[2]] \in Reveals(p, o)}

\* A batch holds a message once.
DistinctTodo ==
  \A w \in Workers : \A i, j \in DOMAIN worker[w].todo :
    worker[w].todo[i] = worker[w].todo[j] => i = j

\* A handler takes the record to its next step, past the increment if it was at
\* "apply", or goes on with the next record.
LEMMA RecordStep ==
  ASSUME TypeInv, NEW w \in Workers, Handle(w)
  PROVE  \E inv :
           /\ worker' = [worker EXCEPT ![w] = inv]
           /\ \/ inv.todo = Tail(worker[w].todo)
              \/ /\ inv.todo = worker[w].todo
                 /\ worker[w].pc # "check" => inv.pc \in Uncertain
  <1> DEFINE Good(inv) == \/ inv.todo = Tail(worker[w].todo)
                          \/ /\ inv.todo = worker[w].todo
                             /\ worker[w].pc # "check" => inv.pc \in Uncertain
             Goal == \E inv : worker' = [worker EXCEPT ![w] = inv] /\ Good(inv)
  <1> SUFFICES Goal
    OBVIOUS
  <1>1. worker[w].pc \in Busy
    BY DEF Handle, Check, ApplyCreated, ApplyCommitted, ApplyRevealed, ApplyEnded,
           Record, Undo, Mark, Unrecord, Unapply, Busy
  <1>2. worker[w] \in Invocation
    BY <1>1, CurrentType
  <1>3. \A verdict \in {"done", "failed"} : Good(Ends(w, verdict))
    BY <1>1, EndsType
  <1>4. \A pc \in Uncertain : Good(GoesTo(w, pc))
    BY <1>2 DEF GoesTo, Invocation, Uncertain
  <1>5. worker[w].pc = "check" => Good(GoesTo(w, "apply"))
    BY <1>2 DEF GoesTo, Invocation
  <1>6. \A verdict \in {"done", "failed"} : Good(RolledBack(w, verdict))
    BY <1>2, <1>3 DEF RolledBack, Invocation, Uncertain
  <1>7. worker[w].verdict \in {"done", "failed"}
    BY <1>2 DEF Invocation
  <1> HIDE DEF Good
  <1>8. ASSUME NEW accepts, NEW row, NEW onDone, NEW onError,
               WriteRow(w, accepts, row, onDone, onError), Good(onDone), Good(onError)
        PROVE  Goal
    BY <1>8 DEF WriteRow
  <1>9. ASSUME NEW flag, NEW value, NEW onDone, NEW onError,
               WriteActivity(w, flag, value, onDone, onError), Good(onDone), Good(onError)
        PROVE  Goal
    BY <1>9 DEF WriteActivity
  <1> HIDE DEF Goal
  <1>10. CASE Check(w)
    <2>1. \E inv \in {Ends(w, "failed"), Ends(w, "done"), GoesTo(w, "apply")} :
            worker' = [worker EXCEPT ![w] = inv]
      BY <1>10 DEF Check, Outcomes
    <2> QED
      BY <1>3, <1>5, <1>10, <2>1 DEF Check, Goal
  <1>11. CASE ApplyCreated(w) \/ ApplyEnded(w) \/ ApplyRevealed(w)
    BY <1>3, <1>4, <1>8, <1>11 DEF ApplyCreated, ApplyEnded, ApplyRevealed, Uncertain
  <1>12. CASE ApplyCommitted(w) \/ Record(w)
    BY <1>3, <1>4, <1>9, <1>12 DEF ApplyCommitted, Record, Uncertain
  <1>13. CASE Undo(w) \/ Unapply(w)
    BY <1>3, <1>7, <1>8, <1>13 DEF Undo, Unapply
  <1>14. CASE Mark(w)
    <2>1. \E inv \in {RolledBack(w, "done"), RolledBack(w, "failed"), Ends(w, "done")} :
            worker' = [worker EXCEPT ![w] = inv]
      BY <1>14 DEF Mark, AfterMarked
    <2> QED
      BY <1>3, <1>6, <2>1 DEF Goal
  <1>15. CASE Unrecord(w)
    BY <1>3, <1>4, <1>7, <1>9, <1>15 DEF Unrecord, Uncertain
  <1> QED
    BY <1>10, <1>11, <1>12, <1>13, <1>14, <1>15 DEF Handle

\* The record at the head is not in the tail of a batch.
LEMMA DistinctTail ==
  ASSUME NEW S, NEW seq \in Seq(S), seq # <<>>,
         \A i, j \in DOMAIN seq : seq[i] = seq[j] => i = j
  PROVE  /\ Head(seq) \in {seq[i] : i \in DOMAIN seq}
         /\ {Tail(seq)[i] : i \in DOMAIN Tail(seq)} =
              {seq[i] : i \in DOMAIN seq} \ {Head(seq)}
         /\ \A i, j \in DOMAIN Tail(seq) : Tail(seq)[i] = Tail(seq)[j] => i = j
  <1> DEFINE n == Len(seq)
             tail == Tail(seq)
  <1>1. n \in Nat \ {0} /\ DOMAIN seq = 1..n /\ Head(seq) = seq[1]
    BY EmptySeq
  <1>2. /\ DOMAIN tail = 1..(n - 1)
        /\ \A i \in 1..(n - 1) : tail[i] = seq[i + 1]
    BY <1>1
  <1> HIDE DEF n, tail
  <1>3. \A i \in 1..(n - 1) : i + 1 \in 1..n /\ i + 1 # 1
    BY <1>1
  <1>4. ASSUME NEW k \in 1..n, seq[k] # Head(seq)
        PROVE  \E i \in DOMAIN tail : tail[i] = seq[k]
    <2>1. k - 1 \in 1..(n - 1) /\ (k - 1) + 1 = k
      BY <1>1, <1>4
    <2> QED
      BY <1>2, <2>1
  <1>5. ASSUME NEW i \in DOMAIN tail
        PROVE  /\ tail[i] \in {seq[k] : k \in DOMAIN seq}
               /\ tail[i] # Head(seq)
    <2>1. i + 1 \in 1..n /\ i + 1 # 1 /\ tail[i] = seq[i + 1] /\ 1 \in 1..n
      BY <1>1, <1>2, <1>3
    <2> QED
      BY <1>1, <2>1
  <1>6. ASSUME NEW i \in DOMAIN tail, NEW j \in DOMAIN tail, tail[i] = tail[j]
        PROVE  i = j
    <2>1. i + 1 \in 1..n /\ j + 1 \in 1..n /\ seq[i + 1] = seq[j + 1]
      BY <1>2, <1>3, <1>6
    <2>2. i + 1 = j + 1
      BY <1>1, <2>1
    <2> QED
      BY <1>1, <1>2, <2>2
  <1>7. Head(seq) \in {seq[i] : i \in DOMAIN seq}
    BY <1>1
  <1> QED
    BY <1>1, <1>4, <1>5, <1>6, <1>7 DEF tail

\* An invocation at work never takes back a message it has counted, and counting one
\* takes it from those that remain.
LEMMA UncountedStep ==
  ASSUME TypeInv, DistinctTodo, NEW w \in Workers, Handle(w)
  PROVE  /\ DistinctTodo'
         /\ \A v \in Workers : Uncounted(v)' \subseteq Uncounted(v)
         /\ worker[w].pc = "apply" => Current(w) \in Uncounted(w) \ Uncounted(w)'
  <1>1. PICK inv :
          /\ worker' = [worker EXCEPT ![w] = inv]
          /\ \/ inv.todo = Tail(worker[w].todo)
             \/ /\ inv.todo = worker[w].todo
                /\ worker[w].pc # "check" => inv.pc \in Uncertain
    BY RecordStep
  <1>2. worker'[w] = inv /\ \A v \in Workers \ {w} : worker'[v] = worker[v]
    BY <1>1, OthersStay
  <1>3. \A v \in Workers \ {w} : Uncounted(v)' = Uncounted(v)
    BY <1>2 DEF Uncounted, Remaining, Current
  <1>4. worker[w].pc \in Busy
    BY DEF Handle, Check, ApplyCreated, ApplyCommitted, ApplyRevealed, ApplyEnded,
           Record, Undo, Mark, Unrecord, Unapply, Busy
  <1>5. worker[w].todo \in Seq(Messages) /\ worker[w].todo # <<>>
    BY <1>4, CurrentType
  <1> DEFINE todo == worker[w].todo
  <1>6. /\ Head(todo) \in {todo[i] : i \in DOMAIN todo}
        /\ {Tail(todo)[i] : i \in DOMAIN Tail(todo)} =
             {todo[i] : i \in DOMAIN todo} \ {Head(todo)}
        /\ \A i, j \in DOMAIN Tail(todo) : Tail(todo)[i] = Tail(todo)[j] => i = j
    <2>1. \A i, j \in DOMAIN todo : todo[i] = todo[j] => i = j
      BY DEF DistinctTodo
    <2> HIDE DEF todo
    <2> QED
      BY <1>5, <2>1, DistinctTail DEF todo
  <1>7. Remaining(w) = {todo[i] : i \in DOMAIN todo} /\ Current(w) = Head(todo)
    BY DEF Remaining, Current
  <1>8. /\ Remaining(w)' = {inv.todo[i] : i \in DOMAIN inv.todo}
        /\ Current(w)' = Head(inv.todo)
        /\ Uncounted(w)' = IF inv.pc \in Uncertain THEN Remaining(w)' \ {Current(w)'}
                                                    ELSE Remaining(w)'
    BY <1>2 DEF Remaining, Current, Uncounted
  <1>9. worker[w].pc = "apply" => Uncounted(w) = Remaining(w)
    BY DEF Uncounted, Uncertain
  <1>10. CASE inv.todo = Tail(todo)
    <2>1. Remaining(w)' = Remaining(w) \ {Current(w)}
      BY <1>6, <1>7, <1>8, <1>10
    <2>2. Uncounted(w)' \subseteq Remaining(w) \ {Current(w)}
      BY <1>8, <2>1
    <2>3. Remaining(w) \ {Current(w)} \subseteq Uncounted(w)
      BY DEF Uncounted
    <2>4. DistinctTodo'
      <3> SUFFICES ASSUME NEW v \in Workers, NEW i \in DOMAIN worker'[v].todo,
                          NEW j \in DOMAIN worker'[v].todo,
                          worker'[v].todo[i] = worker'[v].todo[j]
                   PROVE  i = j
        BY DEF DistinctTodo
      <3>1. CASE v = w
        BY <1>2, <1>6, <1>10, <3>1
      <3>2. CASE v # w
        BY <1>2, <3>2 DEF DistinctTodo
      <3> QED
        BY <3>1, <3>2
    <2> QED
      BY <1>3, <1>6, <1>7, <1>9, <2>2, <2>3, <2>4
  <1>11. CASE inv.todo = todo /\ (worker[w].pc # "check" => inv.pc \in Uncertain)
    <2>1. Remaining(w)' = Remaining(w) /\ Current(w)' = Current(w)
      BY <1>7, <1>8, <1>11
    <2>2. Uncounted(w)' \subseteq Uncounted(w)
      BY <1>8, <1>11, <2>1 DEF Uncounted, Uncertain
    <2>3. worker[w].pc = "apply" => Current(w) \in Uncounted(w) \ Uncounted(w)'
      BY <1>6, <1>7, <1>8, <1>9, <1>11, <2>1
    <2>4. \A v \in Workers : worker'[v].todo = worker[v].todo
      BY <1>2, <1>11
    <2> QED
      BY <1>3, <2>2, <2>3, <2>4 DEF DistinctTodo
  <1> QED
    BY <1>1, <1>10, <1>11

\* A tally above zero grows by a vote that is applied, and by one.
LEMMA CountStep ==
  ASSUME TypeInv, [Next]_vars, NEW p \in Proposals, NEW o \in Options
  PROVE  \/ Counted(p, o)' <= Counted(p, o)
         \/ Counted(p, o)' <= 0
         \/ /\ Counted(p, o)' = Counted(p, o) + 1
            /\ \E w \in Workers :
                 Handle(w) /\ worker[w].pc = "apply" /\ EventAt(w) \in Reveals(p, o)
  <1>1. Counted(p, o) \in Int
    BY TallyTypes
  <1>2. CASE rows' = rows
    BY <1>1, <1>2 DEF Counted
  <1>3. ASSUME NEW w \in Workers, Handle(w), rows' # rows
        PROVE  \/ Counted(p, o)' <= Counted(p, o)
               \/ Counted(p, o)' <= 0
               \/ /\ Counted(p, o)' = Counted(p, o) + 1
                  /\ worker[w].pc = "apply" /\ EventAt(w) \in Reveals(p, o)
    <2>1. worker[w].pc \in Busy
      BY <1>3 DEF Handle, Check, ApplyCreated, ApplyCommitted, ApplyRevealed, ApplyEnded,
                  Record, Undo, Mark, Unrecord, Unapply, Busy
    <2>2. /\ EventAt(w).proposal \in Proposals /\ EventAt(w).option \in Options
          /\ EventAt(w) \in Events /\ rows \in [Proposals -> Row] /\ RowOf(w) \in Row
      BY <2>1, CurrentType DEF Event, TypeInv, TypeOK, RowOf
    <2>3. ASSUME NEW row, rows' = [rows EXCEPT ![EventAt(w).proposal] = row]
          PROVE  Counted(p, o)' = IF EventAt(w).proposal = p THEN row.option_counts[o]
                                                             ELSE Counted(p, o)
      BY <2>2, <2>3 DEF Counted
    <2>4. ASSUME NEW accepts, NEW row, NEW onDone, NEW onError,
                 WriteRow(w, accepts, row, onDone, onError)
          PROVE  rows' = [rows EXCEPT ![EventAt(w).proposal] = row]
      BY <1>3, <2>4 DEF WriteRow
    <2>5. /\ EventAt(w).proposal = p => RowOf(w).option_counts[o] = Counted(p, o)
          /\ AfterFinalized(RowOf(w)).option_counts[o] = RowOf(w).option_counts[o]
          /\ AfterClosed(RowOf(w)).option_counts[o] = RowOf(w).option_counts[o]
          /\ AfterCreated(RowOf(w)).option_counts[o] = 0
          /\ AfterUndoRevealed(RowOf(w), EventAt(w).option).option_counts[o] \in
               {RowOf(w).option_counts[o], RowOf(w).option_counts[o] - 1}
          /\ AfterRevealed(RowOf(w), EventAt(w).option).option_counts[o] =
               IF o = EventAt(w).option THEN RowOf(w).option_counts[o] + 1
                                        ELSE RowOf(w).option_counts[o]
      BY <2>2, CountAfter DEF RowOf, Counted, AfterCreated, CreatedRow
    <2>6. CASE ApplyCreated(w)
      BY <1>1, <2>3, <2>4, <2>5, <2>6 DEF ApplyCreated
    <2>7. CASE ApplyEnded(w)
      <3>1. \/ rows' = [rows EXCEPT ![EventAt(w).proposal] = AfterFinalized(RowOf(w))]
            \/ rows' = [rows EXCEPT ![EventAt(w).proposal] = AfterClosed(RowOf(w))]
        BY <2>4, <2>7 DEF ApplyEnded
      <3>2. Counted(p, o)' = Counted(p, o)
        BY <2>3, <2>5, <3>1
      <3> QED
        BY <1>1, <3>2
    <2>8. CASE Undo(w) \/ Unapply(w)
      BY <1>1, <2>3, <2>4, <2>5, <2>8 DEF Undo, Unapply
    <2>9. CASE ApplyRevealed(w)
      <3>1. rows' = [rows EXCEPT ![EventAt(w).proposal] =
                       AfterRevealed(RowOf(w), EventAt(w).option)]
        BY <2>4, <2>9 DEF ApplyRevealed
      <3>2. EventAt(w).type = "VoteRevealed" /\ worker[w].pc = "apply"
        BY <2>9 DEF ApplyRevealed
      <3>3. EventAt(w).proposal = p /\ EventAt(w).option = o => EventAt(w) \in Reveals(p, o)
        BY <2>2, <3>2 DEF Reveals
      <3>4. Counted(p, o)' = IF EventAt(w).proposal = p /\ EventAt(w).option = o
                             THEN Counted(p, o) + 1 ELSE Counted(p, o)
        BY <2>3, <2>5, <3>1
      <3> QED
        BY <1>1, <3>2, <3>3, <3>4
    <2>10. ~(ApplyCommitted(w) \/ Record(w) \/ Unrecord(w) \/ Check(w) \/ Mark(w))
      BY <1>3 DEF ApplyCommitted, Record, Unrecord, Check, Mark, WriteActivity
    <2> QED
      BY <1>3, <2>6, <2>7, <2>8, <2>9, <2>10 DEF Handle
  <1> QED
    BY <1>2, <1>3, DeliveryStep

\* The votes counted and those still ahead are covered by receptions.
ReceptionInv ==
  /\ DistinctTodo
  /\ \A p \in Proposals, o \in Options :
       /\ Cardinality(Ahead(p, o)) <= Cardinality(Receptions(p, o))
       /\ Counted(p, o) + Cardinality(Ahead(p, o)) <= Cardinality(Receptions(p, o))

LEMMA ReceptionSets ==
  ASSUME NEW p \in Proposals, NEW o \in Options
  PROVE  /\ IsFiniteSet(Ahead(p, o)) /\ IsFiniteSet(Receptions(p, o))
         /\ Cardinality(Ahead(p, o)) \in Nat /\ Cardinality(Receptions(p, o)) \in Nat
         /\ IsFiniteSet(Ahead(p, o)') /\ IsFiniteSet(Receptions(p, o)')
         /\ Cardinality(Ahead(p, o))' \in Nat /\ Cardinality(Receptions(p, o))' \in Nat
  <1>1. IsFiniteSet(Workers \X Messages) /\ IsFiniteSet(Messages \X (1..MaxReceives))
    <2>1. 1 \in Int /\ MaxReceives \in Int
      BY AggregatorAssumption
    <2>2. IsFiniteSet(1..MaxReceives)
      BY <2>1, FS_Interval
    <2> QED
      BY <2>2, AggregatorAssumption, FS_Product
  <1>2. /\ Ahead(p, o) \subseteq Workers \X Messages
        /\ Ahead(p, o)' \subseteq Workers \X Messages
        /\ Receptions(p, o) \subseteq Messages \X (1..MaxReceives)
        /\ Receptions(p, o)' \subseteq Messages \X (1..MaxReceives)
    BY DEF Ahead, Receptions
  <1>3. /\ IsFiniteSet(Ahead(p, o)) /\ IsFiniteSet(Receptions(p, o))
        /\ IsFiniteSet(Ahead(p, o)') /\ IsFiniteSet(Receptions(p, o)')
    BY <1>1, <1>2, FS_Subset
  <1> QED
    BY <1>3, FS_CardinalityType

\* Receiving a batch counts nothing, and each message of it is one reception more.
LEMMA ReceiveReceptions ==
  ASSUME TypeInv, ReceptionInv, NEW w \in Workers, NEW batch \in Batches, Receive(w, batch),
         NEW p \in Proposals, NEW o \in Options
  PROVE  \E n \in Nat :
           /\ Cardinality(Ahead(p, o))' <= Cardinality(Ahead(p, o)) + n
           /\ Cardinality(Receptions(p, o))' >= Cardinality(Receptions(p, o)) + n
  <1> DEFINE received == {batch[i] : i \in DOMAIN batch}
             votes == {m \in received : EventOf[m] \in Reveals(p, o)}
             news == {w} \X votes
             copies == {<<m, queue[m].receives + 1>> : m \in votes}
  <1>1. /\ received \subseteq Messages /\ \A m \in received : MayReceive(m)
        /\ queue' = [m \in Messages |->
                       IF m \in received
                       THEN [state |-> "inflight", receives |-> queue[m].receives + 1]
                       ELSE queue[m]]
        /\ worker' = [worker EXCEPT ![w] =
                        [Idle EXCEPT !.pc = "check", !.batch = received, !.todo = batch]]
    BY DEF Receive, Batches
  <1> DEFINE inv == [Idle EXCEPT !.pc = "check", !.batch = received, !.todo = batch]
  <1>2. worker'[w] = inv /\ inv.pc = "check" /\ inv.todo = batch
        /\ \A v \in Workers \ {w} : worker'[v] = worker[v]
    BY <1>1, OthersStay DEF Idle
  <1>3. votes \subseteq Messages
    BY <1>1
  <1>4. \A m \in Messages : queue[m].receives \in 0..MaxReceives
    BY DEF TypeInv, TypeOK, MessageState
  <1>5. Uncounted(w)' = received /\ \A v \in Workers \ {w} : Uncounted(v)' = Uncounted(v)
    <2>1. received = {inv.todo[i] : i \in DOMAIN inv.todo} /\ inv.pc \notin Uncertain
      BY <1>2 DEF Uncertain
    <2> HIDE DEF received, inv
    <2>2. Uncounted(w)' = received
      BY <1>2, <2>1 DEF Uncounted, Remaining
    <2>3. \A v \in Workers \ {w} : Uncounted(v)' = Uncounted(v)
      BY <1>2 DEF Uncounted, Remaining, Current
    <2> QED
      BY <2>2, <2>3
  <1>6. Ahead(p, o)' \subseteq Ahead(p, o) \cup news
    BY <1>5 DEF Ahead, Reveals, Events
  <1>7. /\ Receptions(p, o) \cup copies \subseteq Receptions(p, o)'
        /\ Receptions(p, o) \cap copies = {}
    <2>1. \A m \in Messages :
            queue'[m].receives = IF m \in received THEN queue[m].receives + 1
                                                    ELSE queue[m].receives
      BY <1>1
    <2>2. \A m \in votes : /\ queue[m].receives + 1 \in 1..MaxReceives
                           /\ EventOf[m] \in Reveals(p, o) /\ m \in received
      BY <1>1, <1>3, <1>4, AggregatorAssumption DEF MayReceive
    <2> HIDE DEF votes, received
    <2>3. Receptions(p, o) \subseteq Receptions(p, o)'
      <3> SUFFICES ASSUME NEW r \in Receptions(p, o) PROVE r \in Receptions(p, o)'
        OBVIOUS
      <3>1. /\ r[1] \in Messages /\ r \in Messages \X (1..MaxReceives) /\ r[2] \in Nat
            /\ EventOf[r[1]] \in Reveals(p, o) /\ r[2] <= queue[r[1]].receives
        BY AggregatorAssumption DEF Receptions
      <3>2. r[2] <= queue'[r[1]].receives
        BY <1>4, <2>1, <3>1, AggregatorAssumption
      <3> QED
        BY <3>1, <3>2 DEF Receptions, Reveals, Events
    <2>4. copies \subseteq Receptions(p, o)'
      BY <1>3, <1>4, <2>1, <2>2 DEF Receptions, Reveals, Events
    <2>5. Receptions(p, o) \cap copies = {}
      BY <1>3, <1>4 DEF Receptions
    <2> QED
      BY <2>3, <2>4, <2>5
  <1> HIDE DEF received, votes, inv
  <1>8. IsFiniteSet(news) /\ IsFiniteSet(copies)
    <2>1. news \subseteq Workers \X Messages
      BY <1>3
    <2>2. IsFiniteSet(Workers \X Messages)
      BY AggregatorAssumption, FS_Product
    <2> HIDE DEF news, copies
    <2> QED
      BY <1>7, <2>1, <2>2, ReceptionSets, FS_Subset
  <1>9. Cardinality(news) <= Cardinality(copies)
    <2> DEFINE f == [x \in news |-> <<x[2], queue[x[2]].receives + 1>>]
    <2>1. f \in Injection(news, copies)
      BY DEF Injection, IsInjective
    <2> HIDE DEF f, news, copies
    <2> QED
      BY <1>8, <2>1, FS_Injection
  <1> HIDE DEF news, copies
  <1>10. Cardinality(news) \in Nat /\ Cardinality(copies) \in Nat
    BY <1>8, FS_CardinalityType
  <1>11. Cardinality(Ahead(p, o)') <= Cardinality(Ahead(p, o)) + Cardinality(news)
    <2>1. /\ IsFiniteSet(Ahead(p, o) \cup news)
          /\ Cardinality(Ahead(p, o) \cup news) =
               Cardinality(Ahead(p, o)) + Cardinality(news) - Cardinality(Ahead(p, o) \cap news)
      BY <1>8, ReceptionSets, FS_Union
    <2>2. Cardinality(Ahead(p, o) \cap news) \in Nat
      <3>1. Ahead(p, o) \cap news \subseteq news
        OBVIOUS
      <3> QED
        BY <1>8, <3>1, FS_Subset, FS_CardinalityType
    <2>3. Cardinality(Ahead(p, o)') <= Cardinality(Ahead(p, o) \cup news)
      BY <1>6, <2>1, FS_Subset
    <2> QED
      BY <1>10, <2>1, <2>2, <2>3, ReceptionSets
  <1>12. Cardinality(Receptions(p, o)') >= Cardinality(Receptions(p, o)) + Cardinality(copies)
    <2>1. Cardinality(Receptions(p, o) \cup copies) =
            Cardinality(Receptions(p, o)) + Cardinality(copies) - 0
      BY <1>7, <1>8, ReceptionSets, FS_Union, FS_EmptySet
    <2>2. Cardinality(Receptions(p, o) \cup copies) <= Cardinality(Receptions(p, o)')
      BY <1>7, ReceptionSets, FS_Subset
    <2> QED
      BY <1>10, <2>1, <2>2, ReceptionSets
  <1> QED
    BY <1>9, <1>10, <1>11, <1>12, ReceptionSets

LEMMA ReceptionStep ==
  ASSUME TypeInv, TypeInv', ReceptionInv, [Next]_vars
  PROVE  ReceptionInv'
  <1>1. DistinctTodo
    BY DEF ReceptionInv
  <1>2. ASSUME NEW p \in Proposals, NEW o \in Options
        PROVE  /\ Counted(p, o) \in Int /\ Counted(p, o)' \in Int
               /\ Cardinality(Ahead(p, o)) <= Cardinality(Receptions(p, o))
               /\ Counted(p, o) + Cardinality(Ahead(p, o)) <= Cardinality(Receptions(p, o))
    <2>1. Counted(p, o) \in Int /\ Counted(p, o)' \in Int
      BY DEF TypeInv, TypeOK, Row, Counted
    <2> QED
      BY <2>1 DEF ReceptionInv
  <1>3. ASSUME NEW w \in Workers, NEW batch \in Batches, Receive(w, batch)
        PROVE  ReceptionInv'
    <2>1. DistinctTodo'
      <3> DEFINE inv == [Idle EXCEPT !.pc = "check", !.todo = batch,
                                     !.batch = {batch[i] : i \in DOMAIN batch}]
      <3>1. worker' = [worker EXCEPT ![w] = inv] /\ inv.todo = batch
            /\ \A i, j \in DOMAIN batch : batch[i] = batch[j] => i = j
        BY <1>3 DEF Receive, Idle
      <3> HIDE DEF inv
      <3> QED
        BY <1>1, <3>1, OthersStay DEF DistinctTodo
    <2>2. \A p, o : Counted(p, o)' = Counted(p, o)
      BY <1>3 DEF Receive, Counted
    <2>3. ASSUME NEW p \in Proposals, NEW o \in Options
          PROVE  /\ Cardinality(Ahead(p, o))' <= Cardinality(Receptions(p, o))'
                 /\ Counted(p, o)' + Cardinality(Ahead(p, o))' <= Cardinality(Receptions(p, o))'
      <3>1. PICK n \in Nat :
              /\ Cardinality(Ahead(p, o))' <= Cardinality(Ahead(p, o)) + n
              /\ Cardinality(Receptions(p, o))' >= Cardinality(Receptions(p, o)) + n
        BY <1>3, ReceiveReceptions
      <3> QED
        BY <1>2, <2>2, <3>1, ReceptionSets
    <2> QED
      BY <2>1, <2>3 DEF ReceptionInv
  <1>4. ASSUME DistinctTodo', \A m \in Messages : queue'[m].receives = queue[m].receives,
               \A w \in Workers : Uncounted(w)' \subseteq Uncounted(w),
               NEW p \in Proposals, NEW o \in Options
        PROVE  /\ Receptions(p, o)' = Receptions(p, o)
               /\ Ahead(p, o)' \subseteq Ahead(p, o)
               /\ Cardinality(Ahead(p, o))' <= Cardinality(Ahead(p, o))
               /\ \A x \in Ahead(p, o) \ Ahead(p, o)' :
                    Cardinality(Ahead(p, o))' + 1 <= Cardinality(Ahead(p, o))
    <2>1. Receptions(p, o)' = Receptions(p, o)
      BY <1>4 DEF Receptions, Reveals, Events
    <2>2. Ahead(p, o)' \subseteq Ahead(p, o)
      BY <1>4 DEF Ahead, Reveals, Events
    <2> DEFINE after == Ahead(p, o)'
    <2> HIDE DEF after
    <2>3. ASSUME NEW x \in Ahead(p, o) \ after
          PROVE  Cardinality(after) + 1 <= Cardinality(Ahead(p, o))
      <3>1. after \cup {x} \subseteq Ahead(p, o)
        BY <2>2, <2>3 DEF after
      <3>2. Cardinality(after \cup {x}) = Cardinality(after) + 1
        BY <2>3, ReceptionSets, FS_AddElement DEF after
      <3> QED
        BY <3>1, <3>2, ReceptionSets, FS_Subset
    <2> QED
      BY <2>1, <2>2, <2>3, ReceptionSets, FS_Subset DEF after
  <1>5. ASSUME DistinctTodo', \A m \in Messages : queue'[m].receives = queue[m].receives,
               \A w \in Workers : Uncounted(w)' \subseteq Uncounted(w),
               \A p \in Proposals, o \in Options :
                 \/ Counted(p, o)' <= Counted(p, o) \/ Counted(p, o)' <= 0
                 \/ /\ Counted(p, o)' = Counted(p, o) + 1
                    /\ \E x : x \in Ahead(p, o) \ Ahead(p, o)'
        PROVE  ReceptionInv'
    <2> SUFFICES ASSUME NEW p \in Proposals, NEW o \in Options
                 PROVE  /\ Cardinality(Ahead(p, o))' <= Cardinality(Receptions(p, o))'
                        /\ Counted(p, o)' + Cardinality(Ahead(p, o))'
                             <= Cardinality(Receptions(p, o))'
      BY <1>5 DEF ReceptionInv
    <2>1. /\ Receptions(p, o)' = Receptions(p, o)
          /\ Cardinality(Ahead(p, o))' <= Cardinality(Ahead(p, o))
          /\ \A x \in Ahead(p, o) \ Ahead(p, o)' :
               Cardinality(Ahead(p, o))' + 1 <= Cardinality(Ahead(p, o))
      BY <1>4, <1>5
    <2>2. Cardinality(Receptions(p, o))' = Cardinality(Receptions(p, o))
      BY <2>1
    <2>3. /\ Cardinality(Ahead(p, o)) \in Nat /\ Cardinality(Receptions(p, o)) \in Nat
          /\ Cardinality(Ahead(p, o))' \in Nat
      BY ReceptionSets
    <2>4. CASE Counted(p, o)' <= Counted(p, o) \/ Counted(p, o)' <= 0
      BY <1>2, <2>1, <2>2, <2>3, <2>4
    <2>5. CASE /\ Counted(p, o)' = Counted(p, o) + 1
               /\ \E x : x \in Ahead(p, o) \ Ahead(p, o)'
      BY <1>2, <2>1, <2>2, <2>3, <2>5
    <2> QED
      BY <1>5, <2>4, <2>5
  <1>6. ASSUME NEW w \in Workers, Handle(w)
        PROVE  ReceptionInv'
    <2>1. /\ DistinctTodo'
          /\ \A v \in Workers : Uncounted(v)' \subseteq Uncounted(v)
      BY <1>1, <1>6, UncountedStep
    <2>2. queue' = queue
      BY <1>6 DEF Handle, Check, ApplyCreated, ApplyCommitted, ApplyRevealed, ApplyEnded,
                  Record, Undo, Mark, Unrecord, Unapply, WriteRow, WriteActivity
    <2>3. ASSUME NEW p \in Proposals, NEW o \in Options, NEW v \in Workers, Handle(v),
                 worker[v].pc = "apply", EventAt(v) \in Reveals(p, o)
          PROVE  \E x : x \in Ahead(p, o) \ Ahead(p, o)'
      <3>1. Current(v) \in Uncounted(v) \ Uncounted(v)' /\ Current(v) \in Messages
        BY <1>1, <2>3, UncountedStep, CurrentType DEF Busy
      <3> DEFINE m == Current(v)
                 x == <<v, m>>
      <3>2. EventOf[m] \in Reveals(p, o)
        BY <2>3 DEF EventAt
      <3>3. x \in Ahead(p, o)
        BY <3>1, <3>2 DEF Ahead
      <3>4. x \notin Ahead(p, o)'
        BY <3>1 DEF Ahead
      <3> QED
        BY <3>3, <3>4
    <2>4. \A p \in Proposals, o \in Options :
            \/ Counted(p, o)' <= Counted(p, o) \/ Counted(p, o)' <= 0
            \/ /\ Counted(p, o)' = Counted(p, o) + 1
               /\ \E x : x \in Ahead(p, o) \ Ahead(p, o)'
      BY <2>3, CountStep
    <2> QED
      BY <1>5, <2>1, <2>2, <2>4
  <1>7. ASSUME UNCHANGED rows
        PROVE  \A p \in Proposals, o \in Options : Counted(p, o)' <= Counted(p, o)
    BY <1>2, <1>7 DEF Counted
  <1>8. ASSUME NEW w \in Workers, Return(w) \/ Crash(w)
        PROVE  ReceptionInv'
    <2>1. worker' = [worker EXCEPT ![w] = Idle] /\ UNCHANGED rows
      BY <1>8 DEF Return, Crash
    <2>2. worker'[w].todo = <<>> /\ \A v \in Workers \ {w} : worker'[v] = worker[v]
      <3>1. Idle.todo = <<>>
        BY DEF Idle
      <3> QED
        BY <2>1, <3>1, OthersStay
    <2>3. Uncounted(w)' = {}
      BY <2>2 DEF Uncounted, Remaining
    <2>4. \A v \in Workers \ {w} : Uncounted(v)' = Uncounted(v)
      BY <2>2 DEF Uncounted, Remaining, Current
    <2>5. DistinctTodo'
      BY <1>1, <2>2 DEF DistinctTodo
    <2>6. \A m \in Messages : queue'[m].receives = queue[m].receives
      BY <1>8 DEF Return, Crash, TypeInv, TypeOK, MessageState
    <2> QED
      BY <1>5, <1>7, <2>1, <2>3, <2>4, <2>5, <2>6
  <1>9. ASSUME NEW m \in Messages, Reappear(m) \/ Redrive(m)
        PROVE  ReceptionInv'
    <2>1. UNCHANGED <<rows, worker>>
      BY <1>9 DEF Reappear, Redrive
    <2>2. \A k \in Messages : queue'[k].receives = queue[k].receives
      BY <1>9 DEF Reappear, Redrive, TypeInv, TypeOK, MessageState
    <2>3. DistinctTodo' /\ \A v \in Workers : Uncounted(v)' = Uncounted(v)
      BY <1>1, <2>1 DEF DistinctTodo, Uncounted, Remaining, Current
    <2> QED
      BY <1>5, <1>7, <2>1, <2>2, <2>3
  <1>10. CASE UNCHANGED vars
    <2>1. UNCHANGED <<rows, worker, queue>>
      BY <1>10 DEF vars
    <2>2. DistinctTodo' /\ \A v \in Workers : Uncounted(v)' = Uncounted(v)
      BY <1>1, <2>1 DEF DistinctTodo, Uncounted, Remaining, Current
    <2> QED
      BY <1>5, <1>7, <2>1, <2>2
  <1> QED
    BY <1>3, <1>6, <1>8, <1>9, <1>10 DEF Next, Deliver

\* One reception of a message counts its vote at most once, with either backend,
\* through every crash, failing call and lost response, late creations and shared ids:
\* the tally is at most the number of receptions, so maxReceiveCount bounds it.
THEOREM ReceptionsBoundTally == Spec => []OncePerReception
  <1>1. Init => ReceptionInv
    <2> SUFFICES ASSUME Init PROVE ReceptionInv
      OBVIOUS
    <2>1. DistinctTodo
      BY DEF Init, Idle, DistinctTodo
    <2>2. ASSUME NEW p \in Proposals, NEW o \in Options
          PROVE  Cardinality(Ahead(p, o)) = 0 /\ Counted(p, o) = 0
      <3>1. Ahead(p, o) = {}
        BY DEF Init, Idle, Ahead, Uncounted, Remaining, Uncertain
      <3> QED
        BY <3>1, FS_EmptySet, TallyInit
    <2> QED
      BY <2>1, <2>2, ReceptionSets DEF ReceptionInv
  <1>2. TypeInv /\ TypeInv' /\ ReceptionInv /\ [Next]_vars => ReceptionInv'
    BY ReceptionStep
  <1>3. TypeInv /\ ReceptionInv => OncePerReception
    <2> SUFFICES ASSUME TypeInv, ReceptionInv, NEW p \in Proposals, NEW o \in Options
                 PROVE  Counted(p, o) <= Cardinality(Receptions(p, o))
      BY DEF OncePerReception
    <2>1. Counted(p, o) + Cardinality(Ahead(p, o)) <= Cardinality(Receptions(p, o))
      BY DEF ReceptionInv
    <2> QED
      BY <2>1, TallyTypes, ReceptionSets
  <1> QED
    BY <1>1, <1>2, <1>3, KindInvariant, PTL DEF Spec

------------------------------------------------------------------------------
(* What a step of the Aggregator takes from the messages it has received.   *)

\* Results become visible only while an end that was received is applied.
LEMMA ShowStep ==
  ASSUME TypeInv, [Next]_vars, NEW p \in Proposals,
         rows'[p].results_visible, ~rows[p].results_visible
  PROVE  \E w \in Workers :
           /\ worker[w].pc \in Busy
           /\ EventAt(w).type = "ProposalFinalized" /\ EventAt(w).proposal = p
  <1>1. PICK w \in Workers : Handle(w)
    BY DeliveryStep
  <1>2. worker[w].pc \in Busy
    BY <1>1 DEF Handle, Check, ApplyCreated, ApplyCommitted, ApplyRevealed, ApplyEnded,
                Record, Undo, Mark, Unrecord, Unapply, Busy
  <1>3. /\ EventAt(w).proposal \in Proposals /\ EventAt(w).option \in Options
        /\ rows \in [Proposals -> Row] /\ RowOf(w) \in Row
    BY <1>2, CurrentType DEF Event, TypeInv, TypeOK, RowOf
  <1> DEFINE Hides(row) == row.results_visible => RowOf(w).results_visible
  <1>4. /\ Hides(AfterRevealed(RowOf(w), EventAt(w).option))
        /\ Hides(AfterUndoRevealed(RowOf(w), EventAt(w).option))
        /\ Hides(AfterClosed(RowOf(w))) /\ Hides(AfterCreated(RowOf(w)))
    BY <1>3 DEF AfterRevealed, AfterUndoRevealed, AfterClosed, AfterCreated, CreatedRow, Row
  <1>5. ASSUME NEW row, rows' = [rows EXCEPT ![EventAt(w).proposal] = row]
        PROVE  EventAt(w).proposal = p /\ ~Hides(row)
    BY <1>3, <1>5 DEF RowOf
  <1> HIDE DEF Hides
  <1>6. EventAt(w).proposal = p
    BY <1>1, <1>5, HandleRow
  <1>7. ASSUME NEW accepts, NEW row, NEW onDone, NEW onError,
               WriteRow(w, accepts, row, onDone, onError)
        PROVE  ~Hides(row)
    BY <1>5, <1>7 DEF WriteRow
  <1>8. ApplyEnded(w)
    <2>1. ~Check(w) /\ ~ApplyCommitted(w) /\ ~Record(w) /\ ~Mark(w) /\ ~Unrecord(w)
      BY DEF Check, ApplyCommitted, Record, Mark, Unrecord, WriteActivity
    <2>2. ~ApplyCreated(w) /\ ~ApplyRevealed(w)
      BY <1>4, <1>7 DEF ApplyCreated, ApplyRevealed
    <2>3. ~Undo(w) /\ ~Unapply(w)
      BY <1>4, <1>7 DEF Undo, Unapply
    <2> QED
      BY <1>1, <2>1, <2>2, <2>3 DEF Handle
  <1>9. EventAt(w).type = "ProposalFinalized"
    BY <1>4, <1>7, <1>8 DEF ApplyEnded
  <1> QED
    BY <1>2, <1>6, <1>9

\* What an invocation still has to handle it had before, or receives now.
LEMMA TodoStep ==
  ASSUME TypeInv, VerdictInv, NEW v \in Workers, NEW w \in Workers
  PROVE  /\ Handle(v) \/ Return(v) =>
              \/ worker'[w].todo = worker[w].todo
              \/ worker[w].todo # <<>> /\ worker'[w].todo = Tail(worker[w].todo)
              \/ worker'[w].todo = <<>>
         /\ \A m : Receive(v, <<m>>) => worker'[w].todo \in {worker[w].todo, <<m>>}
  <1>1. ASSUME NEW inv, worker' = [worker EXCEPT ![v] = inv]
        PROVE  worker'[w] = IF v = w THEN inv ELSE worker[w]
    BY <1>1, OthersStay
  <1>2. ASSUME NEW m, Receive(v, <<m>>)
        PROVE  worker'[w].todo \in {worker[w].todo, <<m>>}
    <2> DEFINE inv == [Idle EXCEPT !.pc = "check", !.todo = <<m>>,
                                   !.batch = {<<m>>[i] : i \in DOMAIN <<m>>}]
    <2>1. worker' = [worker EXCEPT ![v] = inv] /\ inv.todo = <<m>>
      BY <1>2 DEF Receive, Idle
    <2> HIDE DEF inv
    <2> QED
      BY <1>1, <2>1
  <1>3. Return(v) => worker'[w].todo \in {worker[w].todo, <<>>}
    BY <1>1 DEF Return, Idle
  <1>4. ASSUME Handle(v)
        PROVE  \/ worker'[w].todo = worker[w].todo
               \/ worker[w].todo # <<>> /\ worker'[w].todo = Tail(worker[w].todo)
    <2>1. PICK inv : worker' = [worker EXCEPT ![v] = inv] /\ Successor(v, inv)
      BY <1>4, HandleIsSuccessor
    <2>2. worker[v].pc \in Busy
      BY <1>4, HandleIsSuccessor
    <2>3. worker[v] \in Invocation /\ worker[v].todo # <<>>
      BY <2>2, CurrentType
    <2>4. /\ \A pc \in Busy : GoesTo(v, pc).todo = worker[v].todo
          /\ \A verdict \in {"done", "failed"} :
               /\ Ends(v, verdict).todo = Tail(worker[v].todo)
               /\ [worker[v] EXCEPT !.pc = "unrecord", !.verdict = verdict].todo =
                    worker[v].todo
      BY <2>2, <2>3, EndsType DEF GoesTo, Invocation
    <2>5. inv.todo \in {worker[v].todo, Tail(worker[v].todo)}
      BY <2>1, <2>4 DEF Successor, Busy
    <2> QED
      BY <1>1, <2>1, <2>3, <2>5
  <1> QED
    BY <1>2, <1>3, <1>4

\* The ids that become marked are those of received messages.
LEMMA MarkStep ==
  ASSUME TypeInv, [Next]_vars
  PROVE  \/ processed' = processed
         \/ \E w \in Workers :
              /\ worker[w].pc \in Busy
              /\ processed' = processed \cup {EventAt(w).id}
  <1>1. ASSUME NEW w \in Workers, Handle(w)
        PROVE  processed' = processed \/ Mark(w)
    BY <1>1 DEF Handle, Check, ApplyCreated, ApplyCommitted, ApplyRevealed, ApplyEnded,
                Record, Undo, Unrecord, Unapply, WriteRow, WriteActivity
  <1> QED
    BY <1>1, DeliveryStep DEF Mark, Busy
==============================================================================
