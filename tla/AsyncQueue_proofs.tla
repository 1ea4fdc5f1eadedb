------------------------- MODULE AsyncQueue_proofs -------------------------
(***************************************************************************)
(* Proofs about AsyncQueue: its type invariant, that no wakeup is lost,    *)
(* that exactly the pending consumers are in line, that a pending producer *)
(* has an item in the queue, that nothing is handed out twice, and that    *)
(* the queue implements FifoQueue.                                         *)
(***************************************************************************)
EXTENDS AsyncQueue, DataLemmas
-----------------------------------------------------------------------------
(* Types *)

\* The initial state has the types.
LEMMA TypeInit == Init => TypeOK
<1> SUFFICES ASSUME Init PROVE TypeOK
  OBVIOUS
<1> QED
  BY EmptySeq DEF Init, TypeOK, Deferreds, Readers

\* Every step keeps the types.
LEMMA TypeStep == TypeOK /\ [Next]_vars => TypeOK'
<1> SUFFICES ASSUME TypeOK, [Next]_vars PROVE TypeOK'
  OBVIOUS
<1> USE DEF TypeOK
<1>1. ASSUME NEW i \in Items, Refuse(i) PROVE TypeOK'
  BY <1>1 DEF Refuse
<1>2. ASSUME NEW i \in Items, HandOver(i) PROVE TypeOK'
  <2>1. Head(waiting) \in Consumers /\ waiting' \in Seq(Consumers)
    BY <1>2, TailFacts DEF HandOver
  <2>2. delivered' \in Seq(Items)
    BY <1>2, AppendFacts DEF HandOver
  <2> QED
    BY <1>2, <2>1, <2>2 DEF HandOver, Deferreds, Readers
<1>3. ASSUME NEW i \in Items, Submit(i) PROVE TypeOK'
  <2>1. queued' \in Seq(Items)
    BY <1>3, AppendFacts DEF Submit, Push
  <2> QED
    BY <1>3, <2>1 DEF Submit, Push, Deferreds
<1>4. ASSUME NEW i \in Items, Wait(i) PROVE TypeOK'
  BY <1>4 DEF Wait, Deferreds
<1>5. ASSUME NEW i \in Items, Abort(i) PROVE TypeOK'
  <2>1. queued' \in Seq(Items)
    BY <1>5, RemoveFacts DEF Abort
  <2> QED
    BY <1>5, <2>1 DEF Abort, Settle, Deferreds
<1>6. ASSUME NEW c \in Consumers, Dequeue(c) PROVE TypeOK'
  <2>1. Head(queued) \in Items /\ queued' \in Seq(Items)
    BY <1>6, TailFacts DEF Dequeue, Shift
  <2>2. delivered' \in Seq(Items)
    BY <1>6, <2>1, AppendFacts DEF Dequeue, Shift
  <2> QED
    BY <1>6, <2>1, <2>2 DEF Dequeue, Shift, Settle, Deferreds, Readers
<1>7. ASSUME NEW c \in Consumers, DequeueWait(c) PROVE TypeOK'
  <2>1. waiting' \in Seq(Consumers)
    BY <1>7, AppendFacts DEF DequeueWait
  <2> QED
    BY <1>7, <2>1 DEF DequeueWait, Readers
<1>8. ASSUME NEW c \in Consumers, DequeueEnded(c) PROVE TypeOK'
  BY <1>8 DEF DequeueEnded, Readers
<1>9. ASSUME NEW c \in Consumers, Leave(c) PROVE TypeOK'
  BY <1>9, EmptySeq DEF Leave, Readers
<1>10. ASSUME End PROVE TypeOK'
  BY <1>10, EmptySeq DEF End, EndWaiting, Readers
<1>11. ASSUME Clear PROVE TypeOK'
  BY <1>11, EmptySeq DEF Clear, Settle, Deferreds
<1>12. CASE UNCHANGED vars
  BY <1>12 DEF vars
<1> QED
  BY <1>1, <1>2, <1>3, <1>4, <1>5, <1>6, <1>7, <1>8, <1>9, <1>10, <1>11, <1>12 DEF Next

\* Theorem: every variable keeps its type, whatever the items and consumers
\* are; in particular only an abort signal ever rejects a producer's promise.
THEOREM TypeCorrect == Spec => []TypeOK
<1>1. Init => TypeOK
  BY TypeInit
<1>2. TypeOK /\ [Next]_vars => TypeOK'
  BY TypeStep
<1> QED
  BY <1>1, <1>2, PTL DEF Spec
-----------------------------------------------------------------------------
(* Consumers that wait *)

\* Every step keeps the queue empty and open while a consumer waits.
LEMMA WakeupStep == TypeOK /\ NoLostWakeup /\ [Next]_vars => NoLostWakeup'
<1> SUFFICES ASSUME TypeOK, NoLostWakeup, [Next]_vars PROVE NoLostWakeup'
  OBVIOUS
<1> USE DEF NoLostWakeup
<1>1. ASSUME NEW i \in Items, Refuse(i) \/ HandOver(i) \/ Submit(i) \/ Wait(i)
      PROVE  NoLostWakeup'
  BY <1>1 DEF Refuse, HandOver, Submit, Push, Wait
<1>2. ASSUME NEW i \in Items, Abort(i) PROVE NoLostWakeup'
  <2>1. queued # <<>>
    BY <1>2 DEF Abort
  <2> QED
    BY <1>2, <2>1 DEF Abort
<1>3. ASSUME NEW c \in Consumers,
             Dequeue(c) \/ DequeueWait(c) \/ DequeueEnded(c) \/ Leave(c)
      PROVE  NoLostWakeup'
  BY <1>3 DEF Dequeue, Shift, DequeueWait, DequeueEnded, Leave
<1>4. ASSUME End \/ Clear PROVE NoLostWakeup'
  BY <1>4 DEF End, EndWaiting, Clear
<1>5. CASE UNCHANGED vars
  BY <1>5 DEF vars
<1> QED
  BY <1>1, <1>2, <1>3, <1>4, <1>5 DEF Next

\* Theorem: a consumer that waits is never passed over: as long as one does, the
\* queue is empty and has not ended.
THEOREM WakeupsKept == Spec => []NoLostWakeup
<1>1. Init => NoLostWakeup
  BY DEF Init, NoLostWakeup
<1>2. TypeOK /\ NoLostWakeup /\ [Next]_vars => NoLostWakeup'
  BY WakeupStep
<1> QED
  BY <1>1, <1>2, TypeCorrect, PTL DEF Spec

\* Consumer c is in line for an item.
InLine(c) == \E k \in DOMAIN waiting : waiting[k] = c

\* Handing an item over takes the first consumer, and nobody else, out of line.
LEMMA HandOverLine ==
  ASSUME TypeOK, WaitersInLine, NEW i \in Items, HandOver(i)
  PROVE  WaitersInLine'
<1> PICK h \in Consumers : h = Head(waiting)
  BY TailFacts DEF TypeOK, HandOver
<1>1. /\ waiting \in Seq(Consumers) /\ waiting # <<>>
      /\ waiting' = Tail(waiting) /\ reader' = [reader EXCEPT ![h] = "holding"]
  BY DEF TypeOK, HandOver
<1>2. /\ 1 \in DOMAIN waiting /\ h = waiting[1] /\ h \in Consumers
      /\ \A k \in DOMAIN waiting' :
           k \in Nat /\ k + 1 \in DOMAIN waiting /\ waiting'[k] = waiting[k + 1]
      /\ \A k \in DOMAIN waiting : k # 1 => k - 1 \in DOMAIN waiting' /\ waiting'[k - 1] = waiting[k]
  BY <1>1, TailFacts, TailKeeps
<1>3. IsInjective(waiting') /\ ~InLine(h)'
  BY <1>1, TailInjects DEF WaitersInLine, InLine
<1>4. ASSUME NEW c \in Consumers, c # h PROVE reader'[c] = "waiting" <=> InLine(c)'
  <2>1. reader'[c] = reader[c] /\ (reader[c] = "waiting" <=> InLine(c))
    BY <1>1, <1>4 DEF WaitersInLine, InLine, TypeOK
  <2>2. InLine(c) => InLine(c)'
    BY <1>2, <1>4 DEF InLine
  <2>3. InLine(c)' => InLine(c)
    BY <1>2 DEF InLine
  <2> QED
    BY <2>1, <2>2, <2>3
<1>5. reader'[h] # "waiting"
  BY <1>1, <1>2 DEF TypeOK
<1> QED
  BY <1>3, <1>4, <1>5 DEF WaitersInLine, InLine

\* A consumer that starts to wait goes to the end of the line, once.
LEMMA WaitLine ==
  ASSUME TypeOK, WaitersInLine, NEW c \in Consumers, DequeueWait(c)
  PROVE  WaitersInLine'
<1>1. /\ waiting \in Seq(Consumers) /\ waiting' = Append(waiting, c)
      /\ reader' = [reader EXCEPT ![c] = "waiting"] /\ ~InLine(c)
  BY DEF TypeOK, DequeueWait, WaitersInLine, InLine
<1>2. /\ \A k \in DOMAIN waiting' :
           k \in Nat /\ (\/ k \in DOMAIN waiting /\ waiting'[k] = waiting[k]
                         \/ /\ k \notin DOMAIN waiting /\ waiting'[k] = c
                            /\ \A j \in DOMAIN waiting : j < k)
      /\ \A k \in DOMAIN waiting : k \in DOMAIN waiting' /\ waiting'[k] = waiting[k]
      /\ \E k \in DOMAIN waiting' : waiting'[k] = c
  BY <1>1, AppendFacts, AppendKeeps
<1>3. IsInjective(waiting')
  BY <1>1, AppendInjects DEF WaitersInLine, InLine
<1>4. ASSUME NEW d \in Consumers, d # c PROVE reader'[d] = "waiting" <=> InLine(d)'
  <2>1. reader'[d] = reader[d] /\ (reader[d] = "waiting" <=> InLine(d))
    BY <1>1, <1>4 DEF WaitersInLine, InLine, TypeOK
  <2>2. InLine(d) => InLine(d)'
    BY <1>2 DEF InLine
  <2>3. InLine(d)' => InLine(d)
    BY <1>2, <1>4 DEF InLine
  <2> QED
    BY <2>1, <2>2, <2>3
<1>5. reader'[c] = "waiting" /\ InLine(c)'
  BY <1>1, <1>2 DEF TypeOK, InLine
<1> QED
  BY <1>3, <1>4, <1>5 DEF WaitersInLine, InLine

\* The end of the queue leaves nobody in line and nobody waiting.
LEMMA NobodyInLine ==
  ASSUME waiting' = <<>>, \A c \in Consumers : reader'[c] # "waiting"
  PROVE  WaitersInLine'
BY EmptySeq DEF WaitersInLine, IsInjective

\* Every step keeps exactly the waiting consumers in line.
LEMMA LineStep == TypeOK /\ WaitersInLine /\ [Next]_vars => WaitersInLine'
<1> SUFFICES ASSUME TypeOK, WaitersInLine, [Next]_vars PROVE WaitersInLine'
  OBVIOUS
<1>1. ASSUME UNCHANGED <<waiting, reader>> PROVE WaitersInLine'
  BY <1>1 DEF WaitersInLine, IsInjective
<1>2. ASSUME NEW i \in Items, Refuse(i) \/ Submit(i) \/ Wait(i) \/ Abort(i)
      PROVE  WaitersInLine'
  BY <1>1, <1>2 DEF Refuse, Submit, Push, Wait, Abort
<1>3. ASSUME NEW i \in Items, HandOver(i) PROVE WaitersInLine'
  BY <1>3, HandOverLine
<1>4. ASSUME NEW c \in Consumers, waiting' = waiting, reader[c] # "waiting",
             NEW to \in Readers, to # "waiting", reader' = [reader EXCEPT ![c] = to]
      PROVE  WaitersInLine'
  <2>1. \A d \in Consumers : reader'[d] = "waiting" <=> reader[d] = "waiting"
    BY <1>4 DEF TypeOK
  <2> QED
    BY <1>4, <2>1 DEF WaitersInLine, IsInjective
<1>5. ASSUME NEW c \in Consumers, Dequeue(c) PROVE WaitersInLine'
  BY <1>5, <1>4 DEF Dequeue, Shift, Readers
<1>6. ASSUME NEW c \in Consumers, DequeueWait(c) PROVE WaitersInLine'
  BY <1>6, WaitLine
<1>7. ASSUME NEW c \in Consumers, DequeueEnded(c) PROVE WaitersInLine'
  BY <1>7, <1>4 DEF DequeueEnded, Readers
<1>8. ASSUME NEW c \in Consumers, Leave(c) PROVE WaitersInLine'
  <2>1. CASE ended
    BY <1>8, <2>1, <1>4 DEF Leave, Readers
  <2>2. CASE ~ended
    BY <1>8, <2>2, NobodyInLine DEF Leave, TypeOK
  <2> QED
    BY <2>1, <2>2
<1>9. ASSUME End PROVE WaitersInLine'
  BY <1>9, NobodyInLine DEF End, EndWaiting, TypeOK
<1>10. ASSUME Clear \/ UNCHANGED vars PROVE WaitersInLine'
  BY <1>1, <1>10 DEF Clear, vars
<1> QED
  BY <1>2, <1>3, <1>5, <1>6, <1>7, <1>8, <1>9, <1>10 DEF Next

\* Theorem: a consumer is in line exactly while its dequeue() is pending, and in
\* one place only, so one item wakes one consumer.
THEOREM LineCorrect == Spec => []WaitersInLine
<1>1. Init => WaitersInLine
  BY EmptySeq DEF Init, WaitersInLine, IsInjective
<1>2. TypeOK /\ WaitersInLine /\ [Next]_vars => WaitersInLine'
  BY LineStep
<1> QED
  BY <1>1, <1>2, TypeCorrect, PTL DEF Spec
-----------------------------------------------------------------------------
(* Items *)

\* Dequeueing takes the oldest item, and no other, out of the queue.
LEMMA DequeueItems ==
  ASSUME TypeOK, NEW c \in Consumers, Dequeue(c)
  PROVE  /\ Head(queued) \in Items /\ Queued(Head(queued))
         /\ \A i \in Items : i # Head(queued) => (Queued(i)' <=> Queued(i))
<1>1. queued \in Seq(Items) /\ queued # <<>> /\ queued' = Tail(queued)
  BY DEF TypeOK, Dequeue, Shift
<1>2. /\ 1 \in DOMAIN queued /\ Head(queued) = queued[1] /\ Head(queued) \in Items
      /\ \A k \in DOMAIN queued' :
           k + 1 \in DOMAIN queued /\ queued'[k] = queued[k + 1]
      /\ \A k \in DOMAIN queued : k # 1 => k - 1 \in DOMAIN queued' /\ queued'[k - 1] = queued[k]
  BY <1>1, TailFacts, TailKeeps
<1>3. ASSUME NEW i \in Items, i # Head(queued) PROVE Queued(i)' <=> Queued(i)
  <2>1. Queued(i) => Queued(i)'
    BY <1>2, <1>3 DEF Queued
  <2>2. Queued(i)' => Queued(i)
    BY <1>2 DEF Queued
  <2> QED
    BY <2>1, <2>2
<1> QED
  BY <1>2, <1>3 DEF Queued

\* Every step keeps a pending producer's item in the queue.
LEMMA PendingStep == TypeOK /\ PendingAreQueued /\ [Next]_vars => PendingAreQueued'
<1> SUFFICES ASSUME TypeOK, PendingAreQueued, [Next]_vars PROVE PendingAreQueued'
  OBVIOUS
<1>1. ASSUME NEW i \in Items, Refuse(i) PROVE PendingAreQueued'
  BY <1>1 DEF Refuse, PendingAreQueued, Queued
<1>2. ASSUME NEW i \in Items, HandOver(i) PROVE PendingAreQueued'
  BY <1>2 DEF HandOver, PendingAreQueued, Queued, TypeOK
<1>3. ASSUME NEW i \in Items, Submit(i) PROVE PendingAreQueued'
  <2>1. /\ \A j \in Items : Queued(j) => Queued(j)'
        /\ Queued(i)'
    <3>1. queued \in Seq(Items) /\ queued' = Append(queued, i)
      BY <1>3 DEF Submit, Push, TypeOK
    <3> QED
      BY <3>1, AppendKeeps DEF Queued
  <2>2. \A j \in Items : j # i => dequeued'[j] = dequeued[j]
    BY <1>3 DEF Submit, Push, TypeOK
  <2> QED
    BY <2>1, <2>2 DEF PendingAreQueued
<1>4. ASSUME NEW i \in Items, Wait(i) PROVE PendingAreQueued'
  BY <1>4 DEF Wait, PendingAreQueued, Queued, TypeOK
<1>5. ASSUME NEW i \in Items, Abort(i) PROVE PendingAreQueued'
  <2>1. PICK k \in DOMAIN queued : queued[k] = i /\ queued' = RemoveAt(queued, k)
    BY <1>5 DEF Abort
  <2>2. \A j \in Items : j # i /\ Queued(j) => Queued(j)'
    BY <2>1, RemoveKeeps DEF Queued, TypeOK
  <2>3. dequeued'[i] # "pending" /\ \A j \in Items : j # i => dequeued'[j] = dequeued[j]
    BY <1>5 DEF Abort, Settle, TypeOK
  <2> QED
    BY <2>2, <2>3 DEF PendingAreQueued
<1>6. ASSUME NEW c \in Consumers, Dequeue(c) PROVE PendingAreQueued'
  <2>1. PICK i \in Items : i = Head(queued)
    BY <1>6, DequeueItems
  <2>2. dequeued'[i] # "pending" /\ \A j \in Items : j # i => dequeued'[j] = dequeued[j]
    BY <1>6, <2>1 DEF Dequeue, Shift, Settle, TypeOK
  <2> QED
    BY <1>6, <2>1, <2>2, DequeueItems DEF PendingAreQueued
<1>7. ASSUME NEW c \in Consumers, DequeueWait(c) \/ DequeueEnded(c) \/ Leave(c)
      PROVE  PendingAreQueued'
  BY <1>7 DEF DequeueWait, DequeueEnded, Leave, PendingAreQueued, Queued
<1>8. ASSUME End \/ UNCHANGED vars PROVE PendingAreQueued'
  BY <1>8 DEF End, vars, PendingAreQueued, Queued
<1>9. ASSUME Clear PROVE PendingAreQueued'
  BY <1>9 DEF Clear, Settle, PendingAreQueued
<1> QED
  BY <1>1, <1>2, <1>3, <1>4, <1>5, <1>6, <1>7, <1>8, <1>9 DEF Next

\* Theorem: whoever waits for an item to leave the queue waits for one that is in
\* it; no way to leave the queue forgets its producer.
THEOREM ProducersTold == Spec => []PendingAreQueued
<1>1. Init => PendingAreQueued
  BY DEF Init, PendingAreQueued
<1>2. TypeOK /\ PendingAreQueued /\ [Next]_vars => PendingAreQueued'
  BY PendingStep
<1> QED
  BY <1>1, <1>2, TypeCorrect, PTL DEF Spec

\* Item i was handed to a consumer.
Delivered(i) == \E k \in DOMAIN delivered : delivered[k] = i

\* An item that was in neither place goes to one of them.
LEMMA ArrivalOnce ==
  ASSUME TypeOK, DeliveredOnce, NEW i \in Items, HandOver(i) \/ Submit(i)
  PROVE  DeliveredOnce'
<1>1. submitted[i] = "new" /\ ~Queued(i) /\ ~Delivered(i)
  BY DEF HandOver, Submit, Push, DeliveredOnce, Delivered
<1>2. /\ submitted'[i] = "accepted"
      /\ \A j \in Items : j # i => submitted'[j] = submitted[j]
  BY DEF HandOver, Submit, Push, TypeOK
<1>3. CASE HandOver(i)
  <2>1. delivered \in Seq(Items) /\ delivered' = Append(delivered, i) /\ queued' = queued
    BY <1>3 DEF HandOver, TypeOK
  <2>2. IsInjective(delivered')
    BY <2>1, <1>1, AppendInjects DEF DeliveredOnce, Delivered
  <2>3. \A k \in DOMAIN delivered' : delivered'[k] = i \/ Delivered(delivered'[k])
    BY <2>1, AppendFacts DEF Delivered
  <2> QED
    BY <1>1, <1>2, <2>1, <2>2, <2>3 DEF DeliveredOnce, Delivered, Queued
<1>4. CASE Submit(i)
  <2>1. queued \in Seq(Items) /\ queued' = Append(queued, i) /\ delivered' = delivered
    BY <1>4 DEF Submit, Push, TypeOK
  <2>2. IsInjective(queued')
    BY <2>1, <1>1, AppendInjects DEF DeliveredOnce, Queued
  <2>3. \A j \in Items : Queued(j)' => j = i \/ Queued(j)
    BY <2>1, AppendFacts DEF Queued
  <2>4. \A k \in DOMAIN delivered : delivered[k] \in Items
    BY ElementOfSeq, LenProperties DEF TypeOK
  <2> QED
    BY <1>1, <1>2, <2>1, <2>2, <2>3, <2>4 DEF DeliveredOnce, Delivered
<1> QED
  BY <1>3, <1>4

\* An item that leaves the queue for a consumer is in the other place only.
LEMMA DequeueOnce ==
  ASSUME TypeOK, DeliveredOnce, NEW c \in Consumers, Dequeue(c)
  PROVE  DeliveredOnce'
<1> PICK i \in Items : i = Head(queued)
  BY DequeueItems
<1>1. /\ queued \in Seq(Items) /\ queued # <<>> /\ queued' = Tail(queued)
      /\ delivered \in Seq(Items) /\ delivered' = Append(delivered, i)
      /\ submitted' = submitted
  BY DEF Dequeue, Shift, TypeOK
<1>2. Queued(i) /\ ~Delivered(i) /\ submitted[i] = "accepted"
  BY DequeueItems DEF DeliveredOnce, Delivered
<1>3. IsInjective(queued') /\ ~Queued(i)'
  BY <1>1, TailInjects DEF DeliveredOnce, Queued
<1>4. IsInjective(delivered')
  BY <1>1, <1>2, AppendInjects DEF DeliveredOnce, Delivered
<1>5. \A j \in Items : Queued(j)' => Queued(j)
  BY <1>3, DequeueItems
<1>6. \A k \in DOMAIN delivered' : delivered'[k] = i \/ Delivered(delivered'[k])
  BY <1>1, AppendFacts DEF Delivered
<1>7. \A k \in DOMAIN delivered : delivered[k] \in Items
  BY ElementOfSeq, LenProperties DEF TypeOK
<1> QED
  BY <1>1, <1>2, <1>3, <1>4, <1>5, <1>6, <1>7 DEF DeliveredOnce, Delivered

\* Items that are dropped were in one place.
LEMMA DropOnce ==
  ASSUME TypeOK, DeliveredOnce, delivered' = delivered, IsInjective(queued'),
         \A i \in Items : Queued(i)' => Queued(i),
         \A i \in Items : submitted'[i] # "accepted" => submitted[i] # "accepted"
  PROVE  DeliveredOnce'
<1>1. \A k \in DOMAIN delivered : delivered[k] \in Items
  BY ElementOfSeq, LenProperties DEF TypeOK
<1> QED
  BY <1>1 DEF DeliveredOnce

\* Every step keeps every item in one place.
LEMMA OnceStep == TypeOK /\ DeliveredOnce /\ [Next]_vars => DeliveredOnce'
<1> SUFFICES ASSUME TypeOK, DeliveredOnce, [Next]_vars PROVE DeliveredOnce'
  OBVIOUS
<1>1. ASSUME UNCHANGED <<queued, delivered, submitted>> PROVE DeliveredOnce'
  BY <1>1, DropOnce DEF DeliveredOnce, Queued
<1>2. ASSUME NEW i \in Items, Refuse(i) PROVE DeliveredOnce'
  BY <1>2, DropOnce DEF Refuse, DeliveredOnce, Queued, TypeOK
<1>3. ASSUME NEW i \in Items, HandOver(i) \/ Submit(i) PROVE DeliveredOnce'
  BY <1>3, ArrivalOnce
<1>4. ASSUME NEW i \in Items, Wait(i) PROVE DeliveredOnce'
  BY <1>1, <1>4 DEF Wait
<1>5. ASSUME NEW i \in Items, Abort(i) PROVE DeliveredOnce'
  <2>1. PICK k \in DOMAIN queued : queued' = RemoveAt(queued, k)
    BY <1>5 DEF Abort
  <2>2. IsInjective(queued')
    BY <2>1, RemoveInjects DEF DeliveredOnce, TypeOK
  <2>3. \A j \in Items : Queued(j)' => Queued(j)
    BY <2>1, RemoveOnlyDrops DEF Queued, TypeOK
  <2> QED
    BY <1>5, <2>2, <2>3, DropOnce DEF Abort
<1>6. ASSUME NEW c \in Consumers, Dequeue(c) PROVE DeliveredOnce'
  BY <1>6, DequeueOnce
<1>7. ASSUME NEW c \in Consumers, DequeueWait(c) \/ DequeueEnded(c) \/ Leave(c)
      PROVE  DeliveredOnce'
  BY <1>1, <1>7 DEF DequeueWait, DequeueEnded, Leave
<1>8. ASSUME End \/ UNCHANGED vars PROVE DeliveredOnce'
  BY <1>1, <1>8 DEF End, vars
<1>9. ASSUME Clear PROVE DeliveredOnce'
  <2>1. IsInjective(queued') /\ \A j \in Items : ~Queued(j)'
    BY <1>9, EmptySeq DEF Clear, IsInjective, Queued
  <2> QED
    BY <1>9, <2>1, DropOnce DEF Clear
<1> QED
  BY <1>2, <1>3, <1>4, <1>5, <1>6, <1>7, <1>8, <1>9 DEF Next

\* Theorem: no item is handed out twice, nor handed out while it is queued.
THEOREM OnceCorrect == Spec => []DeliveredOnce
<1>1. Init => DeliveredOnce
  BY EmptySeq DEF Init, DeliveredOnce, IsInjective, Queued
<1>2. TypeOK /\ DeliveredOnce /\ [Next]_vars => DeliveredOnce'
  BY OnceStep
<1> QED
  BY <1>1, <1>2, TypeCorrect, PTL DEF Spec
-----------------------------------------------------------------------------
(* The queue is a first-in first-out queue *)

\* An item that is handed over passes an empty queue, since no wakeup is lost;
\* every other operation of the queue is the one of the abstract queue, or none.
LEMMA FifoStep ==
  TypeOK /\ NoLostWakeup /\ [Next]_vars => [Fifo!Next]_(Fifo!vars)
<1> SUFFICES ASSUME TypeOK, NoLostWakeup, [Next]_vars PROVE [Fifo!Next]_(Fifo!vars)
  OBVIOUS
<1> USE DEF Fifo!vars, Fifo!Next
<1>1. ASSUME NEW i \in Items, Refuse(i) \/ Wait(i) PROVE UNCHANGED Fifo!vars
  BY <1>1 DEF Refuse, Wait
<1>2. ASSUME NEW i \in Items, HandOver(i) PROVE Fifo!PutThrough(i)
  BY <1>2 DEF HandOver, NoLostWakeup, Fifo!PutThrough
<1>3. ASSUME NEW i \in Items, Submit(i) PROVE Fifo!Put(i)
  BY <1>3 DEF Submit, Push, Fifo!Put
<1>4. ASSUME NEW i \in Items, Abort(i) PROVE Fifo!Withdraw(i)
  BY <1>4 DEF Abort, Fifo!Withdraw, RemoveAt, Fifo!RemoveAt
<1>5. ASSUME NEW c \in Consumers, Dequeue(c) PROVE Fifo!Get
  BY <1>5 DEF Dequeue, Shift, Fifo!Get
<1>6. ASSUME NEW c \in Consumers, DequeueWait(c) \/ DequeueEnded(c)
      PROVE  UNCHANGED Fifo!vars
  BY <1>6 DEF DequeueWait, DequeueEnded
<1>7. ASSUME NEW c \in Consumers, Leave(c) PROVE Fifo!End \/ UNCHANGED Fifo!vars
  BY <1>7 DEF Leave, Fifo!End
<1>8. ASSUME End PROVE Fifo!End
  BY <1>8 DEF End, EndWaiting, Fifo!End
<1>9. ASSUME Clear PROVE Fifo!Discard
  BY <1>9 DEF Clear, Fifo!Discard
<1>10. ASSUME UNCHANGED vars PROVE UNCHANGED Fifo!vars
  BY <1>10 DEF vars
<1> QED
  BY <1>1, <1>2, <1>3, <1>4, <1>5, <1>6, <1>7, <1>8, <1>9, <1>10 DEF Next

\* Theorem: the queue, with all its promises and signals, implements the abstract
\* first-in first-out queue.
THEOREM FifoCorrect == Spec => ImplementsFifo
<1>1. Init => Fifo!Init
  BY DEF Init, Fifo!Init
<1>2. TypeOK /\ NoLostWakeup /\ [Next]_vars => [Fifo!Next]_(Fifo!vars)
  BY FifoStep
<1> QED
  BY <1>1, <1>2, TypeCorrect, WakeupsKept, PTL DEF Spec, ImplementsFifo, Fifo!Spec
=============================================================================
