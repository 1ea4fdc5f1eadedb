----------------------------- MODULE AsyncQueue -----------------------------
(***************************************************************************)
(* createAsyncQueue of common/src/async-queue.ts: producers that submit or *)
(* enqueue (and then wait until their item is taken), consumers that       *)
(* dequeue, take or iterate, abort signals, clear and end.                 *)
(*                                                                         *)
(* Every operation runs to its first await without interruption, so each   *)
(* is one step; what the operations leave behind, promises included, is    *)
(* what the interleavings are about.                                       *)
(***************************************************************************)
EXTENDS Naturals, SequencesExt

CONSTANTS
  Items,     \* items, each submitted once
  Blocking,  \* those given to enqueue(), which awaits the item's Deferred
  Signalled, \* those submitted with an AbortSignal
  Consumers  \* readers of the queue

ASSUME QueueAssumption == Blocking \subseteq Items /\ Signalled \subseteq Items

VARIABLES
  queued,    \* items nobody has taken yet
  dequeued,  \* item -> state of the Deferred that tells it left the queue
  submitted, \* item -> what submit() returned
  waiting,   \* consumers whose dequeue() is pending, oldest first
  reader,    \* consumer -> what it is doing
  ended,     \* end() was called
  delivered  \* items handed to consumers, in order (history)

vars == <<queued, dequeued, submitted, waiting, reader, ended, delivered>>

Deferreds == {"none", "pending", "resolved", "rejected"}
Readers == {"ready", "waiting", "holding", "stopped"}
Queued(i) == \E k \in DOMAIN queued : queued[k] = i

Init ==
  /\ queued = <<>> /\ waiting = <<>> /\ delivered = <<>> /\ ended = FALSE
  /\ dequeued = [i \in Items |-> "none"]
  /\ submitted = [i \in Items |-> "new"]
  /\ reader = [c \in Consumers |-> "ready"]

\* A Deferred that exists is settled; one that is settled stays so.
Settle(d, how) == IF d = "pending" THEN how ELSE d
-----------------------------------------------------------------------------
(* Producers *)

\* submit() and enqueue() after end().
Refuse(i) ==
  /\ submitted[i] = "new" /\ ended
  /\ submitted' = [submitted EXCEPT ![i] = "refused"]
  /\ UNCHANGED <<queued, dequeued, waiting, reader, ended, delivered>>

\* The item goes straight to the consumer that has waited longest.
HandOver(i) ==
  /\ submitted[i] = "new" /\ ~ended /\ waiting # <<>>
  /\ submitted' = [submitted EXCEPT ![i] = "accepted"]
  /\ dequeued' = [dequeued EXCEPT ![i] = IF i \in Blocking THEN "resolved" ELSE "none"]
  /\ reader' = [reader EXCEPT ![Head(waiting)] = "holding"]
  /\ waiting' = Tail(waiting)
  /\ delivered' = Append(delivered, i)
  /\ UNCHANGED <<queued, ended>>

\* The item waits in the queue: `late` if it does so although a consumer waits.
Push(i, late) ==
  /\ submitted[i] = "new" /\ ~ended /\ (late \/ waiting = <<>>)
  /\ submitted' = [submitted EXCEPT ![i] = "accepted"]
  /\ dequeued' = [dequeued EXCEPT ![i] =
                    IF i \in Blocking \cup Signalled THEN "pending" ELSE "none"]
  /\ queued' = Append(queued, i)
  /\ UNCHANGED <<waiting, reader, ended, delivered>>

PushLate(i) == Push(i, TRUE)
Submit(i) == Push(i, FALSE)

\* wait(index): somebody wants to know when a queued item leaves.
Wait(i) ==
  /\ Queued(i) /\ dequeued[i] = "none"
  /\ dequeued' = [dequeued EXCEPT ![i] = "pending"]
  /\ UNCHANGED <<queued, submitted, waiting, reader, ended, delivered>>

\* The abort signal fires: an item that was taken meanwhile is left alone.
Abort(i) ==
  /\ i \in Signalled
  /\ \E k \in DOMAIN queued : queued[k] = i /\ queued' = RemoveAt(queued, k)
  /\ dequeued' = [dequeued EXCEPT ![i] = Settle(@, "rejected")]
  /\ UNCHANGED <<submitted, waiting, reader, ended, delivered>>
-----------------------------------------------------------------------------
(* Consumers *)

\* dequeue() and take() find an item; the producer that waits for it goes on.
Shift(c, item, rest) ==
  /\ reader[c] \in {"ready", "holding"} /\ queued # <<>>
  /\ queued' = rest
  /\ dequeued' = [dequeued EXCEPT ![item] = Settle(@, "resolved")]
  /\ delivered' = Append(delivered, item)
  /\ reader' = [reader EXCEPT ![c] = "holding"]
  /\ UNCHANGED <<submitted, waiting, ended>>

\* Mutants: the newest item first; the item stays in the queue.
Pop(c) == Shift(c, queued[Len(queued)], SubSeq(queued, 1, Len(queued) - 1))
Peek(c) == Shift(c, Head(queued), queued)
Dequeue(c) == Shift(c, Head(queued), Tail(queued))

\* dequeue() finds none and waits.
DequeueWait(c) ==
  /\ reader[c] \in {"ready", "holding"} /\ queued = <<>> /\ ~ended
  /\ reader' = [reader EXCEPT ![c] = "waiting"]
  /\ waiting' = Append(waiting, c)
  /\ UNCHANGED <<queued, dequeued, submitted, ended, delivered>>

\* dequeue() throws once the queue is drained and ended; so does take().
DequeueEnded(c) ==
  /\ reader[c] \in {"ready", "holding"} /\ queued = <<>> /\ ended
  /\ reader' = [reader EXCEPT ![c] = "stopped"]
  /\ UNCHANGED <<queued, dequeued, submitted, waiting, ended, delivered>>

\* Mutants: end() does not reject them; it rejects them but leaves them in line.
EndOnly == ended' = TRUE /\ UNCHANGED <<waiting, reader>>
EndKeepsLine ==
  /\ ended' = TRUE /\ UNCHANGED waiting
  /\ reader' = [c \in Consumers |-> IF reader[c] = "waiting" THEN "stopped" ELSE reader[c]]

\* What end() leaves of the waiting consumers.
EndWaiting ==
  /\ ended' = TRUE /\ waiting' = <<>>
  /\ reader' = [c \in Consumers |-> IF reader[c] = "waiting" THEN "stopped" ELSE reader[c]]

\* end() by a producer, or Symbol.dispose.
End ==
  /\ ~ended /\ EndWaiting
  /\ UNCHANGED <<queued, dequeued, submitted, delivered>>

\* The loop over `queue` is left by break or throw while it holds an item: the
\* generator ends the queue for everybody.
Leave(c) ==
  /\ reader[c] = "holding"
  /\ IF ended THEN reader' = [reader EXCEPT ![c] = "stopped"] /\ UNCHANGED <<ended, waiting>>
     ELSE /\ ended' = TRUE /\ waiting' = <<>>
          /\ reader' = [d \in Consumers |-> IF d = c \/ reader[d] = "waiting"
                                             THEN "stopped" ELSE reader[d]]
  /\ UNCHANGED <<queued, dequeued, submitted, delivered>>

\* Mutants: clear() drops the items and tells nobody; it rejects the promises.
ClearSilently ==
  /\ queued' = <<>>
  /\ UNCHANGED <<dequeued, submitted, waiting, reader, ended, delivered>>
ClearRejecting ==
  /\ queued' = <<>>
  /\ dequeued' = [i \in Items |-> IF Queued(i) THEN Settle(dequeued[i], "rejected")
                                   ELSE dequeued[i]]
  /\ UNCHANGED <<submitted, waiting, reader, ended, delivered>>

Clear ==
  /\ queued' = <<>>
  /\ dequeued' = [i \in Items |-> IF Queued(i) THEN Settle(dequeued[i], "resolved")
                                   ELSE dequeued[i]]
  /\ UNCHANGED <<submitted, waiting, reader, ended, delivered>>
-----------------------------------------------------------------------------
Next ==
  \/ \E i \in Items : Refuse(i) \/ HandOver(i) \/ Submit(i) \/ Wait(i) \/ Abort(i)
  \/ \E c \in Consumers : Dequeue(c) \/ DequeueWait(c) \/ DequeueEnded(c) \/ Leave(c)
  \/ End \/ Clear

Spec == Init /\ [][Next]_vars
-----------------------------------------------------------------------------
TypeOK ==
  /\ queued \in Seq(Items) /\ delivered \in Seq(Items)
  /\ dequeued \in [Items -> Deferreds]
  /\ \A i \in Items \ Signalled : dequeued[i] # "rejected"
  /\ submitted \in [Items -> {"new", "accepted", "refused"}]
  /\ waiting \in Seq(Consumers)
  /\ reader \in [Consumers -> Readers]
  /\ ended \in BOOLEAN

\* No lost wakeup: while a consumer waits, the queue is empty and not ended, so
\* the next submit() or end() is the one that reaches it.
NoLostWakeup == waiting # <<>> => queued = <<>> /\ ~ended

\* Exactly the consumers whose dequeue() is pending are in `waiting`, once each:
\* none is woken twice, and none is forgotten.
WaitersInLine ==
  /\ \A c \in Consumers :
       reader[c] = "waiting" <=> \E k \in DOMAIN waiting : waiting[k] = c
  /\ IsInjective(waiting)

\* A producer in enqueue(), or whoever called wait(), is only ever kept waiting
\* by an item that still is in the queue, however the item leaves it.
PendingAreQueued == \A i \in Items : dequeued[i] = "pending" => Queued(i)

\* An item is in one place: it is not handed out while it is queued, and never
\* handed out twice, whatever is aborted, cleared or ended in between.
DeliveredOnce ==
  /\ IsInjective(delivered) /\ IsInjective(queued)
  /\ \A k \in DOMAIN delivered : ~Queued(delivered[k])
  /\ \A i \in Items : submitted[i] # "accepted"
       => ~Queued(i) /\ \A k \in DOMAIN delivered : delivered[k] # i

Fifo == INSTANCE FifoQueue WITH buffer <- queued, open <- ~ended

\* The queue implements the abstract one: first in, first out.
ImplementsFifo == Fifo!Spec
=============================================================================
