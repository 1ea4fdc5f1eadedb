------------------------------ MODULE FifoQueue ------------------------------
(***************************************************************************)
(* What common/src/async-queue.ts promises to its producers and consumers: *)
(* items come out at most once, in the order they were accepted, unless    *)
(* they are withdrawn before; nothing is accepted after the end, and what  *)
(* was accepted before it can still be read.                               *)
(***************************************************************************)
EXTENDS SequencesExt

CONSTANT Items

VARIABLES
  buffer,    \* accepted and not yet read
  delivered, \* read, in order
  open       \* end() has not been called

vars == <<buffer, delivered, open>>

Init == buffer = <<>> /\ delivered = <<>> /\ open = TRUE

\* An item is accepted, and waits.
Put(i) ==
  /\ open
  /\ buffer' = Append(buffer, i)
  /\ UNCHANGED <<delivered, open>>

\* An item is accepted and goes to a consumer that was waiting for it.
PutThrough(i) ==
  /\ open /\ buffer = <<>>
  /\ delivered' = Append(delivered, i)
  /\ UNCHANGED <<buffer, open>>

Get ==
  /\ buffer # <<>>
  /\ delivered' = Append(delivered, Head(buffer)) /\ buffer' = Tail(buffer)
  /\ UNCHANGED open

\* A producer takes its item back, or the queue is cleared.
Withdraw(i) ==
  /\ \E k \in DOMAIN buffer : buffer[k] = i /\ buffer' = RemoveAt(buffer, k)
  /\ UNCHANGED <<delivered, open>>

Discard == buffer' = <<>> /\ UNCHANGED <<delivered, open>>

End == open' = FALSE /\ UNCHANGED <<buffer, delivered>>

Next ==
  \/ \E i \in Items : Put(i) \/ PutThrough(i) \/ Withdraw(i)
  \/ Get \/ Discard \/ End

Spec == Init /\ [][Next]_vars
=============================================================================
