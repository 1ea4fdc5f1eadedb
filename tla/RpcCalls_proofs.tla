--------------------------- MODULE RpcCalls_proofs ---------------------------
(***************************************************************************)
(* What the calls of RpcCalls keep, for any number of calls and any mix of *)
(* oneway, ordinary and generator calls.                                   *)
(***************************************************************************)
EXTENDS RpcCalls, DataLemmas

(* The inductive invariant, in parts *)

\* The generator's body runs for the `next` at the head of its queue.
BodyHasCaller == gen = "running" => genQueue # <<>> /\ Head(genQueue) \in Nexts

TypeInv == TypeOK /\ BodyHasCaller

\* A suspended generator is known to the peer, or something will wake it.
SuspendedKnown ==
  gen = "yield" => yielded \/ genQueue # <<>> \/ \E r \in resumed : r.value

\* kill() leaves nothing in yieldedAsyncIterators.
KilledForgets == calleeKilled => ~yielded

GeneratorInv == SuspendedKnown /\ KilledForgets

Holds(s, c) == \E i \in DOMAIN s : s[i] = c
Single(s, c) == \A i, j \in DOMAIN s : s[i] = c /\ s[j] = c => i = j

Replied(s, c) == \E i \in DOMAIN s : s[i].call = c
SingleReply(s, c) == \A i, j \in DOMAIN s : s[i].call = c /\ s[j].call = c => i = j

Resumes(R, c) == \E r \in R : r.call = c
SingleResume(R, c) == \A r, t \in R : r.call = c /\ t.call = c => r = t

\* The places a call can be in: asked for, queued, awaited, resumed, answered.
Apart(c, asked, queue, awaited, R, answers) ==
  /\ Holds(asked, c) => ~Holds(queue, c) /\ c \notin awaited /\ ~Resumes(R, c) /\ ~Replied(answers, c)
  /\ Holds(queue, c) => c \notin awaited /\ ~Resumes(R, c) /\ ~Replied(answers, c)
  /\ c \in awaited => ~Resumes(R, c) /\ ~Replied(answers, c)
  /\ Resumes(R, c) => ~Replied(answers, c)

Nowhere(c, asked, queue, awaited, R, answers) ==
  /\ ~Holds(asked, c) /\ ~Holds(queue, c) /\ c \notin awaited
  /\ ~Resumes(R, c) /\ ~Replied(answers, c)

\* A call is in one place at most, and there once.
InOnePlace(c, asked, queue, awaited, R, answers) ==
  /\ Single(asked, c) /\ Single(queue, c) /\ SingleResume(R, c) /\ SingleReply(answers, c)
  /\ Apart(c, asked, queue, awaited, R, answers)

Placed(c) ==
  /\ InOnePlace(c, requests, genQueue, running, resumed, results)
  /\ call[c] = "idle" => Nowhere(c, requests, genQueue, running, resumed, results)

PlaceInv == \A c \in Calls : Placed(c)
-----------------------------------------------------------------------------
(* Types *)

\* A handler's answer is one message to the caller, or none.
LEMMA SendAnswers ==
  ASSUME NEW c \in Calls, NEW outcome \in Outcomes, SendResult(c, outcome)
  PROVE  results' = results \/ \E e \in Replies : e.call = c /\ results' = Append(results, e)
<1>1. /\ [call |-> c, outcome |-> outcome] \in Replies
      /\ [call |-> c, outcome |-> "rejected"] \in Replies
  BY DEF Replies, Outcomes
<1>2. /\ [call |-> c, outcome |-> outcome].call = c
      /\ [call |-> c, outcome |-> "rejected"].call = c
  OBVIOUS
<1>3. CASE c \in Oneway
  BY <1>3 DEF SendResult
<1>4. CASE c \notin Oneway
  <2>1. \/ results' = results
        \/ results' = Append(results, [call |-> c, outcome |-> outcome])
        \/ results' = Append(results, [call |-> c, outcome |-> "rejected"])
    BY <1>4 DEF SendResult
  <2> QED
    BY <1>1, <1>2, <2>1
<1> QED
  BY <1>3, <1>4

\* The channels stay sequences of calls and replies, and the socket is open or closed.
LEMMA SendTypes ==
  ASSUME TypeOK, NEW c \in Calls, NEW outcome \in Outcomes, SendResult(c, outcome)
  PROVE  results' \in Seq(Replies) /\ closed' \in BOOLEAN
<1>1. results' \in Seq(Replies)
  <2>1. results \in Seq(Replies)
    BY DEF TypeOK
  <2>2. results' = results \/ \E e \in Replies : results' = Append(results, e)
    BY SendAnswers
  <2> QED
    BY <2>1, <2>2, AppendFacts
<1>2. closed' \in BOOLEAN
  BY DEF TypeOK, SendResult
<1> QED
  BY <1>1, <1>2

\* The caller's part of the type invariant, the callee's, and the socket's.
CallerTypes ==
  /\ call \in [Calls -> {"idle", "waiting"} \cup Outcomes]
  /\ pendingResults \subseteq Calls \ Oneway /\ swallowed \subseteq Calls
  /\ callerKilled \in BOOLEAN

GeneratorTypes ==
  /\ gen \in {"start", "running", "yield", "done"}
  /\ genQueue \in Seq(Nexts \cup Returns \cup {"throw"})
  /\ resumed \subseteq Resumptions /\ yielded \in BOOLEAN
  /\ BodyHasCaller

SocketTypes ==
  /\ closed \in BOOLEAN /\ requests \in Seq(Calls) /\ results \in Seq(Replies)

PeerTypes == calleeKilled \in BOOLEAN /\ calleeGone \in BOOLEAN /\ running \subseteq Calls

\* The types by the part of the system they are of.
LEMMA TypeParts == TypeInv <=> CallerTypes /\ GeneratorTypes /\ SocketTypes /\ PeerTypes
BY DEF TypeInv, TypeOK, CallerTypes, GeneratorTypes, SocketTypes, PeerTypes

\* What nothing of is changed keeps its types.
LEMMA TypesUnchanged ==
  /\ CallerTypes /\ UNCHANGED caller => CallerTypes'
  /\ GeneratorTypes /\ UNCHANGED generator => GeneratorTypes'
  /\ SocketTypes /\ UNCHANGED <<closed, requests, results>> => SocketTypes'
  /\ PeerTypes /\ UNCHANGED <<calleeKilled, calleeGone, running>> => PeerTypes'
BY DEF caller, generator, CallerTypes, GeneratorTypes, SocketTypes, PeerTypes, BodyHasCaller

\* A request that joins the generator's queue leaves its head where it is.
LEMMA QueueGrows ==
  ASSUME GeneratorTypes, NEW q \in Nexts \cup Returns \cup {"throw"},
         genQueue' = Append(genQueue, q), gen' = gen
  PROVE  /\ genQueue' \in Seq(Nexts \cup Returns \cup {"throw"})
         /\ BodyHasCaller'
<1>1. genQueue' \in Seq(Nexts \cup Returns \cup {"throw"})
  BY AppendFacts DEF GeneratorTypes
<1>2. CASE genQueue = <<>>
  BY <1>2 DEF GeneratorTypes, BodyHasCaller
<1>3. CASE genQueue # <<>>
  <2>1. genQueue' # <<>> /\ Head(genQueue') = Head(genQueue)
    BY <1>3, AppendProperties, HeadTailProperties, EmptySeq, LenProperties DEF GeneratorTypes
  <2> QED
    BY <1>3, <2>1 DEF GeneratorTypes, BodyHasCaller
<1> QED
  BY <1>1, <1>2, <1>3

\* Initially every variable has its type.
LEMMA InitTypes ==
  ASSUME Init
  PROVE  TypeInv
<1>1. <<>> \in Seq(Calls) /\ <<>> \in Seq(Replies) /\ <<>> \in Seq(Nexts \cup Returns \cup {"throw"})
  BY EmptySeq
<1> QED
  BY <1>1 DEF Init, TypeInv, TypeOK, BodyHasCaller

\* A call, sent, not sent, or made of a killed peer.
LEMMA CallTypes ==
  ASSUME TypeInv, NEW c \in Calls, ApplyKilled(c) \/ Apply(c) \/ ApplyUnsent(c)
  PROVE  TypeInv'
<1>1. CallerTypes /\ GeneratorTypes /\ SocketTypes /\ PeerTypes
  BY TypeParts
<1>2. call' \in [Calls -> {"idle", "waiting"} \cup Outcomes]
  BY <1>1 DEF CallerTypes, ApplyKilled, Apply, ApplyUnsent, Outcomes
<1>3. CallerTypes'
  BY <1>1, <1>2 DEF CallerTypes, ApplyKilled, Apply, ApplyUnsent
<1>4. requests' = requests \/ requests' = Append(requests, c)
  BY DEF ApplyKilled, Apply, ApplyUnsent
<1>5. requests' \in Seq(Calls)
  BY <1>1, <1>4, AppendFacts DEF SocketTypes
<1>6. SocketTypes'
  BY <1>1, <1>5 DEF SocketTypes, ApplyKilled, Apply, ApplyUnsent
<1>7. UNCHANGED callee
  BY DEF ApplyKilled, Apply, ApplyUnsent
<1>8. GeneratorTypes' /\ PeerTypes'
  BY <1>1, <1>7, TypesUnchanged DEF callee
<1> QED
  BY <1>3, <1>6, <1>8 DEF TypeInv, TypeOK, CallerTypes, GeneratorTypes, SocketTypes, PeerTypes

\* kill() on the caller's side.
LEMMA RejectTypes ==
  ASSUME CallerTypes, RejectPending, UNCHANGED swallowed
  PROVE  CallerTypes'
<1>1. call' \in [Calls -> {"idle", "waiting"} \cup Outcomes]
  BY DEF CallerTypes, RejectPending, Outcomes
<1> QED
  BY <1>1 DEF CallerTypes, RejectPending

\* A result: what it settles is one of the caller's calls.
LEMMA ResultTypes ==
  ASSUME TypeInv, HandleResult
  PROVE  TypeInv'
<1>1. CallerTypes /\ GeneratorTypes /\ SocketTypes /\ PeerTypes
  BY TypeParts
<1> DEFINE r == Head(results)
<1>2. r \in Replies /\ results' \in Seq(Replies)
  BY <1>1, TailFacts DEF HandleResult, SocketTypes
<1>3. r.call \in Calls /\ r.outcome \in Outcomes
  BY <1>2 DEF Replies
<1>4. call' = call \/ \E v \in {r.outcome, call[r.call]} : call' = [call EXCEPT ![r.call] = v]
  BY DEF HandleResult
<1>5. call' \in [Calls -> {"idle", "waiting"} \cup Outcomes]
  BY <1>1, <1>3, <1>4 DEF CallerTypes
<1>6. pendingResults' \subseteq pendingResults /\ swallowed' \subseteq swallowed \cup {r.call}
  BY DEF HandleResult
<1>7. CallerTypes'
  BY <1>1, <1>3, <1>5, <1>6 DEF CallerTypes, HandleResult
<1>8. SocketTypes'
  BY <1>1, <1>2 DEF SocketTypes, HandleResult
<1>9. GeneratorTypes' /\ PeerTypes'
  BY <1>1, TypesUnchanged DEF HandleResult, callee
<1> QED
  BY <1>7, <1>8, <1>9 DEF TypeInv, TypeOK, CallerTypes, GeneratorTypes, SocketTypes, PeerTypes

\* An apply that arrives.
LEMMA ApplyTypes ==
  ASSUME TypeInv, HandleApply
  PROVE  TypeInv'
<1>1. CallerTypes /\ GeneratorTypes /\ SocketTypes /\ PeerTypes /\ TypeOK
  BY TypeParts DEF TypeInv
<1> DEFINE c == Head(requests)
<1>2. c \in Calls /\ requests' \in Seq(Calls)
  BY <1>1, TailFacts DEF HandleApply, SocketTypes
<1>3. CallerTypes'
  BY <1>1, TypesUnchanged DEF HandleApply
<1>4. results' \in Seq(Replies) /\ closed' \in BOOLEAN
  <2>1. CASE UNCHANGED <<results, closed>>
    BY <1>1, <2>1 DEF SocketTypes
  <2>2. CASE SendResult(c, "rejected")
    BY <1>1, <1>2, <2>2, SendTypes DEF Outcomes
  <2> QED
    BY <2>1, <2>2 DEF HandleApply
<1>5. SocketTypes'
  BY <1>2, <1>4 DEF SocketTypes
<1>6. PeerTypes'
  BY <1>1, <1>2 DEF PeerTypes, HandleApply, generator
<1>7. GeneratorTypes'
  <2>1. CASE UNCHANGED generator
    BY <1>1, <2>1, TypesUnchanged
  <2>2. CASE /\ c \in Nexts \cup Returns
             /\ yielded' = (yielded /\ c \notin Nexts)
             /\ genQueue' = Append(genQueue, c)
             /\ UNCHANGED <<gen, resumed>>
    <3>1. genQueue' \in Seq(Nexts \cup Returns \cup {"throw"}) /\ BodyHasCaller'
      BY <1>1, <2>2, QueueGrows
    <3>2. yielded' \in BOOLEAN
      BY <2>2
    <3> QED
      BY <1>1, <2>2, <3>1, <3>2 DEF GeneratorTypes
  <2> QED
    BY <2>1, <2>2 DEF HandleApply
<1> QED
  BY <1>3, <1>5, <1>6, <1>7 DEF TypeInv, TypeOK, CallerTypes, GeneratorTypes, SocketTypes, PeerTypes

\* An ordinary target that returns or throws.
LEMMA FinishTypes ==
  ASSUME TypeInv, NEW c \in Calls, FinishApply(c)
  PROVE  TypeInv'
<1>1. CallerTypes /\ GeneratorTypes /\ SocketTypes /\ PeerTypes /\ TypeOK
  BY TypeParts DEF TypeInv
<1>2. results' \in Seq(Replies) /\ closed' \in BOOLEAN
  BY <1>1, SendTypes DEF FinishApply
<1>3. SocketTypes'
  BY <1>1, <1>2 DEF SocketTypes, FinishApply
<1>4. PeerTypes'
  BY <1>1 DEF PeerTypes, FinishApply
<1>5. CallerTypes' /\ GeneratorTypes'
  BY <1>1, TypesUnchanged DEF FinishApply
<1> QED
  BY <1>3, <1>4, <1>5 DEF TypeInv, TypeOK, CallerTypes, GeneratorTypes, SocketTypes, PeerTypes

\* A handler that resumes with what the generator answered.
LEMMA ResumptionTypes ==
  ASSUME TypeInv, NEW r \in Resumptions, ResumeNext(r)
  PROVE  TypeInv'
<1>1. CallerTypes /\ GeneratorTypes /\ SocketTypes /\ PeerTypes /\ TypeOK
  BY TypeParts DEF TypeInv
<1>2. r.call \in Calls /\ r.value \in BOOLEAN
  BY CallsAssumption DEF Resumptions
<1>3. \E outcome \in Outcomes : SendResult(r.call, outcome)
  BY DEF ResumeNext, Resume, Outcomes
<1>4. results' \in Seq(Replies) /\ closed' \in BOOLEAN
  BY <1>1, <1>2, <1>3, SendTypes
<1>5. SocketTypes'
  BY <1>1, <1>4 DEF SocketTypes, ResumeNext, Resume
<1>6. gen' = gen /\ resumed' \subseteq Resumptions
  BY <1>1 DEF ResumeNext, Resume, GeneratorTypes
<1>7. genQueue' = genQueue \/ genQueue' = Append(genQueue, "throw")
  BY DEF ResumeNext, Resume
<1>8. genQueue' \in Seq(Nexts \cup Returns \cup {"throw"}) /\ BodyHasCaller'
  <2>1. CASE genQueue' = genQueue
    BY <1>1, <1>6, <2>1 DEF GeneratorTypes, BodyHasCaller
  <2>2. CASE genQueue' = Append(genQueue, "throw")
    BY <1>1, <1>6, <2>2, QueueGrows
  <2> QED
    BY <1>7, <2>1, <2>2
<1>9. yielded' \in BOOLEAN
  BY <1>1, <1>2 DEF ResumeNext, Resume, GeneratorTypes
<1>10. GeneratorTypes'
  BY <1>1, <1>6, <1>8, <1>9 DEF GeneratorTypes
<1>11. CallerTypes' /\ PeerTypes'
  BY <1>1, TypesUnchanged DEF ResumeNext, Resume
<1> QED
  BY <1>5, <1>10, <1>11 DEF TypeInv, TypeOK, CallerTypes, GeneratorTypes, SocketTypes, PeerTypes

\* The generator takes a request, runs, or is stopped by kill().
LEMMA GeneratorStepTypes ==
  ASSUME GeneratorTypes, GeneratorTake \/ GeneratorRun \/ StopGenerator
  PROVE  GeneratorTypes'
<1> DEFINE Q == Nexts \cup Returns \cup {"throw"}
<1>1. genQueue \in Seq(Q) /\ gen \in {"start", "running", "yield", "done"} /\ resumed \subseteq Resumptions
  BY DEF GeneratorTypes
<1>2. genQueue # <<>> => Head(genQueue) \in Q /\ Tail(genQueue) \in Seq(Q)
  BY <1>1, TailFacts
<1>3. ASSUME NEW q \in Nexts \cup Returns, NEW v \in BOOLEAN
      PROVE  [call |-> q, value |-> v] \in Resumptions
  BY DEF Resumptions
<1> DEFINE q == Head(genQueue)
<1>4. CASE GeneratorTake /\ q \in Nexts /\ gen # "done"
  BY <1>1, <1>4 DEF GeneratorTake, GeneratorTypes, BodyHasCaller
<1>5. CASE GeneratorTake /\ ~(q \in Nexts /\ gen # "done")
  <2>1. gen' = "done" /\ genQueue' = Tail(genQueue) /\ genQueue # <<>> /\ yielded' = yielded
    BY <1>5 DEF GeneratorTake
  <2>2. resumed' = resumed \/ (q \in Nexts \cup Returns /\ resumed' = resumed \cup {[call |-> q, value |-> FALSE]})
    BY <1>2, <1>5, <2>1 DEF GeneratorTake
  <2>3. resumed' \subseteq Resumptions
    <3>1. CASE resumed' = resumed
      BY <1>1, <3>1
    <3>2. CASE q \in Nexts \cup Returns /\ resumed' = resumed \cup {[call |-> q, value |-> FALSE]}
      <4>1. [call |-> q, value |-> FALSE] \in Resumptions
        BY <1>3, <3>2
      <4> QED
        BY <1>1, <3>2, <4>1
    <3> QED
      BY <2>2, <3>1, <3>2
  <2> QED
    BY <1>2, <2>1, <2>3 DEF GeneratorTypes, BodyHasCaller
<1>6. CASE GeneratorRun
  <2>1. genQueue # <<>> /\ q \in Nexts
    BY <1>6 DEF GeneratorRun, GeneratorTypes, BodyHasCaller
  <2>2. /\ gen' \in {"yield", "done"} /\ genQueue' = Tail(genQueue) /\ yielded' = yielded
        /\ \E v \in BOOLEAN : resumed' = resumed \cup {[call |-> q, value |-> v]}
    BY <1>6 DEF GeneratorRun
  <2>3. resumed' \subseteq Resumptions
    BY <1>1, <1>3, <2>1, <2>2
  <2> QED
    BY <1>2, <2>1, <2>2, <2>3 DEF GeneratorTypes, BodyHasCaller
<1>7. CASE StopGenerator
  <2>1. gen' = gen /\ resumed' = resumed /\ yielded' = FALSE
    BY <1>7 DEF StopGenerator
  <2>2. CASE yielded
    <3>1. genQueue' = Append(genQueue, "throw")
      BY <1>7, <2>2 DEF StopGenerator
    <3> QED
      BY <1>1, <2>1, <3>1, QueueGrows DEF GeneratorTypes
  <2>3. CASE ~yielded
    BY <1>7, <2>1, <2>3 DEF StopGenerator, GeneratorTypes, BodyHasCaller
  <2> QED
    BY <2>2, <2>3
<1> QED
  BY <1>4, <1>5, <1>6, <1>7

\* Every step keeps the types.
LEMMA TypeStep ==
  ASSUME TypeInv, [Next]_vars
  PROVE  TypeInv'
<1>1. CallerTypes /\ GeneratorTypes /\ SocketTypes /\ PeerTypes
  BY TypeParts
<1>2. ASSUME CallerTypes', GeneratorTypes', SocketTypes', PeerTypes' PROVE TypeInv'
  BY <1>2 DEF TypeInv, TypeOK, CallerTypes, GeneratorTypes, SocketTypes, PeerTypes
<1>3. ASSUME NEW c \in Calls, ApplyKilled(c) \/ Apply(c) \/ ApplyUnsent(c) PROVE TypeInv'
  BY <1>3, CallTypes
<1>4. ASSUME NEW c \in Calls, FinishApply(c) PROVE TypeInv'
  BY <1>4, FinishTypes
<1>5. CASE HandleResult
  BY <1>5, ResultTypes
<1>6. CASE KillCaller
  BY <1>1, <1>2, <1>6, RejectTypes, TypesUnchanged DEF KillCaller, callee
<1>7. CASE HandleApply
  BY <1>7, ApplyTypes
<1>8. CASE GeneratorTake \/ GeneratorRun
  <2>1. GeneratorTypes'
    BY <1>1, <1>8, GeneratorStepTypes
  <2> QED
    BY <1>1, <1>2, <1>8, <2>1, TypesUnchanged DEF GeneratorTake, GeneratorRun
<1>9. ASSUME NEW r \in Resumptions, ResumeNext(r) PROVE TypeInv'
  BY <1>9, ResumptionTypes
<1>10. CASE KillCallee
  <2>1. StopGenerator /\ UNCHANGED <<caller, calleeGone, requests, results, closed>>
    BY <1>10 DEF KillCallee
  <2>2. GeneratorTypes'
    BY <1>1, <2>1, GeneratorStepTypes
  <2>3. PeerTypes'
    BY <1>1, <2>1 DEF StopGenerator, PeerTypes
  <2> QED
    BY <1>1, <1>2, <2>1, <2>2, <2>3, TypesUnchanged
<1>11. CASE Close
  BY <1>1, <1>2, <1>11, TypesUnchanged DEF Close, callee, SocketTypes
<1>12. CASE CallerDisconnected
  BY <1>1, <1>2, <1>12, RejectTypes, TypesUnchanged DEF CallerDisconnected, callee
<1>13. CASE CalleeDisconnected
  <2>1. UNCHANGED <<caller, requests, results, closed>> /\ calleeGone' = TRUE
    BY <1>13 DEF CalleeDisconnected
  <2>2. UNCHANGED <<calleeKilled, running, generator>> \/ StopGenerator
    BY <1>13 DEF CalleeDisconnected
  <2>3. GeneratorTypes'
    BY <1>1, <2>2, GeneratorStepTypes, TypesUnchanged
  <2>4. PeerTypes'
    BY <1>1, <2>1, <2>2 DEF StopGenerator, PeerTypes
  <2> QED
    BY <1>1, <1>2, <2>1, <2>3, <2>4, TypesUnchanged
<1>14. CASE UNCHANGED vars
  BY <1>1, <1>2, <1>14, TypesUnchanged DEF vars, callee
<1> QED
  BY <1>3, <1>4, <1>5, <1>6, <1>7, <1>8, <1>9, <1>10, <1>11, <1>12, <1>13, <1>14 DEF Next

\* The inductive invariant of the types.
THEOREM TypeInvariant == Spec => []TypeInv
<1>1. Init => TypeInv
  BY InitTypes
<1>2. TypeInv /\ [Next]_vars => TypeInv'
  BY TypeStep
<1> QED
  BY <1>1, <1>2, PTL DEF Spec

\* Every variable keeps its type.
THEOREM TypeCorrect == Spec => []TypeOK
BY TypeInvariant, PTL DEF TypeInv
-----------------------------------------------------------------------------
(* The caller: who waits is known to the peer *)

\* kill() leaves nobody waiting but who was already lost.
LEMMA RejectWaiters ==
  ASSUME WaitersRegistered, RejectPending, UNCHANGED swallowed
  PROVE  WaitersRegistered'
<1> SUFFICES ASSUME NEW c \in Calls, call'[c] = "waiting" PROVE c \in swallowed
  BY DEF WaitersRegistered
<1>1. call'[c] = IF c \in pendingResults /\ call[c] = "waiting" THEN "rejected" ELSE call[c]
  BY DEF RejectPending
<1>2. call[c] = "waiting" /\ c \notin pendingResults
  BY <1>1
<1> QED
  BY <1>2 DEF WaitersRegistered

\* The Deferred of a new call is registered with it.
LEMMA CallWaiters ==
  ASSUME TypeInv, WaitersRegistered, NEW c \in Calls, ApplyKilled(c) \/ Apply(c) \/ ApplyUnsent(c)
  PROVE  WaitersRegistered'
<1> SUFFICES ASSUME NEW d \in Calls, call'[d] = "waiting" PROVE d \in pendingResults' \cup swallowed'
  BY DEF WaitersRegistered
<1>1. call \in [Calls -> {"idle", "waiting"} \cup Outcomes]
  BY DEF TypeInv, TypeOK
<1>2. pendingResults \subseteq pendingResults' /\ swallowed' = swallowed
  BY DEF ApplyKilled, Apply, ApplyUnsent
<1>3. CASE d # c
  <2>1. call'[d] = call[d]
    BY <1>1, <1>3 DEF ApplyKilled, Apply, ApplyUnsent
  <2> QED
    BY <1>2, <2>1 DEF WaitersRegistered
<1>4. CASE d = c
  <2>1. Apply(c) /\ c \notin Oneway
    BY <1>1, <1>4 DEF ApplyKilled, Apply, ApplyUnsent
  <2> QED
    BY <1>4, <2>1 DEF Apply
<1> QED
  BY <1>3, <1>4

\* A result takes one Deferred away, and settles its call or loses it.
LEMMA ResultWaiters ==
  ASSUME TypeInv, WaitersRegistered, HandleResult
  PROVE  WaitersRegistered'
<1> DEFINE r == Head(results)
           known == ~callerKilled /\ r.call \in pendingResults
           settled == IF call[r.call] = "waiting" THEN r.outcome ELSE call[r.call]
<1> SUFFICES ASSUME NEW d \in Calls, call'[d] = "waiting" PROVE d \in pendingResults' \cup swallowed'
  BY DEF WaitersRegistered
<1>1. call \in [Calls -> {"idle", "waiting"} \cup Outcomes] /\ results \in Seq(Replies) /\ results # <<>>
  BY DEF TypeInv, TypeOK, HandleResult
<1>2. r \in Replies
  BY <1>1, TailFacts
<1>3. r.call \in Calls /\ r.outcome \in Outcomes
  BY <1>2 DEF Replies
<1>4. settled # "waiting"
  BY <1>1, <1>3 DEF Outcomes
<1>5. CASE UNCHANGED <<call, pendingResults, swallowed>>
  BY <1>5 DEF WaitersRegistered
<1>6. CASE /\ pendingResults' = pendingResults \ {r.call}
           /\ call' = [call EXCEPT ![r.call] = settled] /\ UNCHANGED swallowed
  <2>1. d # r.call
    BY <1>1, <1>3, <1>4, <1>6
  <2>2. call'[d] = call[d]
    BY <1>1, <1>3, <1>6, <2>1
  <2> QED
    BY <1>6, <2>1, <2>2 DEF WaitersRegistered
<1>7. CASE /\ pendingResults' = pendingResults \ {r.call}
           /\ swallowed' = swallowed \cup {r.call} /\ UNCHANGED call
  BY <1>7 DEF WaitersRegistered
<1> QED
  BY <1>5, <1>6, <1>7 DEF HandleResult

\* No caller waits for a call the peer has forgotten: every Deferred of an
\* unsettled call is where kill() finds it (RpcPeer.pendingResults), unless its
\* result arrived and could not be deserialized.
THEOREM WaitersCorrect == Spec => []WaitersRegistered
<1>1. Init => WaitersRegistered
  BY DEF Init, WaitersRegistered
<1>2. ASSUME TypeInv, WaitersRegistered, [Next]_vars PROVE WaitersRegistered'
  <2>1. ASSUME NEW c \in Calls, ApplyKilled(c) \/ Apply(c) \/ ApplyUnsent(c) PROVE WaitersRegistered'
    BY <1>2, <2>1, CallWaiters
  <2>2. CASE HandleResult
    BY <1>2, <2>2, ResultWaiters
  <2>3. CASE KillCaller \/ CallerDisconnected
    BY <1>2, <2>3, RejectWaiters DEF KillCaller, CallerDisconnected
  <2>4. CASE UNCHANGED caller
    BY <1>2, <2>4 DEF WaitersRegistered, caller
  <2>5. ASSUME NEW c \in Calls, FinishApply(c) PROVE UNCHANGED caller
    BY <2>5 DEF FinishApply
  <2>6. ASSUME NEW r \in Resumptions, ResumeNext(r) PROVE UNCHANGED caller
    BY <2>6 DEF ResumeNext, Resume
  <2>7. ASSUME \/ HandleApply \/ GeneratorTake \/ GeneratorRun \/ KillCallee
               \/ Close \/ CalleeDisconnected \/ UNCHANGED vars
        PROVE  UNCHANGED caller
    BY <2>7 DEF HandleApply, GeneratorTake, GeneratorRun, KillCallee, Close, CalleeDisconnected, vars
  <2> QED
    BY <1>2, <2>1, <2>2, <2>3, <2>4, <2>5, <2>6, <2>7 DEF Next
<1> QED
  BY <1>1, <1>2, TypeInvariant, PTL DEF Spec
-----------------------------------------------------------------------------
(* The generator: none is left suspended behind a kill *)

\* kill() of the callee: what it forgets it has told to stop.
LEMMA StopGeneratorInv ==
  ASSUME TypeInv, GeneratorInv, StopGenerator
  PROVE  GeneratorInv'
<1>1. KilledForgets'
  BY DEF StopGenerator, KilledForgets
<1>2. gen' = gen /\ resumed' = resumed
  BY DEF StopGenerator
<1>3. CASE yielded
  <2>1. genQueue' = Append(genQueue, "throw") /\ genQueue \in Seq(Nexts \cup Returns \cup {"throw"})
    BY <1>3 DEF StopGenerator, TypeInv, TypeOK
  <2>2. genQueue' # <<>>
    BY <2>1, AppendProperties, EmptySeq
  <2> QED
    BY <1>1, <2>2 DEF GeneratorInv, SuspendedKnown
<1>4. CASE ~yielded
  BY <1>1, <1>2, <1>4 DEF StopGenerator, GeneratorInv, SuspendedKnown
<1> QED
  BY <1>3, <1>4

\* `next` takes the generator off yieldedAsyncIterators and waits in its queue.
LEMMA ApplyGeneratorInv ==
  ASSUME TypeInv, GeneratorInv, HandleApply
  PROVE  GeneratorInv'
<1> DEFINE c == Head(requests)
<1>1. calleeKilled' = calleeKilled
  BY DEF HandleApply
<1>2. CASE UNCHANGED generator
  BY <1>1, <1>2 DEF GeneratorInv, SuspendedKnown, KilledForgets, generator
<1>3. CASE /\ ~calleeKilled
           /\ c \in Nexts \cup Returns
           /\ genQueue' = Append(genQueue, c)
           /\ UNCHANGED <<gen, resumed>>
  <2>1. genQueue \in Seq(Nexts \cup Returns \cup {"throw"})
    BY DEF TypeInv, TypeOK
  <2>2. genQueue' # <<>>
    BY <1>3, <2>1, AppendProperties, EmptySeq
  <2> QED
    BY <1>1, <1>3, <2>2 DEF GeneratorInv, SuspendedKnown, KilledForgets
<1> QED
  BY <1>2, <1>3 DEF HandleApply

\* A handler that resumes gives a yielded generator to the peer, or stops it.
LEMMA ResumeGeneratorInv ==
  ASSUME TypeInv, GeneratorInv, NEW r \in Resumptions, ResumeNext(r)
  PROVE  GeneratorInv'
<1>1. /\ calleeKilled' = calleeKilled /\ gen' = gen
      /\ r \in resumed /\ resumed' = resumed \ {r}
  BY DEF ResumeNext, Resume
<1>2. genQueue \in Seq(Nexts \cup Returns \cup {"throw"}) /\ r.value \in BOOLEAN
  BY DEF TypeInv, TypeOK, Resumptions
<1>3. CASE r.value /\ calleeKilled
  <2>1. genQueue' = Append(genQueue, "throw") /\ yielded' = yielded
    BY <1>3 DEF ResumeNext, Resume
  <2>2. genQueue' # <<>>
    BY <1>2, <2>1, AppendProperties, EmptySeq
  <2> QED
    BY <1>1, <2>1, <2>2 DEF GeneratorInv, SuspendedKnown, KilledForgets
<1>4. CASE ~(r.value /\ calleeKilled)
  <2>1. genQueue' = genQueue /\ yielded' = (yielded \/ r.value)
    BY <1>4 DEF ResumeNext, Resume
  <2>2. KilledForgets'
    BY <1>1, <1>4, <2>1 DEF GeneratorInv, KilledForgets
  <2>3. ASSUME gen = "yield", ~r.value, ~yielded, genQueue = <<>> PROVE \E t \in resumed' : t.value
    BY <1>1, <2>3 DEF GeneratorInv, SuspendedKnown
  <2>4. SuspendedKnown'
    BY <1>1, <1>2, <2>1, <2>3 DEF SuspendedKnown
  <2> QED
    BY <2>2, <2>4 DEF GeneratorInv
<1> QED
  BY <1>3, <1>4

\* The generator's own steps: it is suspended only with a value to hand over.
LEMMA BodyGeneratorInv ==
  ASSUME GeneratorInv, GeneratorTake \/ GeneratorRun
  PROVE  GeneratorInv'
<1>1. KilledForgets'
  BY DEF GeneratorInv, KilledForgets, GeneratorTake, GeneratorRun
<1>2. CASE GeneratorTake
  <2>1. gen' # "yield"
    BY <1>2 DEF GeneratorTake
  <2> QED
    BY <1>1, <2>1 DEF GeneratorInv, SuspendedKnown
<1>3. CASE GeneratorRun
  <2>1. PICK value \in BOOLEAN :
           /\ gen' = IF value THEN "yield" ELSE "done"
           /\ resumed' = resumed \cup {[call |-> Head(genQueue), value |-> value]}
    BY <1>3 DEF GeneratorRun
  <2>2. [call |-> Head(genQueue), value |-> value].value = value
    OBVIOUS
  <2>3. gen' = "yield" => \E r \in resumed' : r.value
    BY <2>1, <2>2
  <2> QED
    BY <1>1, <2>3 DEF GeneratorInv, SuspendedKnown
<1> QED
  BY <1>2, <1>3

\* Every step keeps a suspended generator known to the peer.
LEMMA GeneratorStep ==
  ASSUME TypeInv, GeneratorInv, [Next]_vars
  PROVE  GeneratorInv'
<1>1. CASE HandleApply
  BY <1>1, ApplyGeneratorInv
<1>2. CASE GeneratorTake \/ GeneratorRun
  BY <1>2, BodyGeneratorInv
<1>3. ASSUME NEW r \in Resumptions, ResumeNext(r) PROVE GeneratorInv'
  BY <1>3, ResumeGeneratorInv
<1>4. CASE UNCHANGED <<calleeKilled, generator>>
  BY <1>4 DEF GeneratorInv, SuspendedKnown, KilledForgets, generator
<1>5. CASE KillCallee \/ CalleeDisconnected
  BY <1>4, <1>5, StopGeneratorInv DEF KillCallee, CalleeDisconnected
<1>6. ASSUME NEW c \in Calls, ApplyKilled(c) \/ Apply(c) \/ ApplyUnsent(c) \/ FinishApply(c)
      PROVE  UNCHANGED <<calleeKilled, generator>>
  BY <1>6 DEF ApplyKilled, Apply, ApplyUnsent, FinishApply, callee
<1>7. ASSUME HandleResult \/ KillCaller \/ Close \/ CallerDisconnected \/ UNCHANGED vars
      PROVE  UNCHANGED <<calleeKilled, generator>>
  BY <1>7 DEF HandleResult, KillCaller, Close, CallerDisconnected, callee, vars
<1> QED
  BY <1>1, <1>2, <1>3, <1>4, <1>5, <1>6, <1>7 DEF Next

\* After kill() no async generator stays suspended for ever with its finally
\* blocks not run: something that waits for it, or a handler that has yet to
\* resume, will stop it. The invariant behind it also covers the time before the
\* kill: a suspended generator is in yieldedAsyncIterators or about to be woken.
THEOREM GeneratorCorrect == Spec => []NoAbandonedGenerator
<1>1. Init => GeneratorInv
  BY DEF Init, GeneratorInv, SuspendedKnown, KilledForgets
<1>2. TypeInv /\ GeneratorInv /\ [Next]_vars => GeneratorInv'
  BY GeneratorStep
<1>3. GeneratorInv => NoAbandonedGenerator
  BY DEF GeneratorInv, SuspendedKnown, KilledForgets, NoAbandonedGenerator
<1> QED
  BY <1>1, <1>2, <1>3, TypeInvariant, PTL DEF Spec
-----------------------------------------------------------------------------
(* Answers: a call is in one place at most *)

\* What was received is no longer in the channel, and nothing else came.
LEMMA TakenOnce ==
  ASSUME NEW S, NEW s \in Seq(S), s # <<>>, NEW c, Single(s, c)
  PROVE  /\ Single(Tail(s), c)
         /\ Holds(Tail(s), c) => Holds(s, c) /\ c # Head(s)
         /\ Holds(s, Head(s))
<1>1. /\ 1 \in DOMAIN s /\ Head(s) = s[1]
      /\ \A i \in DOMAIN Tail(s) : i \in Nat /\ i # 0 /\ i + 1 \in DOMAIN s /\ Tail(s)[i] = s[i + 1]
  BY TailFacts, HeadTailProperties, LenProperties, EmptySeq
<1> QED
  BY <1>1 DEF Single, Holds

\* What is sent is in the channel once if it was not there.
LEMMA SentOnce ==
  ASSUME NEW S, NEW s \in Seq(S), NEW e \in S, NEW c, Single(s, c), c = e => ~Holds(s, c)
  PROVE  /\ Single(Append(s, e), c)
         /\ Holds(Append(s, e), c) => Holds(s, c) \/ c = e
<1> DEFINE n == Len(s) + 1
<1>1. \A i \in DOMAIN Append(s, e) : i \in DOMAIN s \/ i = n
  BY AppendProperties, LenProperties
<1>2. Append(s, e)[n] = e /\ \A i \in DOMAIN s : Append(s, e)[i] = s[i]
  BY AppendProperties, LenProperties
<1> QED
  BY <1>1, <1>2 DEF Single, Holds

\* The same of answers.
LEMMA ReplyTakenOnce ==
  ASSUME NEW S, NEW s \in Seq(S), s # <<>>, NEW c, SingleReply(s, c)
  PROVE  SingleReply(Tail(s), c) /\ (Replied(Tail(s), c) => Replied(s, c))
<1>1. \A i \in DOMAIN Tail(s) : i \in Nat /\ i + 1 \in DOMAIN s /\ Tail(s)[i] = s[i + 1]
  BY TailFacts
<1> QED
  BY <1>1 DEF SingleReply, Replied

\* An answer that joins the others is the only one of its call, if there was
\* none.
LEMMA ReplySentOnce ==
  ASSUME NEW S, NEW s \in Seq(S), NEW e \in S, NEW c, SingleReply(s, c), c = e.call => ~Replied(s, c)
  PROVE  /\ SingleReply(Append(s, e), c)
         /\ Replied(Append(s, e), c) => Replied(s, c) \/ c = e.call
<1> DEFINE n == Len(s) + 1
<1>1. \A i \in DOMAIN Append(s, e) : i \in DOMAIN s \/ i = n
  BY AppendProperties, LenProperties
<1>2. Append(s, e)[n] = e /\ \A i \in DOMAIN s : Append(s, e)[i] = s[i]
  BY AppendProperties, LenProperties
<1> QED
  BY <1>1, <1>2 DEF SingleReply, Replied

\* sendResult answers its call, which had no answer, and no other.
LEMMA AnsweredOnce ==
  ASSUME TypeOK, NEW c \in Calls, NEW outcome \in Outcomes, SendResult(c, outcome),
         NEW d, SingleReply(results, d), d = c => ~Replied(results, d)
  PROVE  /\ SingleReply(results', d)
         /\ Replied(results', d) => Replied(results, d) \/ d = c
<1>1. results \in Seq(Replies)
  BY DEF TypeOK
<1>2. CASE results' = results
  BY <1>2
<1>3. ASSUME NEW e \in Replies, e.call = c, results' = Append(results, e)
      PROVE  /\ SingleReply(results', d)
             /\ Replied(results', d) => Replied(results, d) \/ d = c
  BY <1>1, <1>3, ReplySentOnce
<1> QED
  BY <1>2, <1>3, SendAnswers

\* A handler that is about to resume holds its call once if it did not before.
LEMMA ResumedOnce ==
  ASSUME NEW R, NEW q, NEW v, NEW c, SingleResume(R, c), c = q => ~Resumes(R, c)
  PROVE  /\ SingleResume(R \cup {[call |-> q, value |-> v]}, c)
         /\ Resumes(R \cup {[call |-> q, value |-> v]}, c) => Resumes(R, c) \/ c = q
<1> DEFINE e == [call |-> q, value |-> v]
<1>1. e.call = q
  OBVIOUS
<1> HIDE DEF e
<1>2. /\ SingleResume(R \cup {e}, c)
      /\ Resumes(R \cup {e}, c) => Resumes(R, c) \/ c = q
  BY <1>1 DEF SingleResume, Resumes
<1> QED
  BY <1>2 DEF e

\* A call stays where it is in a step that leaves every place alone.
LEMMA PlacedSame ==
  ASSUME NEW d, Placed(d), UNCHANGED <<requests, genQueue, running, resumed, results>>,
         call'[d] = "idle" => call[d] = "idle"
  PROVE  Placed(d)'
BY DEF Placed

\* No call is anywhere at first.
LEMMA InitPlaced ==
  ASSUME Init, NEW d \in Calls
  PROVE  Placed(d)
BY EmptySeq DEF Init, Placed, InOnePlace, Nowhere, Apart, Single, SingleReply, SingleResume, Holds, Replied, Resumes

\* A call that is sent was nowhere.
LEMMA CallPlaced ==
  ASSUME TypeInv, NEW d \in Calls, Placed(d), NEW c \in Calls, ApplyKilled(c) \/ Apply(c) \/ ApplyUnsent(c)
  PROVE  Placed(d)'
<1>1. call \in [Calls -> {"idle", "waiting"} \cup Outcomes] /\ requests \in Seq(Calls) /\ call[c] = "idle"
  BY DEF TypeInv, TypeOK, ApplyKilled, Apply, ApplyUnsent, Idle
<1>2. call'[d] = "idle" => call[d] = "idle" /\ d # c
  BY <1>1 DEF ApplyKilled, Apply, ApplyUnsent
<1>3. UNCHANGED <<genQueue, running, resumed, results>>
  BY DEF ApplyKilled, Apply, ApplyUnsent, callee, generator
<1>4. CASE requests' = requests
  BY <1>2, <1>3, <1>4, PlacedSame
<1>5. CASE requests' = Append(requests, c)
  <2>1. d = c => Nowhere(d, requests, genQueue, running, resumed, results)
    BY <1>1 DEF Placed
  <2>2. Single(requests, d) /\ (d = c => ~Holds(requests, d))
    BY <2>1 DEF Placed, InOnePlace, Nowhere
  <2>3. Single(requests', d) /\ (Holds(requests', d) => Holds(requests, d) \/ d = c)
    BY <1>1, <1>5, <2>2, SentOnce
  <2>4. InOnePlace(d, requests', genQueue, running, resumed, results)
    BY <2>1, <2>3 DEF Placed, InOnePlace, Apart, Nowhere
  <2>5. call'[d] = "idle" => Nowhere(d, requests', genQueue, running, resumed, results)
    BY <1>2, <2>3 DEF Placed, Nowhere
  <2> QED
    BY <1>3, <2>4, <2>5 DEF Placed
<1> QED
  BY <1>4, <1>5 DEF ApplyKilled, Apply, ApplyUnsent

\* A result that arrives leaves the channel.
LEMMA ResultPlaced ==
  ASSUME TypeInv, NEW d \in Calls, Placed(d), HandleResult
  PROVE  Placed(d)'
<1> DEFINE r == Head(results)
           settled == IF call[r.call] = "waiting" THEN r.outcome ELSE call[r.call]
<1>1. call \in [Calls -> {"idle", "waiting"} \cup Outcomes] /\ results \in Seq(Replies) /\ results # <<>>
  BY DEF TypeInv, TypeOK, HandleResult
<1>2. r \in Replies
  BY <1>1, TailFacts
<1>3. r.outcome \in Outcomes
  BY <1>2 DEF Replies
<1>4. call' = call \/ call' = [call EXCEPT ![r.call] = settled]
  BY DEF HandleResult
<1>5. settled = "idle" => call[r.call] = "idle"
  BY <1>3 DEF Outcomes
<1>6. call'[d] = "idle" => call[d] = "idle"
  BY <1>1, <1>4, <1>5
<1>7. SingleReply(results', d) /\ (Replied(results', d) => Replied(results, d))
  BY <1>1, ReplyTakenOnce DEF HandleResult, Placed, InOnePlace
<1>8. UNCHANGED <<requests, genQueue, running, resumed>>
  BY DEF HandleResult, callee, generator
<1>9. InOnePlace(d, requests, genQueue, running, resumed, results')
  BY <1>7 DEF Placed, InOnePlace, Apart
<1>10. call'[d] = "idle" => Nowhere(d, requests, genQueue, running, resumed, results')
  BY <1>6, <1>7 DEF Placed, Nowhere
<1> QED
  BY <1>8, <1>9, <1>10 DEF Placed

\* An apply leaves the channel for its target, or is answered at once.
LEMMA ApplyPlaced ==
  ASSUME TypeInv, NEW d \in Calls, Placed(d), HandleApply
  PROVE  Placed(d)'
<1> DEFINE c == Head(requests)
<1>1. /\ requests \in Seq(Calls) /\ requests # <<>> /\ requests' = Tail(requests)
      /\ genQueue \in Seq(Nexts \cup Returns \cup {"throw"}) /\ TypeOK
  BY DEF TypeInv, TypeOK, HandleApply
<1>2. c \in Calls
  BY <1>1, TailFacts
<1>3. /\ Single(requests', d) /\ (Holds(requests', d) => Holds(requests, d) /\ d # c)
      /\ Holds(requests, c)
  BY <1>1, TakenOnce DEF Placed, InOnePlace
<1>4. call' = call /\ InOnePlace(d, requests, genQueue, running, resumed, results)
  BY DEF HandleApply, caller, Placed
<1>5. d = c => /\ call[d] # "idle" /\ ~Holds(genQueue, d) /\ d \notin running
               /\ ~Resumes(resumed, d) /\ ~Replied(results, d)
  BY <1>3, <1>4 DEF Placed, Nowhere, InOnePlace, Apart
<1>6. CASE UNCHANGED <<running, generator, results>>
  BY <1>3, <1>4, <1>6 DEF Placed, InOnePlace, Apart, Nowhere, generator
<1>7. CASE SendResult(c, "rejected") /\ UNCHANGED <<running, generator>>
  <2>1. SingleReply(results', d) /\ (Replied(results', d) => Replied(results, d) \/ d = c)
    BY <1>1, <1>2, <1>4, <1>5, <1>7, AnsweredOnce DEF InOnePlace, Outcomes
  <2>2. InOnePlace(d, requests', genQueue, running, resumed, results')
    BY <1>3, <1>4, <1>5, <2>1 DEF InOnePlace, Apart
  <2>3. call[d] = "idle" => Nowhere(d, requests', genQueue, running, resumed, results')
    BY <1>3, <1>5, <2>1 DEF Placed, Nowhere
  <2> QED
    BY <1>4, <1>7, <2>2, <2>3 DEF Placed, generator
<1>8. CASE running' = running \cup {c} /\ UNCHANGED <<generator, results>>
  <2>1. InOnePlace(d, requests', genQueue, running', resumed, results)
    BY <1>3, <1>4, <1>5, <1>8 DEF InOnePlace, Apart
  <2>2. call[d] = "idle" => Nowhere(d, requests', genQueue, running', resumed, results)
    BY <1>3, <1>5, <1>8 DEF Placed, Nowhere
  <2> QED
    BY <1>4, <1>8, <2>1, <2>2 DEF Placed, generator
<1>9. CASE c \in Nexts \cup Returns /\ genQueue' = Append(genQueue, c) /\ UNCHANGED <<running, resumed, results>>
  <2>1. Single(genQueue', d) /\ (Holds(genQueue', d) => Holds(genQueue, d) \/ d = c)
    <3>1. c \in Nexts \cup Returns \cup {"throw"} /\ genQueue \in Seq(Nexts \cup Returns \cup {"throw"})
      BY <1>1, <1>9
    <3>2. Single(genQueue, d) /\ (d = c => ~Holds(genQueue, d))
      BY <1>4, <1>5 DEF InOnePlace
    <3>3. genQueue' = Append(genQueue, c)
      BY <1>9
    <3> QED
      BY <3>1, <3>2, <3>3, SentOnce
  <2>2. InOnePlace(d, requests', genQueue', running, resumed, results)
    BY <1>3, <1>4, <1>5, <2>1 DEF InOnePlace, Apart
  <2>3. call[d] = "idle" => Nowhere(d, requests', genQueue', running, resumed, results)
    BY <1>3, <1>5, <2>1 DEF Placed, Nowhere
  <2> QED
    BY <1>4, <1>9, <2>2, <2>3 DEF Placed
<1> QED
  BY <1>6, <1>7, <1>8, <1>9 DEF HandleApply

\* An ordinary target that ends answers its call, if it is waited for.
LEMMA FinishPlaced ==
  ASSUME TypeInv, NEW d \in Calls, Placed(d), NEW c \in Calls, FinishApply(c)
  PROVE  Placed(d)'
<1>1. c \in running /\ running' = running \ {c}
  BY DEF FinishApply
<1>2. PICK outcome \in Outcomes : SendResult(c, outcome)
  BY DEF FinishApply
<1>3. UNCHANGED <<call, requests, genQueue, resumed>>
  BY DEF FinishApply, caller, generator
<1>4. InOnePlace(d, requests, genQueue, running, resumed, results) /\ TypeOK
  BY DEF Placed, TypeInv
<1>5. d = c => call[d] # "idle" /\ ~Replied(results, d)
  BY <1>1, <1>4 DEF Placed, Nowhere, InOnePlace, Apart
<1>6. SingleReply(results', d) /\ (Replied(results', d) => Replied(results, d) \/ d = c)
  BY <1>2, <1>4, <1>5, AnsweredOnce DEF InOnePlace
<1>7. InOnePlace(d, requests, genQueue, running', resumed, results')
  BY <1>1, <1>4, <1>6 DEF InOnePlace, Apart
<1>8. call[d] = "idle" => Nowhere(d, requests, genQueue, running', resumed, results')
  BY <1>1, <1>5, <1>6 DEF Placed, Nowhere
<1> QED
  BY <1>3, <1>7, <1>8 DEF Placed

\* What the generator answers leaves its queue for the handler that asked.
LEMMA AnswerPlaced ==
  ASSUME TypeInv, NEW d \in Calls, Placed(d), genQueue # <<>>, genQueue' = Tail(genQueue),
         NEW v, \/ resumed' = resumed
                \/ resumed' = resumed \cup {[call |-> Head(genQueue), value |-> v]},
         UNCHANGED <<call, requests, running, results>>
  PROVE  Placed(d)'
<1> DEFINE q == Head(genQueue)
<1>1. genQueue \in Seq(Nexts \cup Returns \cup {"throw"})
  BY DEF TypeInv, TypeOK
<1>2. InOnePlace(d, requests, genQueue, running, resumed, results)
  BY DEF Placed
<1>3. /\ Single(genQueue', d) /\ (Holds(genQueue', d) => Holds(genQueue, d) /\ d # q)
      /\ Holds(genQueue, q)
  BY <1>1, <1>2, TakenOnce DEF InOnePlace
<1>4. d = q => call[d] # "idle" /\ ~Resumes(resumed, d)
  BY <1>2, <1>3 DEF Placed, Nowhere, InOnePlace, Apart
<1>5. SingleResume(resumed', d) /\ (Resumes(resumed', d) => Resumes(resumed, d) \/ d = q)
  <2>1. SingleResume(resumed, d)
    BY <1>2 DEF InOnePlace
  <2>2. CASE resumed' = resumed
    BY <2>1, <2>2
  <2>3. CASE resumed' = resumed \cup {[call |-> q, value |-> v]}
    BY <1>4, <2>1, <2>3, ResumedOnce
  <2> QED
    BY <2>2, <2>3
<1>6. InOnePlace(d, requests, genQueue', running, resumed', results)
  BY <1>2, <1>3, <1>5 DEF InOnePlace, Apart
<1>7. call[d] = "idle" => Nowhere(d, requests, genQueue', running, resumed', results)
  BY <1>3, <1>4, <1>5 DEF Placed, Nowhere
<1> QED
  BY <1>6, <1>7 DEF Placed

\* A generator moves a call from its queue to the handlers that resume.
LEMMA GeneratorPlaced ==
  ASSUME TypeInv, NEW d \in Calls, Placed(d), GeneratorTake \/ GeneratorRun
  PROVE  Placed(d)'
<1>1. UNCHANGED <<call, requests, running, results>>
  BY DEF GeneratorTake, GeneratorRun, caller
<1>2. CASE GeneratorTake /\ UNCHANGED <<genQueue, resumed>>
  BY <1>1, <1>2, PlacedSame
<1>3. CASE GeneratorTake /\ ~UNCHANGED <<genQueue, resumed>>
  <2>1. genQueue # <<>> /\ genQueue' = Tail(genQueue)
    BY <1>3 DEF GeneratorTake
  <2>2. \/ resumed' = resumed
        \/ resumed' = resumed \cup {[call |-> Head(genQueue), value |-> FALSE]}
    BY <1>3 DEF GeneratorTake
  <2> QED
    BY <1>1, <2>1, <2>2, AnswerPlaced
<1>4. CASE GeneratorRun
  <2>1. genQueue # <<>> /\ genQueue' = Tail(genQueue)
    BY <1>4 DEF GeneratorRun, TypeInv, BodyHasCaller
  <2>2. PICK v \in BOOLEAN : resumed' = resumed \cup {[call |-> Head(genQueue), value |-> v]}
    BY <1>4 DEF GeneratorRun
  <2> QED
    BY <1>1, <2>1, <2>2, AnswerPlaced
<1> QED
  BY <1>2, <1>3, <1>4

\* A throw() is nobody's call.
LEMMA ThrowPlaced ==
  ASSUME TypeInv, NEW d \in Calls, Single(genQueue, d)
  PROVE  /\ Single(Append(genQueue, "throw"), d)
         /\ Holds(Append(genQueue, "throw"), d) => Holds(genQueue, d)
<1>1. d # "throw"
  BY CallsAssumption
<1>2. genQueue \in Seq(Nexts \cup Returns \cup {"throw"})
  BY DEF TypeInv, TypeOK
<1> QED
  BY <1>1, <1>2, SentOnce

\* A handler that resumes answers its call.
LEMMA ResumePlaced ==
  ASSUME TypeInv, NEW d \in Calls, Placed(d), NEW r \in Resumptions, ResumeNext(r)
  PROVE  Placed(d)'
<1>1. r \in resumed /\ resumed' = resumed \ {r} /\ UNCHANGED <<call, requests, running>>
  BY DEF ResumeNext, Resume, caller
<1>2. r.call \in Calls /\ TypeOK
  BY CallsAssumption DEF Resumptions, TypeInv
<1>3. PICK outcome \in Outcomes : SendResult(r.call, outcome)
  BY DEF ResumeNext, Resume, Outcomes
<1>4. InOnePlace(d, requests, genQueue, running, resumed, results)
  BY DEF Placed
<1>5. d = r.call => call[d] # "idle" /\ ~Replied(results, d)
  BY <1>1, <1>4 DEF Placed, Nowhere, InOnePlace, Apart, Resumes
<1>6. SingleReply(results', d) /\ (Replied(results', d) => Replied(results, d) \/ d = r.call)
  BY <1>2, <1>3, <1>4, <1>5, AnsweredOnce DEF InOnePlace
<1>7. /\ SingleResume(resumed', d)
      /\ Resumes(resumed', d) => Resumes(resumed, d) /\ d # r.call
  BY <1>1, <1>4 DEF InOnePlace, SingleResume, Resumes
<1>8. genQueue' = genQueue \/ genQueue' = Append(genQueue, "throw")
  BY DEF ResumeNext, Resume
<1>9. Single(genQueue', d) /\ (Holds(genQueue', d) => Holds(genQueue, d))
  BY <1>4, <1>8, ThrowPlaced DEF InOnePlace
<1>10. d = r.call => Resumes(resumed, d)
  BY <1>1 DEF Resumes
<1>11. InOnePlace(d, requests, genQueue', running, resumed', results')
  BY <1>4, <1>6, <1>7, <1>9, <1>10 DEF InOnePlace, Apart
<1>12. call[d] = "idle" => Nowhere(d, requests, genQueue', running, resumed', results')
  BY <1>5, <1>6, <1>7, <1>9 DEF Placed, Nowhere
<1> QED
  BY <1>1, <1>11, <1>12 DEF Placed

\* A generator that is told to stop gets a throw() in its queue, and no call
\* moves.
LEMMA StopPlaced ==
  ASSUME TypeInv, NEW d \in Calls, Placed(d), StopGenerator, UNCHANGED <<caller, requests, results>>
  PROVE  Placed(d)'
<1>1. UNCHANGED <<call, requests, running, resumed, results>>
  BY DEF StopGenerator, caller
<1>2. genQueue' = genQueue \/ genQueue' = Append(genQueue, "throw")
  BY DEF StopGenerator
<1>3. Single(genQueue', d) /\ (Holds(genQueue', d) => Holds(genQueue, d))
  BY <1>2, ThrowPlaced DEF Placed, InOnePlace
<1>4. InOnePlace(d, requests, genQueue', running, resumed, results)
  BY <1>3 DEF Placed, InOnePlace, Apart
<1>5. call[d] = "idle" => Nowhere(d, requests, genQueue', running, resumed, results)
  BY <1>3 DEF Placed, Nowhere
<1> QED
  BY <1>1, <1>4, <1>5 DEF Placed

\* kill() of the caller moves no call.
LEMMA RejectPlaced ==
  ASSUME NEW d \in Calls, Placed(d), RejectPending, UNCHANGED <<callee, requests, results>>
  PROVE  Placed(d)'
<1>1. call'[d] = "idle" => call[d] = "idle"
  BY DEF RejectPending
<1> QED
  BY <1>1, PlacedSame DEF callee, generator

\* Every step keeps each call in one place at most.
LEMMA PlaceStep ==
  ASSUME TypeInv, NEW d \in Calls, Placed(d), [Next]_vars
  PROVE  Placed(d)'
<1>1. ASSUME NEW c \in Calls, ApplyKilled(c) \/ Apply(c) \/ ApplyUnsent(c) PROVE Placed(d)'
  BY <1>1, CallPlaced
<1>2. ASSUME NEW c \in Calls, FinishApply(c) PROVE Placed(d)'
  BY <1>2, FinishPlaced
<1>3. CASE HandleResult
  BY <1>3, ResultPlaced
<1>4. CASE KillCaller \/ CallerDisconnected
  BY <1>4, RejectPlaced DEF KillCaller, CallerDisconnected
<1>5. CASE HandleApply
  BY <1>5, ApplyPlaced
<1>6. CASE GeneratorTake \/ GeneratorRun
  BY <1>6, GeneratorPlaced
<1>7. ASSUME NEW r \in Resumptions, ResumeNext(r) PROVE Placed(d)'
  BY <1>7, ResumePlaced
<1>8. CASE KillCallee
  BY <1>8, StopPlaced DEF KillCallee
<1>9. CASE CalleeDisconnected
  <2>1. UNCHANGED <<caller, requests, results>>
    BY <1>9 DEF CalleeDisconnected
  <2>2. CASE StopGenerator
    BY <2>1, <2>2, StopPlaced
  <2>3. CASE UNCHANGED <<running, generator>>
    BY <2>1, <2>3, PlacedSame DEF caller, generator
  <2> QED
    BY <1>9, <2>2, <2>3 DEF CalleeDisconnected
<1>10. CASE Close \/ UNCHANGED vars
  BY <1>10, PlacedSame DEF Close, vars, caller, callee, generator
<1> QED
  BY <1>1, <1>2, <1>3, <1>4, <1>5, <1>6, <1>7, <1>8, <1>9, <1>10 DEF Next

\* A set without two different elements counts one if it has any, and zero if not.
LEMMA CountOnce ==
  ASSUME NEW S, \A x, y \in S : x = y
  PROVE  Cardinality(S) = IF S = {} THEN 0 ELSE 1
<1>1. CASE S = {}
  BY <1>1, FS_EmptySet
<1>2. CASE S # {}
  <2>1. PICK x \in S : TRUE
    BY <1>2
  <2>2. S = {x}
    BY <2>1
  <2> QED
    BY <1>2, <2>2, FS_Singleton
<1> QED
  BY <1>1, <1>2

\* One place at most makes one answer at most.
LEMMA PlacedHeld ==
  ASSUME PlaceInv
  PROVE  AtMostOneAnswer
<1> SUFFICES ASSUME NEW c \in Calls PROVE
      LET at(s) == Cardinality({i \in DOMAIN s : s[i] = c})
          held == at(requests) + at(genQueue)
                  + (IF c \in running THEN 1 ELSE 0)
                  + Cardinality({r \in resumed : r.call = c})
                  + Cardinality({i \in DOMAIN results : results[i].call = c})
      IN held <= 1 /\ (call[c] = "idle" => held = 0)
  BY DEF AtMostOneAnswer
<1> DEFINE asked == {i \in DOMAIN requests : requests[i] = c}
           queued == {i \in DOMAIN genQueue : genQueue[i] = c}
           resuming == {r \in resumed : r.call = c}
           answered == {i \in DOMAIN results : results[i].call = c}
<1>1. Placed(c)
  BY DEF PlaceInv
<1>2. Cardinality(asked) = IF Holds(requests, c) THEN 1 ELSE 0
  <2>1. \A i, j \in asked : i = j
    BY <1>1 DEF Placed, InOnePlace, Single
  <2>2. asked = {} <=> ~Holds(requests, c)
    BY DEF Holds
  <2> QED
    BY <2>1, <2>2, CountOnce
<1>3. Cardinality(queued) = IF Holds(genQueue, c) THEN 1 ELSE 0
  <2>1. \A i, j \in queued : i = j
    BY <1>1 DEF Placed, InOnePlace, Single
  <2>2. queued = {} <=> ~Holds(genQueue, c)
    BY DEF Holds
  <2> QED
    BY <2>1, <2>2, CountOnce
<1>4. Cardinality(resuming) = IF Resumes(resumed, c) THEN 1 ELSE 0
  <2>1. \A r, t \in resuming : r = t
    BY <1>1 DEF Placed, InOnePlace, SingleResume
  <2>2. resuming = {} <=> ~Resumes(resumed, c)
    BY DEF Resumes
  <2> QED
    BY <2>1, <2>2, CountOnce
<1>5. Cardinality(answered) = IF Replied(results, c) THEN 1 ELSE 0
  <2>1. \A i, j \in answered : i = j
    BY <1>1 DEF Placed, InOnePlace, SingleReply
  <2>2. answered = {} <=> ~Replied(results, c)
    BY DEF Replied
  <2> QED
    BY <2>1, <2>2, CountOnce
<1> DEFINE held == Cardinality(asked) + Cardinality(queued) + (IF c \in running THEN 1 ELSE 0)
                   + Cardinality(resuming) + Cardinality(answered)
<1>6. Apart(c, requests, genQueue, running, resumed, results)
  BY <1>1 DEF Placed, InOnePlace
<1>7. held <= 1
  BY <1>2, <1>3, <1>4, <1>5, <1>6 DEF Apart
<1>8. call[c] = "idle" => held = 0
  <2>1. call[c] = "idle" => Nowhere(c, requests, genQueue, running, resumed, results)
    BY <1>1 DEF Placed
  <2> QED
    BY <1>2, <1>3, <1>4, <1>5, <2>1 DEF Nowhere
<1> QED
  BY <1>7, <1>8

\* A call never gets a second answer: whatever is closed or killed and in
\* whatever order, it is in one place at most (asked for, queued for the
\* generator, awaited, about to resume, answered), and before it was made in none.
THEOREM AnswerCorrect == Spec => []AtMostOneAnswer
<1>1. Init => PlaceInv
  BY InitPlaced DEF PlaceInv
<1>2. TypeInv /\ PlaceInv /\ [Next]_vars => PlaceInv'
  BY PlaceStep DEF PlaceInv
<1> QED
  BY <1>1, <1>2, PlacedHeld, TypeInvariant, PTL DEF Spec
=============================================================================
