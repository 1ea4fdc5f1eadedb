------------------------------ MODULE RpcCalls ------------------------------
(***************************************************************************)
(* Calls over an RpcPeer pair (server/src/rpc.ts) joined by the duplex     *)
(* serializer of server/src/rpc-serializer.ts: the caller's pendingResults,*)
(* the callee's apply handlers and the async generator a callee's object   *)
(* may be, the closing of the socket and kill() on either side.            *)
(*                                                                         *)
(* The generator is the JavaScript one: requests to it queue while its     *)
(* body runs, a throw() ends it where it is suspended.                     *)
(***************************************************************************)
EXTENDS Naturals, Sequences, FiniteSets

CONSTANTS
  Calls,   \* calls the caller makes, each at most once
  Oneway,  \* those of a oneway method
  Nexts,   \* those that are `next` of the generator
  Returns, \* those that are `return` of the generator
  MaxCalls \* bound: how many of the calls one behaviour makes

ASSUME CallsAssumption ==
  /\ Oneway \subseteq Calls /\ Nexts \subseteq Calls /\ Returns \subseteq Calls
  /\ Oneway \cap (Nexts \cup Returns) = {} /\ Nexts \cap Returns = {}
  /\ "throw" \notin Calls /\ MaxCalls \in Nat

VARIABLES
  call,           \* what the caller's program sees of each call
  pendingResults, \* caller: calls with a Deferred
  callerKilled,   \* caller: pendingResults is frozen
  swallowed,      \* calls whose result could not be deserialized (history)
  requests,       \* transport, caller to callee
  results,        \* transport, callee to caller
  closed,         \* the socket was closed or destroyed
  calleeKilled,   \* callee: pendingResults is frozen
  calleeGone,     \* callee: its serializer saw the socket close
  running,        \* callee: handlers awaiting an ordinary target
  gen,            \* state of the generator
  genQueue,       \* what waits for the generator: calls and throw()s
  resumed,        \* `next` and `return` handlers the generator has answered
  yielded         \* callee: the generator is in yieldedAsyncIterators

caller == <<call, pendingResults, callerKilled, swallowed>>
generator == <<gen, genQueue, resumed, yielded>>
callee == <<calleeKilled, calleeGone, running, generator>>
vars == <<caller, callee, requests, results, closed>>

Outcomes == {"resolved", "rejected"}

Init ==
  /\ call = [c \in Calls |-> "idle"]
  /\ pendingResults = {} /\ callerKilled = FALSE /\ swallowed = {}
  /\ requests = <<>> /\ results = <<>> /\ closed = FALSE
  /\ calleeKilled = FALSE /\ calleeGone = FALSE /\ running = {}
  /\ gen = "start" /\ genQueue = <<>> /\ resumed = {} /\ yielded = FALSE
-----------------------------------------------------------------------------
(* Caller *)

Idle(c) == call[c] = "idle" /\ Cardinality({d \in Calls : call[d] # "idle"}) < MaxCalls

\* A call of a killed peer fails at once; a oneway one does not wait.
ApplyKilled(c) ==
  /\ Idle(c) /\ callerKilled
  /\ call' = [call EXCEPT ![c] = IF c \in Oneway THEN "resolved" ELSE "rejected"]
  /\ UNCHANGED <<pendingResults, callerKilled, swallowed, callee, requests, results, closed>>

\* Mutant: a oneway call gets a Deferred too.
ApplyRegistersOneway(c) ==
  /\ Idle(c) /\ ~callerKilled
  /\ call' = [call EXCEPT ![c] = IF c \in Oneway THEN "resolved" ELSE "waiting"]
  /\ pendingResults' = pendingResults \cup {c}
  /\ requests' = Append(requests, c)
  /\ UNCHANGED <<callerKilled, swallowed, callee, results, closed>>

\* RpcProxy.apply: the Deferred is registered before the message is sent.
Apply(c) ==
  /\ Idle(c) /\ ~callerKilled
  /\ call' = [call EXCEPT ![c] = IF c \in Oneway THEN "resolved" ELSE "waiting"]
  /\ pendingResults' = pendingResults \cup ({c} \ Oneway)
  /\ requests' = Append(requests, c)
  /\ UNCHANGED <<callerKilled, swallowed, callee, results, closed>>

\* The message cannot be written (it does not stringify): the call is rejected,
\* its Deferred stays, and the duplex peer destroys the socket.
ApplyUnsent(c) ==
  /\ Idle(c) /\ ~callerKilled
  /\ call' = [call EXCEPT ![c] = IF c \in Oneway THEN "resolved" ELSE "rejected"]
  /\ pendingResults' = pendingResults \cup ({c} \ Oneway)
  /\ closed' = TRUE
  /\ UNCHANGED <<callerKilled, swallowed, callee, requests, results>>

\* A result arrives: its Deferred is removed, then the value is deserialized,
\* which may throw (an unknown local proxy id, a failing deserializer); then
\* nothing settles the call.
HandleResult ==
  /\ results # <<>> /\ results' = Tail(results)
  /\ LET r == Head(results)
         known == ~callerKilled /\ r.call \in pendingResults
         settled == IF call[r.call] = "waiting" THEN r.outcome ELSE call[r.call]
     IN \/ ~known /\ UNCHANGED <<call, pendingResults, swallowed>>
        \/ /\ known
           /\ pendingResults' = pendingResults \ {r.call}
           /\ \/ call' = [call EXCEPT ![r.call] = settled] /\ UNCHANGED swallowed
              \/ swallowed' = swallowed \cup {r.call} /\ UNCHANGED call
  /\ UNCHANGED <<callerKilled, callee, requests, closed>>

\* Mutant: pendingResults is cleared before its calls are rejected.
ClearPending == callerKilled' = TRUE /\ pendingResults' = {} /\ UNCHANGED call

\* kill(): every registered call is rejected.
RejectPending ==
  /\ callerKilled' = TRUE
  /\ call' = [c \in Calls |-> IF c \in pendingResults /\ call[c] = "waiting"
                               THEN "rejected" ELSE call[c]]
  /\ pendingResults' = {}

KillCaller ==
  /\ ~callerKilled /\ RejectPending
  /\ UNCHANGED <<swallowed, callee, requests, results, closed>>
-----------------------------------------------------------------------------
(* Callee *)

\* Mutant: the error that stands in for an unwritable value follows the value.
SendBoth(c, outcome) ==
  IF c \in Oneway THEN UNCHANGED <<results, closed>>
  ELSE /\ results' = results \o <<[call |-> c, outcome |-> outcome],
                                  [call |-> c, outcome |-> "rejected"]>>
       /\ UNCHANGED closed

\* sendResult: dropped when the serializer is disconnected; a value that cannot
\* be written is replaced by an error, and the socket is destroyed.
SendResult(c, outcome) ==
  IF c \in Oneway THEN UNCHANGED <<results, closed>>
  ELSE \/ /\ results' = IF calleeGone THEN results
                        ELSE Append(results, [call |-> c, outcome |-> outcome])
          /\ UNCHANGED closed
       \/ /\ ~calleeGone /\ closed' = TRUE
          /\ results' = Append(results, [call |-> c, outcome |-> "rejected"])

\* An apply arrives. The generator leaves yieldedAsyncIterators while a `next`
\* runs; a target that is gone is answered with an error.
HandleApply ==
  /\ requests # <<>> /\ requests' = Tail(requests)
  /\ LET c == Head(requests)
     IN \/ calleeKilled /\ UNCHANGED <<running, generator, results, closed>>
        \/ /\ ~calleeKilled /\ SendResult(c, "rejected")
           /\ UNCHANGED <<running, generator>>
        \/ /\ ~calleeKilled /\ c \notin Nexts \cup Returns
           /\ running' = running \cup {c}
           /\ UNCHANGED <<generator, results, closed>>
        \/ /\ ~calleeKilled /\ c \in Nexts \cup Returns
           /\ yielded' = (yielded /\ c \notin Nexts)
           /\ genQueue' = Append(genQueue, c)
           /\ UNCHANGED <<running, gen, resumed, results, closed>>
  /\ UNCHANGED <<caller, calleeKilled, calleeGone>>

\* The awaited target returns or throws.
FinishApply(c) ==
  /\ c \in running /\ running' = running \ {c}
  /\ \E outcome \in Outcomes : SendResult(c, outcome)
  /\ UNCHANGED <<caller, calleeKilled, calleeGone, generator, requests>>

\* The generator takes the next request in its queue, unless its body runs.
GeneratorTake ==
  /\ gen # "running" /\ genQueue # <<>>
  /\ LET q == Head(genQueue)
     IN IF q \in Nexts /\ gen # "done"
        THEN gen' = "running" /\ UNCHANGED <<genQueue, resumed>>
        ELSE /\ gen' = "done" /\ genQueue' = Tail(genQueue)
             /\ resumed' = IF q = "throw" THEN resumed
                           ELSE resumed \cup {[call |-> q, value |-> FALSE]}
  /\ UNCHANGED <<caller, calleeKilled, calleeGone, running, yielded, requests, results, closed>>

\* The body runs to its next `yield`, or to its end.
GeneratorRun ==
  /\ gen = "running" /\ genQueue' = Tail(genQueue)
  /\ \E value \in BOOLEAN :
       /\ gen' = IF value THEN "yield" ELSE "done"
       /\ resumed' = resumed \cup {[call |-> Head(genQueue), value |-> value]}
  /\ UNCHANGED <<caller, calleeKilled, calleeGone, running, yielded, requests, results, closed>>

\* The handler of `next` or `return` resumes. A value yielded after the kill has
\* no reader: the generator is told to stop (when `recheck`).
Resume(r, recheck) ==
  /\ r \in resumed /\ resumed' = resumed \ {r}
  /\ IF r.value /\ recheck /\ calleeKilled
     THEN genQueue' = Append(genQueue, "throw") /\ UNCHANGED yielded
     ELSE yielded' = (yielded \/ r.value) /\ UNCHANGED genQueue
  /\ SendResult(r.call, IF r.value \/ r.call \in Returns THEN "resolved" ELSE "rejected")
  /\ UNCHANGED <<caller, calleeKilled, calleeGone, running, gen, requests>>

\* Mutant: the handler does not look again whether the peer was killed.
ResumeUnchecked(r) == Resume(r, FALSE)
ResumeNext(r) == Resume(r, TRUE)

\* Mutant: kill() forgets the generators it should stop.
DropGenerator ==
  /\ calleeKilled' = TRUE /\ yielded' = FALSE
  /\ UNCHANGED <<running, gen, resumed, genQueue>>

\* kill() of the callee tells the generator to stop if it is suspended.
StopGenerator ==
  /\ calleeKilled' = TRUE /\ yielded' = FALSE
  /\ genQueue' = IF yielded THEN Append(genQueue, "throw") ELSE genQueue
  /\ UNCHANGED <<running, gen, resumed>>

KillCallee ==
  /\ ~calleeKilled /\ StopGenerator
  /\ UNCHANGED <<caller, calleeGone, requests, results, closed>>
-----------------------------------------------------------------------------
(* Socket *)

Close ==
  /\ ~closed /\ closed' = TRUE
  /\ UNCHANGED <<caller, callee, requests, results>>

\* onDisconnected on either side kills the peer; what had not arrived is lost.
CallerDisconnected ==
  /\ closed /\ ~callerKilled
  /\ RejectPending
  /\ UNCHANGED <<swallowed, callee, requests, results, closed>>

CalleeDisconnected ==
  /\ closed /\ ~calleeGone /\ calleeGone' = TRUE
  /\ IF calleeKilled THEN UNCHANGED <<calleeKilled, running, generator>> ELSE StopGenerator
  /\ UNCHANGED <<caller, requests, results, closed>>
-----------------------------------------------------------------------------
Replies == [call : Calls, outcome : Outcomes]
Resumptions == [call : Nexts \cup Returns, value : BOOLEAN]

Next ==
  \/ \E c \in Calls : ApplyKilled(c) \/ Apply(c) \/ ApplyUnsent(c) \/ FinishApply(c)
  \/ HandleResult \/ KillCaller
  \/ HandleApply \/ GeneratorTake \/ GeneratorRun
  \/ \E r \in Resumptions : ResumeNext(r)
  \/ KillCallee \/ Close \/ CallerDisconnected \/ CalleeDisconnected

Spec == Init /\ [][Next]_vars

\* A closed socket is noticed on both sides, and the event loop of a process
\* that still runs goes on with handlers and generator bodies. Nothing is
\* assumed of ordinary targets: a method may never return.
Fairness ==
  /\ WF_vars(CallerDisconnected) /\ WF_vars(CalleeDisconnected)
  /\ WF_vars(HandleApply) /\ WF_vars(HandleResult)
  /\ WF_vars(GeneratorTake) /\ WF_vars(GeneratorRun)
  /\ \A r \in Resumptions : WF_vars(ResumeNext(r))

FairSpec == Spec /\ Fairness
-----------------------------------------------------------------------------
TypeOK ==
  /\ call \in [Calls -> {"idle", "waiting"} \cup Outcomes]
  /\ pendingResults \subseteq Calls \ Oneway /\ swallowed \subseteq Calls
  /\ callerKilled \in BOOLEAN /\ calleeKilled \in BOOLEAN
  /\ calleeGone \in BOOLEAN /\ closed \in BOOLEAN
  /\ requests \in Seq(Calls) /\ results \in Seq(Replies)
  /\ running \subseteq Calls
  /\ gen \in {"start", "running", "yield", "done"}
  /\ genQueue \in Seq(Nexts \cup Returns \cup {"throw"})
  /\ resumed \subseteq Resumptions /\ yielded \in BOOLEAN

\* A caller never waits for a call the peer no longer knows of: the Deferred of
\* every unsettled call is in pendingResults, where kill() finds it. The one
\* way out is a result whose deserialization threw.
WaitersRegistered ==
  \A c \in Calls : call[c] = "waiting" => c \in pendingResults \cup swallowed

\* A call has one result at most, wherever it is: asked for, being worked on,
\* or answered. A second answer would be an `unknown result`.
AtMostOneAnswer ==
  \A c \in Calls :
    LET at(s) == Cardinality({i \in DOMAIN s : s[i] = c})
        held == at(requests) + at(genQueue)
                + (IF c \in running THEN 1 ELSE 0)
                + Cardinality({r \in resumed : r.call = c})
                + Cardinality({i \in DOMAIN results : results[i].call = c})
    IN held <= 1 /\ (call[c] = "idle" => held = 0)

\* After kill() no generator stays suspended at a `yield` for ever, with its
\* finally blocks never run: a throw() or a call waits for it, or the handler
\* that will send the throw() has yet to resume.
NoAbandonedGenerator ==
  calleeKilled /\ gen = "yield" => genQueue # <<>> \/ \E r \in resumed : r.value

\* When the socket closes, every caller still waiting is told so.
CloseSettlesCalls ==
  closed ~> \A c \in Calls : call[c] = "waiting" => c \in swallowed

\* When the socket closes, a generator somebody was reading stops for good: kill()
\* throws into it, however the kill and its last `next` interleave.
CloseStopsGenerator == closed ~> [](gen # "yield" /\ gen # "running")
=============================================================================
