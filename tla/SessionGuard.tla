---------------------------- MODULE SessionGuard ----------------------------
(***************************************************************************)
(* SessionRestartGuard and CrashSafeRunner of common/src/reliability.ts:   *)
(* the guard's start() makes a runner whose task opens an ingest session   *)
(* (connectWithRetry) and records it with a RecordingPipeline, which is    *)
(* seen here from outside: its start() returns when the session ends, also *)
(* by an error, and rejects when recovering or sealing fails.              *)
(***************************************************************************)
EXTENDS Naturals

CONSTANTS
  MaxRestarts, \* opts.maxRestarts
  MaxAttempts, \* retry.maxAttempts
  MaxRunners,  \* bound: runners that start() makes
  None         \* undefined

Runners == 1..MaxRunners

VARIABLES
  made,     \* runners made so far
  runner,   \* the guard's runner
  pipeline, \* the runner whose task made the guard's pipeline
  stopping, \* the pipeline the guard's stop() awaits, if any; None: no stop() is running
  task,     \* runner -> where its task is
  stopped,  \* runners stop() was called of
  restarts, \* runner -> restarts
  attempts, \* runner -> failed attempts to open a session, in the retry loop
  halted,   \* runners whose pipeline was told to stop
  ended     \* runner -> how its last session ended (history)

guard == <<made, runner, pipeline, stopping>>
vars == <<guard, task, stopped, restarts, attempts, halted, ended>>

Init ==
  /\ made = 0 /\ runner = None /\ pipeline = None /\ stopping = None
  /\ task = [r \in Runners |-> "new"] /\ stopped = {} /\ halted = {}
  /\ restarts = [r \in Runners |-> 0] /\ attempts = [r \in Runners |-> 0]
  /\ ended = [r \in Runners |-> "none"]

At(r, where) == task[r] = where
Goto(r, where) == task' = [task EXCEPT ![r] = where]
-----------------------------------------------------------------------------
(* The guard *)

Start ==
  /\ runner = None /\ made < MaxRunners
  /\ made' = made + 1 /\ runner' = made'
  /\ Goto(made', "connect")
  /\ UNCHANGED <<pipeline, stopping, stopped, restarts, attempts, halted, ended>>

\* stop() reaches the runner and whatever pipeline there is by now; it forgets
\* both when pipeline.stop() returns.
Stop ==
  /\ stopping = None /\ stopping' = {pipeline} \ {None}
  /\ stopped' = stopped \cup ({runner} \ {None})
  /\ halted' = halted \cup ({pipeline} \ {None})
  /\ UNCHANGED <<made, runner, pipeline, task, restarts, attempts, ended>>

StopReturns ==
  /\ stopping # None /\ stopping' = None
  /\ runner' = None /\ pipeline' = None
  /\ UNCHANGED <<made, task, stopped, restarts, attempts, halted, ended>>

\* pipeline.stop() rejects: the guard keeps its runner, which start() then takes
\* for a running one.
StopFails ==
  /\ stopping \notin {None, {}} /\ stopping' = None
  /\ UNCHANGED <<made, runner, pipeline, task, stopped, restarts, attempts, halted, ended>>
-----------------------------------------------------------------------------
(* The runner's task *)

\* A session opens; it is recorded whether the runner was stopped or not.
Connected(r) ==
  /\ At(r, "connect") /\ Goto(r, "record")
  /\ pipeline' = r /\ halted' = halted \ {r}
  /\ attempts' = [attempts EXCEPT ![r] = 0]
  /\ UNCHANGED <<made, runner, stopping, stopped, restarts, ended>>

\* The task throws: the runner sleeps before the next run of it, unless it was
\* stopped or has used up its restarts.
Crashes(r) ==
  IF r \in stopped THEN Goto(r, "over") /\ UNCHANGED restarts
  ELSE /\ restarts' = [restarts EXCEPT ![r] = @ + 1]
       /\ Goto(r, IF restarts'[r] > MaxRestarts THEN "over" ELSE "backoff")

\* openSession() fails: connectWithRetry tries again later, or gives up.
ConnectFails(r) ==
  /\ At(r, "connect")
  /\ IF attempts[r] + 1 = MaxAttempts
     THEN attempts' = [attempts EXCEPT ![r] = 0] /\ Crashes(r)
     ELSE /\ attempts' = [attempts EXCEPT ![r] = @ + 1]
          /\ Goto(r, "retry") /\ UNCHANGED restarts
  /\ UNCHANGED <<guard, stopped, halted, ended>>

Retry(r) ==
  /\ At(r, "retry") /\ Goto(r, "connect")
  /\ UNCHANGED <<guard, stopped, restarts, attempts, halted, ended>>

\* The session ends, by itself or by an error, or because the pipeline was told
\* to stop: pipeline.start() returns in each case, and the task is complete.
SessionEnds(r) ==
  /\ At(r, "record") /\ Goto(r, "over")
  /\ \E how \in {"end", "error"} \cup (IF r \in halted THEN {"stop"} ELSE {}) :
       ended' = [ended EXCEPT ![r] = how]
  /\ UNCHANGED <<guard, stopped, restarts, attempts, halted>>

\* Recovering from the index or sealing fails: pipeline.start() rejects.
PipelineFails(r) ==
  /\ At(r, "record") /\ Crashes(r)
  /\ ended' = [ended EXCEPT ![r] = "error"]
  /\ UNCHANGED <<guard, stopped, attempts, halted>>

\* The timer of the backoff runs the task again; stop() did not clear it.
Restart(r) ==
  /\ At(r, "backoff") /\ Goto(r, "connect")
  /\ UNCHANGED <<guard, stopped, restarts, attempts, halted, ended>>

Next ==
  \/ Start \/ Stop \/ StopReturns \/ StopFails
  \/ \E r \in Runners : \/ Connected(r) \/ ConnectFails(r) \/ Retry(r)
                        \/ SessionEnds(r) \/ PipelineFails(r) \/ Restart(r)

Spec == Init /\ [][Next]_vars
-----------------------------------------------------------------------------
\* "If the session crashes it is restarted automatically with backoff": a runner
\* whose session ended by an error, and that nobody stopped, either is about to
\* run its task again or has used up its restarts.
CrashIsRestarted ==
  \A r \in Runners :
    At(r, "over") /\ ended[r] = "error" /\ r \notin stopped => restarts[r] > MaxRestarts
=============================================================================
