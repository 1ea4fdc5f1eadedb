-------------------------- MODULE RecordingPipeline --------------------------
(***************************************************************************)
(* RecordingPipeline of common/src/recording.ts: start() consumes the      *)
(* frames of an ingest session, writes them to segments, rotates, prunes   *)
(* by age and size, and saves an index that a later start() recovers from. *)
(* stop() may come at any time, and seals the current segment while the    *)
(* loop of start() may be anywhere, sealing it too.                        *)
(*                                                                         *)
(* "loop" and "stop" are the two coroutines; pc holds the await each is    *)
(* suspended in. Session, writers and index are external: any call to them *)
(* may fail, calls of index.save() take effect in the order they are made. *)
(***************************************************************************)
EXTENDS Integers, SequencesExt

CONSTANTS
  MaxAge,      \* retention.maxAgeMs
  MaxBytes,    \* retention.maxTotalBytes; a frame has one byte, or none
  Duration,    \* retention.segmentDurationMs
  MaxSegments, \* bound: segments opened
  MaxTime,     \* bound: clock ticks
  MaxWritten,  \* bound: bytes written
  MaxCrashes,  \* bound: crashes of the process
  None         \* undefined

ASSUME PipelineAssumption ==
  /\ MaxAge \in Nat /\ MaxBytes \in Nat /\ Duration \in Nat \ {0}
  /\ MaxSegments \in Nat /\ MaxTime \in Nat /\ MaxWritten \in Nat /\ MaxCrashes \in Nat
  /\ None \notin Int

Ids == 1..MaxSegments
Coroutines == {"loop", "stop"}

VARIABLES
  now,      \* Date.now(), and the timestamp of a frame that arrives now
  pc,       \* coroutine -> the await it is suspended in
  stopped,  \* stop() was called
  frame,    \* the frame the loop handles
  seg,      \* segment objects, by the order they were opened
  segments, \* those the pipeline knows
  current,  \* currentSegment and currentWriter
  written,  \* segment file -> bytes in it
  writer,   \* segment file -> state of its SegmentWriter
  index,    \* entries last saved
  saves,    \* calls of index.save() under way, oldest first
  opened,   \* segments opened so far, by any run
  pruned,   \* segments a prune dropped (history)
  crashes   \* crashes so far

volatile == <<pc, stopped, frame, seg, segments, current, saves>>
disk == <<written, writer, index, opened>>
vars == <<now, volatile, disk, pruned, crashes>>

NoFrame == [timestampMs |-> 0, bytes |-> 0]
NoSegment == [startMs |-> None, endMs |-> None, sizeBytes |-> 0, open |-> FALSE]

Init ==
  /\ now = 0 /\ pc = [loop |-> "new", stop |-> "new"] /\ stopped = FALSE
  /\ frame = NoFrame
  /\ seg = [s \in Ids |-> NoSegment] /\ segments = {} /\ current = None /\ saves = <<>>
  /\ written = [s \in Ids |-> 0] /\ writer = [s \in Ids |-> "none"]
  /\ index = {} /\ opened = 0 /\ pruned = {} /\ crashes = 0

At(c, where) == pc[c] = where
Goto(c, where) == pc' = [pc EXCEPT ![c] = where]
-----------------------------------------------------------------------------
(* Retention and index *)

Total(known, objects) == MapThenSumSet(LAMBDA s : objects[s].sizeBytes, known)

\* The age-based prune goes by endMs, or startMs if the segment has no end.
Fresh(s, objects) ==
  (IF objects[s].endMs = None THEN objects[s].startMs ELSE objects[s].endMs) >= now - MaxAge

\* Mutants of pruneExpired(): the newest sealed segment goes first; only the age
\* is looked at.
KeepOldest(known, objects) ==
  LET fresh == {s \in known : Fresh(s, objects)}
      newer(s) == {t \in fresh : ~objects[t].open /\ t > s}
  IN {s \in fresh : objects[s].open \/ Total(fresh \ newer(s), objects) <= MaxBytes}
KeepFresh(known, objects) == {s \in known : Fresh(s, objects)}

\* pruneExpired(): what it leaves of `known`. A fresh sealed segment goes if the
\* total is too large when all older ones are gone; segments are numbered in the
\* order of their startMs.
Keep(known, objects) ==
  LET fresh == {s \in known : Fresh(s, objects)}
      older(s) == {t \in fresh : ~objects[t].open /\ t < s}
  IN {s \in fresh : objects[s].open \/ Total(fresh \ older(s), objects) <= MaxBytes}

\* persistIndex() begins: a snapshot of `known` is on its way to the index.
Entries(known, objects) ==
  {[id |-> s, startMs |-> objects[s].startMs, endMs |-> objects[s].endMs,
    sizeBytes |-> objects[s].sizeBytes] : s \in known}
Snapshot(c, known, objects) ==
  saves' = Append(saves, [by |-> c, entries |-> Entries(known, objects)])

\* Mutant: only sealed segments are saved.
PersistSealed(c, known, objects) == Snapshot(c, {s \in known : ~objects[s].open}, objects)
Persist(c, known, objects) == Snapshot(c, known, objects)
-----------------------------------------------------------------------------
(* sealCurrentSegment() *)

\* Mutant: a sealed segment still counts as open.
Ended(object) == [object EXCEPT !.endMs = now]
Sealed(object) == [object EXCEPT !.endMs = now, !.open = FALSE]

\* Its first part, up to `await close()`; `away` is where the coroutine goes when
\* there is nothing to seal.
Seal(c, closing, away) ==
  IF current = None THEN Goto(c, away) /\ UNCHANGED <<seg, writer>>
  ELSE /\ Goto(c, closing)
       /\ seg' = [seg EXCEPT ![current] = Sealed(@)]
       /\ writer' = [writer EXCEPT ![current] = "closed"]

\* close() returns: whatever is current by now is forgotten, segments are pruned
\* and the index is saved.
Closed(c, closing, saving) ==
  /\ At(c, closing) /\ Goto(c, saving)
  /\ current' = None
  /\ segments' = Keep(segments, seg)
  /\ pruned' = pruned \cup (segments \ segments')
  /\ Persist(c, segments', seg)
  /\ UNCHANGED <<now, stopped, frame, seg, disk, crashes>>

\* Mutant: start() returns without a seal.
NoFinally == Goto("loop", "done") /\ UNCHANGED <<seg, writer>>

\* The finally block of start(), reached when the frames end or anything in the
\* loop throws.
Finally == Seal("loop", "end close", "done")
-----------------------------------------------------------------------------
(* start() *)

\* start() runs to `await index.load()`, also in the first run after a crash.
Start ==
  /\ At("loop", "new") /\ Goto("loop", "load")
  /\ UNCHANGED <<now, stopped, frame, seg, segments, current, saves, disk, pruned, crashes>>

\* recover(): the entries are taken for sealed segments, whatever they were. A
\* load that fails rejects start() outside of its try block.
Load ==
  /\ At("loop", "load")
  /\ \/ /\ Goto("loop", "frames")
        /\ LET ids == {e.id : e \in index}
               entry(s) == CHOOSE e \in index : e.id = s
               objects == [s \in Ids |-> IF s \in ids
                             THEN [startMs |-> entry(s).startMs, endMs |-> entry(s).endMs,
                                   sizeBytes |-> entry(s).sizeBytes, open |-> FALSE]
                             ELSE seg[s]]
           IN /\ seg' = objects
              /\ segments' = Keep(ids, objects)
              /\ pruned' = pruned \cup (ids \ segments')
     \/ Goto("loop", "failed") /\ UNCHANGED <<seg, segments, pruned>>
  /\ UNCHANGED <<now, stopped, frame, current, saves, disk, crashes>>

\* `await writer.write()` of the current writer; a segment that stop() took away
\* meanwhile makes the handler throw.
Write ==
  IF current = None THEN Finally /\ UNCHANGED written
  ELSE /\ Goto("loop", "write")
       /\ written' = [written EXCEPT ![current] = @ + frame'.bytes]
       /\ UNCHANGED <<seg, writer>>

\* The session yields a frame that was taken just now.
Arrives ==
  /\ At("loop", "frames")
  /\ \E bytes \in {0, 1} :
       /\ bytes = 0 \/ MapThenSumSet(LAMBDA s : written[s], Ids) < MaxWritten
       /\ frame' = [timestampMs |-> now, bytes |-> bytes]

\* Mutant: the loop relies on the session to end its frames.
NeverBreak == FALSE
Break == stopped

\* A frame arrives: it opens a segment, rotates the current one, or is written.
Frame ==
  /\ Arrives
  /\ CASE Break -> Finally /\ UNCHANGED written
       [] ~Break /\ current = None ->
            Goto("loop", "open") /\ UNCHANGED <<seg, writer, written>>
       [] ~Break /\ current # None /\ now - seg[current].startMs >= Duration ->
            Seal("loop", "rotate close", "open") /\ UNCHANGED written
       [] OTHER -> Write
  /\ UNCHANGED <<now, stopped, segments, current, saves, index, opened, pruned, crashes>>

\* The session's frames end or throw, which start() takes for the same.
FramesEnd ==
  /\ At("loop", "frames") /\ Finally
  /\ UNCHANGED <<now, stopped, frame, segments, current, saves, written, index, opened,
                 pruned, crashes>>

\* openNewSegment(): the factory returns a writer, the segment becomes current
\* and the index is saved before anything is written to it.
Open ==
  /\ At("loop", "open") /\ opened < MaxSegments
  /\ opened' = opened + 1
  /\ seg' = [seg EXCEPT ![opened'] = [startMs |-> frame.timestampMs, endMs |-> None,
                                      sizeBytes |-> 0, open |-> TRUE]]
  /\ writer' = [writer EXCEPT ![opened'] = "open"]
  /\ current' = opened'
  /\ segments' = segments \cup {opened'}
  /\ Persist("loop", segments', seg') /\ Goto("loop", "open save")
  /\ UNCHANGED <<now, stopped, frame, written, index, pruned, crashes>>

\* write() returns; the segment may have been sealed while it ran.
Written ==
  /\ At("loop", "write")
  /\ IF current = None THEN Finally
     ELSE /\ seg' = [seg EXCEPT ![current].sizeBytes = @ + frame.bytes]
          /\ Goto("loop", "frames") /\ UNCHANGED writer
  /\ UNCHANGED <<now, stopped, frame, segments, current, saves, written, index, opened,
                 pruned, crashes>>
-----------------------------------------------------------------------------
(* stop() *)

\* Up to `await session.stop()`.
Stop ==
  /\ At("stop", "new") /\ ~At("loop", "new")
  /\ stopped' = TRUE /\ Goto("stop", "session")
  /\ UNCHANGED <<now, frame, seg, segments, current, saves, disk, pruned, crashes>>

\* The session has stopped: the current segment is sealed.
SessionStopped ==
  /\ At("stop", "session")
  /\ \/ Seal("stop", "close", "done")
     \/ Goto("stop", "failed") /\ UNCHANGED <<seg, writer>>
  /\ UNCHANGED <<now, stopped, frame, segments, current, saves, written, index, opened,
                 pruned, crashes>>
-----------------------------------------------------------------------------
(* Both coroutines *)

CloseReturns ==
  \/ Closed("loop", "rotate close", "rotate save")
  \/ Closed("loop", "end close", "end save")
  \/ Closed("stop", "close", "save")

\* The oldest save() takes effect; its caller goes on.
Saved ==
  /\ saves # <<>> /\ saves' = Tail(saves) /\ UNCHANGED frame
  /\ index' = Head(saves).entries
  /\ CASE Head(saves).by = "stop" -> Goto("stop", "done") /\ UNCHANGED <<seg, writer, written>>
       [] Head(saves).by = "loop" /\ At("loop", "open save") -> Write
       [] Head(saves).by = "loop" /\ At("loop", "rotate save") ->
            Goto("loop", "open") /\ UNCHANGED <<seg, writer, written>>
       [] Head(saves).by = "loop" /\ At("loop", "end save") ->
            Goto("loop", "done") /\ UNCHANGED <<seg, writer, written>>
  /\ UNCHANGED <<now, stopped, segments, current, opened, pruned, crashes>>

\* The call a coroutine awaits fails. In the loop that leads to the finally
\* block, and in the finally block start() itself is rejected; so is stop().
Fail ==
  \E c \in Coroutines :
    /\ \/ /\ c = "loop" /\ pc[c] \in {"open", "open save", "write", "rotate close", "rotate save"}
          /\ Finally
       \/ /\ \/ c = "loop" /\ pc[c] \in {"end close", "end save"}
             \/ c = "stop" /\ pc[c] \in {"close", "save"}
          /\ Goto(c, "failed") /\ UNCHANGED <<seg, writer>>
    /\ saves' = RemoveFirstMatch(saves, LAMBDA x : x.by = c)
    /\ UNCHANGED <<now, stopped, frame, segments, current, written, index, opened, pruned, crashes>>

Tick == now < MaxTime /\ now' = now + 1 /\ UNCHANGED <<volatile, disk, pruned, crashes>>

\* The process dies and a new one makes a new pipeline.
Crash ==
  /\ crashes < MaxCrashes /\ crashes' = crashes + 1
  /\ ~At("loop", "new")
  /\ pc' = [c \in Coroutines |-> "new"] /\ stopped' = FALSE
  /\ frame' = NoFrame
  /\ seg' = [s \in Ids |-> NoSegment] /\ segments' = {} /\ current' = None /\ saves' = <<>>
  /\ writer' = [s \in Ids |-> IF writer[s] = "open" THEN "lost" ELSE writer[s]]
  /\ UNCHANGED <<now, written, index, opened, pruned>>

Next ==
  \/ Start \/ Load \/ Frame \/ FramesEnd \/ Open \/ Written
  \/ Stop \/ SessionStopped \/ CloseReturns \/ Saved \/ Fail \/ Tick \/ Crash

Spec == Init /\ [][Next]_vars

\* External calls return or fail; a stopped session still yields a frame or ends.
\* Nothing is assumed of the frames of a session that was not stopped.
Fairness ==
  /\ WF_vars(Load) /\ WF_vars(Open) /\ WF_vars(Written) /\ WF_vars(CloseReturns)
  /\ WF_vars(Saved) /\ WF_vars(Fail) /\ WF_vars(SessionStopped)
  /\ WF_vars(stopped /\ (Frame \/ FramesEnd))

FairSpec == Spec /\ Fairness
-----------------------------------------------------------------------------
Objects == [startMs : 0..MaxTime \cup {None}, endMs : 0..MaxTime \cup {None},
            sizeBytes : 0..MaxWritten, open : BOOLEAN]

TypeOK ==
  /\ now \in 0..MaxTime /\ frame \in [timestampMs : 0..now, bytes : {0, 1}]
  /\ stopped \in BOOLEAN
  /\ pc.loop \in {"new", "load", "frames", "open", "open save", "write", "rotate close",
                  "rotate save", "end close", "end save", "done", "failed"}
  /\ pc.stop \in {"new", "session", "close", "save", "done", "failed"}
  /\ seg \in [Ids -> Objects]
  /\ \A s \in Ids : seg[s].endMs # None => seg[s].startMs <= seg[s].endMs
  /\ \A s \in Ids : seg[s].open => seg[s].endMs = None
  /\ segments \subseteq 1..opened /\ current \in 1..opened \cup {None}
  /\ writer \in [Ids -> {"none", "open", "closed", "lost"}]
  /\ written \in [Ids -> 0..MaxWritten] /\ opened \in 0..MaxSegments
  /\ \A i \in DOMAIN saves : saves[i].by \in Coroutines

\* What a crash loses: every segment file with data in it has its entry in the
\* saved index, so that recover() finds it, unless retention dropped it.
FramesIndexed ==
  \A s \in Ids : written[s] > 0 /\ s \notin pruned => \E e \in index : e.id = s

\* "When exceeded the oldest sealed segments are pruned first": unless the
\* current segment is being sealed, sealed ones never hold more than the policy
\* allows, wherever the two coroutines are.
SealedWithinBudget ==
  (current = None \/ seg[current].open)
    => Total({s \in segments : ~seg[s].open}, seg) <= MaxBytes

\* A sealed segment that its age does not condemn is only dropped when no older
\* sealed one is kept, also among segments recovered after a crash.
OldestPrunedFirst ==
  [][\A s \in segments \ segments' :
       crashes' = crashes /\ ~seg[s].open /\ Fresh(s, seg)
         => \A t \in segments' : t < s => seg'[t].open]_vars

\* When start() returns and nobody called stop(), no writer is left open and all
\* segments are sealed.
EndSealsAll ==
  At("loop", "done") /\ ~stopped =>
    /\ \A s \in Ids : writer[s] # "open"
    /\ \A s \in segments : ~seg[s].open

\* stop() ends the loop of start().
StopEnds == stopped ~> (At("loop", "done") \/ At("loop", "failed") \/ ~stopped)
=============================================================================
