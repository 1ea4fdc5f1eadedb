---------------------- MODULE RecordingPipeline_proofs ----------------------
(***************************************************************************)
(* Proofs about RecordingPipeline: its type invariant, that a crash loses  *)
(* no segment, that start() seals what it opened, and the retention policy.*)
(***************************************************************************)
EXTENDS RecordingPipeline, DataLemmas
-----------------------------------------------------------------------------
(* The inductive invariant of the types *)

LoopPlaces == {"new", "load", "frames", "open", "open save", "write", "rotate close",
               "rotate save", "end close", "end save", "done", "failed"}
StopPlaces == {"new", "session", "close", "save", "done", "failed"}
Before == {"new", "load"}
Saving == {"open save", "rotate save", "end save"}
EntryType == [id : Ids, startMs : 0..MaxTime, endMs : 0..MaxTime \cup {None},
              sizeBytes : 0..MaxWritten]
SaveType == [by : Coroutines, entries : SUBSET EntryType]

\* The plain types of the state.
Shape ==
  /\ now \in 0..MaxTime /\ stopped \in BOOLEAN
  /\ frame \in [timestampMs : 0..now, bytes : {0, 1}]
  /\ DOMAIN pc = Coroutines /\ pc["loop"] \in LoopPlaces /\ pc["stop"] \in StopPlaces
  /\ opened \in 0..MaxSegments /\ segments \subseteq 1..opened
  /\ current \in 1..opened \cup {None}
  /\ writer \in [Ids -> {"none", "open", "closed", "lost"}]
  /\ written \in [Ids -> 0..MaxWritten]

\* Nothing is known before the index is loaded, and stop() finds nothing to
\* seal; the loop has no current segment when it is about to open one.
Flow ==
  /\ pc["loop"] \in Before => segments = {} /\ pc["stop"] \notin {"close", "save"}
  /\ pc["loop"] \in Before \cup {"open", "rotate save", "end save", "done"} => current = None

\* What a segment object or an index entry may say at `time` of a segment file
\* with `bytes` in it.
Describes(o, bytes, time) ==
  /\ o.startMs \in 0..time /\ o.sizeBytes \in 0..bytes
  /\ o.endMs \in 0..time \cup {None} /\ (o.endMs # None => o.startMs <= o.endMs)

\* The segment objects.
ObjectsOK(objects, files, time) ==
  /\ objects \in [Ids -> Objects]
  /\ \A s \in Ids : /\ objects[s] = NoSegment \/ Describes(objects[s], files[s], time)
                    /\ objects[s].open => objects[s].endMs = None

\* What is known has been opened. The bytes of a frame are in the file before
\* its size is added to the object.
Files ==
  /\ ObjectsOK(seg, written, now)
  /\ \A s \in Ids : s \in segments \/ s = current => Describes(seg[s], written[s], now)
  /\ pc["loop"] = "write" /\ current # None
       => seg[current].sizeBytes + frame.bytes <= written[current]

\* A set of index entries, when n segments have been opened.
IndexOK(entries, n, files, time) ==
  entries \subseteq EntryType /\ \A e \in entries : e.id <= n /\ Describes(e, files[e.id], time)

\* A coroutine that is suspended at `place` may have a save under way.
Waits(c, place) == IF c = "loop" THEN place \in Saving ELSE place = "save"

\* The saves under way: at most one of each coroutine, which is waiting for it.
Pending(queue, places, n, files, time) ==
  /\ queue \in Seq(SaveType)
  /\ \A i \in DOMAIN queue : /\ IndexOK(queue[i].entries, n, files, time)
                             /\ Waits(queue[i].by, places[queue[i].by])
  /\ \A i, j \in DOMAIN queue : queue[i].by = queue[j].by => i = j

Queue ==
  /\ IndexOK(index, opened, written, now)
  /\ Pending(saves, pc, opened, written, now)

\* A frame that is still to be written fits in the bound.
Room ==
  pc["loop"] \in {"open", "open save", "rotate close", "rotate save"}
    => frame.bytes = 0 \/ SumOver(written, Ids) < MaxWritten

TypeInv == Shape /\ Flow /\ Files /\ Queue /\ Room

-----------------------------------------------------------------------------
(* What the parts of a step do to the parts of the invariant *)

\* What is true of a segment file stays true when time passes and it grows.
LEMMA DescribesStays ==
  ASSUME NEW m \in Nat, NEW n \in Nat, m <= n, NEW t \in Nat, NEW u \in Nat, t <= u,
         NEW o, Describes(o, m, t)
  PROVE  Describes(o, n, u)
BY PipelineAssumption DEF Describes

\* An index that is right stays so when segments are opened, files grow and
\* time passes.
LEMMA IndexStays ==
  ASSUME NEW entries, NEW m \in Nat, NEW n \in Nat, m <= n,
         NEW f \in [Ids -> Nat], NEW g \in [Ids -> Nat], \A s \in Ids : f[s] <= g[s],
         NEW t \in Nat, NEW u \in Nat, t <= u, IndexOK(entries, m, f, t)
  PROVE  IndexOK(entries, n, g, u)
<1>1. \A e \in entries : e.id \in Ids
  BY DEF IndexOK, EntryType
<1>2. \A e \in entries : e.id <= n
  BY <1>1 DEF IndexOK, Ids
<1>3. \A e \in entries : Describes(e, g[e.id], u)
  BY <1>1, DescribesStays DEF IndexOK
<1> QED
  BY <1>2, <1>3 DEF IndexOK

\* The pending saves are as they were when the coroutines that move were not
\* waiting for one.
LEMMA PendingStays ==
  ASSUME NEW q, NEW m \in Nat, NEW n \in Nat, m <= n,
         NEW f \in [Ids -> Nat], NEW g \in [Ids -> Nat], \A s \in Ids : f[s] <= g[s],
         NEW t \in Nat, NEW u \in Nat, t <= u, NEW p, NEW r, Pending(q, p, m, f, t),
         \A c \in Coroutines : r[c] = p[c] \/ ~Waits(c, p[c])
  PROVE  Pending(q, r, n, g, u)
<1>1. \A i \in DOMAIN q : q[i].by \in Coroutines
  <2>1. \A i \in DOMAIN q : q[i] \in SaveType
    BY ElementOfSeq, LenProperties DEF Pending
  <2> QED
    BY <2>1 DEF SaveType
<1>2. \A i \in DOMAIN q : Waits(q[i].by, r[q[i].by])
  BY <1>1 DEF Pending
<1>3. \A i \in DOMAIN q : IndexOK(q[i].entries, n, g, u)
  BY IndexStays DEF Pending
<1> QED
  BY <1>2, <1>3 DEF Pending

\* A coroutine makes a save and waits for it.
LEMMA PendingAppends ==
  ASSUME NEW q, NEW n, NEW f, NEW t, NEW p, NEW r, Pending(q, p, n, f, t),
         NEW x \in SaveType, IndexOK(x.entries, n, f, t),
         ~Waits(x.by, p[x.by]), Waits(x.by, r[x.by]),
         \A c \in Coroutines \ {x.by} : r[c] = p[c]
  PROVE  Pending(Append(q, x), r, n, f, t)
<1>1. /\ q \in Seq(SaveType) /\ Append(q, x) \in Seq(SaveType)
      /\ \A i \in DOMAIN q : q[i].by \in Coroutines /\ q[i].by # x.by
  <2>1. q \in Seq(SaveType) /\ \A i \in DOMAIN q : q[i] \in SaveType
    BY ElementOfSeq, LenProperties DEF Pending
  <2> QED
    BY <2>1, AppendProperties DEF SaveType, Pending
<1>2. \A i \in DOMAIN Append(q, x) :
        \/ i \in DOMAIN q /\ Append(q, x)[i] = q[i]
        \/ i \notin DOMAIN q /\ Append(q, x)[i] = x /\ i = Len(q) + 1
  BY <1>1, AppendProperties, LenProperties
<1>3. \A i \in DOMAIN Append(q, x) :
        /\ IndexOK(Append(q, x)[i].entries, n, f, t)
        /\ Waits(Append(q, x)[i].by, r[Append(q, x)[i].by])
  BY <1>1, <1>2 DEF Pending
<1>4. \A i, j \in DOMAIN Append(q, x) : Append(q, x)[i].by = Append(q, x)[j].by => i = j
  BY <1>1, <1>2 DEF Pending
<1> QED
  BY <1>1, <1>3, <1>4 DEF Pending

\* A save is over, and its coroutine goes on.
LEMMA PendingDrops ==
  ASSUME NEW q, NEW n, NEW f, NEW t, NEW p, NEW r, Pending(q, p, n, f, t),
         NEW k \in DOMAIN q, \A c \in Coroutines \ {q[k].by} : r[c] = p[c]
  PROVE  /\ Pending(RemoveAt(q, k), r, n, f, t)
         /\ \A i \in DOMAIN RemoveAt(q, k) : RemoveAt(q, k)[i].by # q[k].by
<1>1. q \in Seq(SaveType) /\ RemoveAt(q, k) \in Seq(SaveType)
  BY RemoveFacts DEF Pending
<1>2. \A i \in DOMAIN q : q[i].by \in Coroutines
  <2>1. \A i \in DOMAIN q : q[i] \in SaveType
    BY <1>1, ElementOfSeq, LenProperties
  <2> QED
    BY <2>1 DEF SaveType
<1> DEFINE at(i) == IF i < k THEN i ELSE i + 1
<1>3. ASSUME NEW i \in DOMAIN RemoveAt(q, k)
      PROVE  i \in Nat /\ at(i) \in DOMAIN q /\ at(i) # k /\ RemoveAt(q, k)[i] = q[at(i)]
  <2>1. k \in 1..Len(q) /\ DOMAIN q = 1..Len(q) /\ Len(q) \in Nat
    BY <1>1, LenProperties
  <2> QED
    BY <1>1, <1>3, <2>1, RemoveFacts
<1>4. ASSUME NEW i \in Nat, NEW j \in Nat, at(i) = at(j) PROVE i = j
  <2>1. k \in Nat
    BY <1>1, LenProperties
  <2> QED
    BY <1>4, <2>1
<1> HIDE DEF at
<1>5. \A i \in DOMAIN RemoveAt(q, k) : RemoveAt(q, k)[i].by # q[k].by
  BY <1>3 DEF Pending
<1>6. \A i \in DOMAIN RemoveAt(q, k) :
        /\ IndexOK(RemoveAt(q, k)[i].entries, n, f, t)
        /\ Waits(RemoveAt(q, k)[i].by, r[RemoveAt(q, k)[i].by])
  BY <1>2, <1>3, <1>5 DEF Pending
<1>7. \A i, j \in DOMAIN RemoveAt(q, k) : RemoveAt(q, k)[i].by = RemoveAt(q, k)[j].by => i = j
  BY <1>3, <1>4 DEF Pending
<1> QED
  BY <1>1, <1>5, <1>6, <1>7 DEF Pending

\* What a failed call takes out of the queue, if it was a save.
Without(q, c) == RemoveFirstMatch(q, LAMBDA x : x.by = c)

\* A coroutine's save leaves the queue of saves, in which it is once or not at
\* all.
LEMMA FirstMatch ==
  ASSUME NEW q \in Seq(SaveType), NEW c
  PROVE  \/ Without(q, c) = q /\ \A i \in DOMAIN q : q[i].by # c
         \/ \E k \in DOMAIN q : q[k].by = c /\ Without(q, c) = RemoveAt(q, k)
<1> DEFINE I == {i \in 1..Len(q) : q[i].by = c}
<1>1. DOMAIN q = 1..Len(q)
  BY LenProperties
<1>2. CASE I = {}
  BY <1>1, <1>2 DEF Without, RemoveFirstMatch
<1>3. CASE I # {}
  <2>1. I \subseteq Nat
    BY <1>1
  <2>2. Min(I) \in I
    BY <1>3, <2>1, MinFacts
  <2>3. Without(q, c) = RemoveAt(q, Min(I))
    BY <1>3 DEF Without, RemoveFirstMatch, SelectInSeq
  <2> QED
    BY <1>1, <2>2, <2>3
<1> QED
  BY <1>2, <1>3

\* The oldest save is the one at position 1.
LEMMA TailRemoves ==
  ASSUME NEW S, NEW q \in Seq(S), q # <<>>
  PROVE  1 \in DOMAIN q /\ Head(q) = q[1] /\ Tail(q) = RemoveAt(q, 1)
<1>1. /\ 1 \in DOMAIN q /\ Head(q) = q[1] /\ Len(q) \in Nat
      /\ Tail(q) \in Seq(S) /\ Len(Tail(q)) = Len(q) - 1
      /\ \A i \in 1..Len(Tail(q)) : Tail(q)[i] = q[i + 1]
  BY HeadTailProperties, LenProperties, EmptySeq
<1>2. /\ RemoveAt(q, 1) \in Seq(S) /\ DOMAIN RemoveAt(q, 1) = 1..(Len(q) - 1)
      /\ \A i \in DOMAIN RemoveAt(q, 1) : RemoveAt(q, 1)[i] = IF i < 1 THEN q[i] ELSE q[i + 1]
  BY <1>1, RemoveFacts
<1>4. Len(RemoveAt(q, 1)) \in Nat /\ DOMAIN RemoveAt(q, 1) = 1..Len(RemoveAt(q, 1))
  BY <1>2, LenProperties
<1>5. \A m, n \in Nat : 1..m = 1..n => m = n
  <2>1. ASSUME NEW m \in Nat, NEW n \in Nat, 1..m = 1..n PROVE m = n
    <3>1. (m \in 1..m <=> m > 0) /\ (n \in 1..n <=> n > 0)
      OBVIOUS
    <3>2. (m \in 1..n => m <= n) /\ (n \in 1..m => n <= m)
      OBVIOUS
    <3> QED
      BY <2>1, <3>1, <3>2
  <2> QED
    BY <2>1
<1>6. Len(RemoveAt(q, 1)) = Len(q) - 1
  <2>1. Len(q) - 1 \in Nat
    BY <1>1, LenProperties
  <2> QED
    BY <1>2, <1>4, <1>5, <2>1
<1>7. Tail(q) = RemoveAt(q, 1)
  BY <1>1, <1>2, <1>6, SeqEqual
<1> QED
  BY <1>1, <1>7
-----------------------------------------------------------------------------
(* Type correctness *)

\* The initial state has the types.
LEMMA TypeInit == Init => TypeInv
<1> SUFFICES ASSUME Init PROVE TypeInv
  OBVIOUS
<1> USE PipelineAssumption DEF Init, NoSegment, Ids
<1>0. DOMAIN pc = Coroutines /\ pc["loop"] = "new" /\ pc["stop"] = "new"
  BY DEF Coroutines
<1>1. Shape
  <2>1. frame \in [timestampMs : 0..now, bytes : {0, 1}]
    BY DEF NoFrame
  <2>2. /\ writer \in [Ids -> {"none", "open", "closed", "lost"}]
        /\ written \in [Ids -> 0..MaxWritten]
    OBVIOUS
  <2>3. now \in 0..MaxTime /\ opened \in 0..MaxSegments
    OBVIOUS
  <2>4. stopped \in BOOLEAN /\ segments \subseteq 1..opened
    OBVIOUS
  <2>5. current \in 1..opened \cup {None}
    OBVIOUS
  <2> QED
    BY <1>0, <2>1, <2>2, <2>3, <2>4, <2>5, Zenon DEF Shape, LoopPlaces, StopPlaces
<1>11. Flow
  BY <1>0 DEF Flow, Before
<1>12. Room
  BY <1>0 DEF Room
<1>2. Files
  BY DEF Files, ObjectsOK, Objects, NoSegment, Ids
<1>3. Queue
  BY DEF Queue, IndexOK, Pending
<1> QED
  BY <1>1, <1>11, <1>12, <1>2, <1>3 DEF TypeInv

\* The inductive invariant has the types of TypeOK.
LEMMA TypeInvTypes == TypeInv => TypeOK
<1> SUFFICES ASSUME TypeInv PROVE TypeOK
  OBVIOUS
<1> USE DEF TypeInv
<1>1. \A s \in Ids : seg[s].endMs # None => seg[s].startMs <= seg[s].endMs
  BY DEF Files, ObjectsOK, Describes, NoSegment
<1>2. \A i \in DOMAIN saves : saves[i].by \in Coroutines
  <2>1. \A i \in DOMAIN saves : saves[i] \in SaveType
    BY ElementOfSeq, LenProperties DEF Queue, Pending
  <2> QED
    BY <2>1 DEF SaveType
<1> QED
  BY <1>1, <1>2 DEF TypeOK, Shape, Files, ObjectsOK, LoopPlaces, StopPlaces

\* A segment file that `current` names, if it does, is a known one.
LEMMA CurrentFacts ==
  ASSUME Shape
  PROVE  /\ current # None => current \in Ids
         /\ None \notin Ids /\ \A s \in segments : s \in Ids
         /\ opened \in Nat /\ now \in Nat /\ written \in [Ids -> Nat]
BY PipelineAssumption DEF Shape, Ids

\* sealCurrentSegment(), up to its await.
LEMMA SealFacts ==
  ASSUME Shape, Files, NEW c, NEW closing, NEW away, Seal(c, closing, away)
  PROVE  /\ Goto(c, IF current = None THEN away ELSE closing)
         /\ ObjectsOK(seg', written, now)
         /\ \A s \in Ids : seg'[s] = IF s = current THEN Sealed(seg[s]) ELSE seg[s]
         /\ \A s \in Ids : s \in segments \/ s = current => Describes(seg'[s], written[s], now)
         /\ writer' \in [Ids -> {"none", "open", "closed", "lost"}]
         /\ \A s \in Ids : writer'[s] = IF s = current THEN "closed" ELSE writer[s]
<1>1. /\ current # None => current \in Ids
      /\ None \notin Ids /\ now \in Nat
  BY CurrentFacts
<1>2. CASE current = None
  BY <1>1, <1>2 DEF Seal, Files, Shape
<1>3. CASE current # None
  <2>1. /\ Goto(c, closing)
        /\ seg' = [seg EXCEPT ![current] = Sealed(seg[current])]
        /\ writer' = [writer EXCEPT ![current] = "closed"]
    BY <1>3 DEF Seal
  <2>2. /\ seg[current] \in Objects /\ Describes(seg[current], written[current], now)
        /\ seg \in [Ids -> Objects]
    BY <1>1, <1>3 DEF Files, ObjectsOK
  <2>3. /\ Sealed(seg[current]) \in Objects
        /\ Describes(Sealed(seg[current]), written[current], now)
        /\ ~Sealed(seg[current]).open
    <3> DEFINE o == seg[current]
    <3>1. now \in 0..MaxTime
      BY DEF Shape
    <3>2. /\ Sealed(o).startMs = o.startMs /\ Sealed(o).endMs = now
          /\ Sealed(o).sizeBytes = o.sizeBytes /\ Sealed(o).open = FALSE
      BY <2>2 DEF Sealed, Objects
    <3>3. Sealed(o) \in Objects
      BY <2>2, <3>1 DEF Sealed, Objects
    <3>4. o.startMs <= now
      BY <1>1, <2>2 DEF Describes
    <3> HIDE DEF o
    <3>5. Describes(Sealed(o), written[current], now)
      BY <1>1, <2>2, <3>2, <3>4 DEF Describes, o
    <3> QED
      BY <3>2, <3>3, <3>5 DEF o
  <2>4. /\ seg' \in [Ids -> Objects]
        /\ \A s \in Ids : seg'[s] = IF s = current THEN Sealed(seg[s]) ELSE seg[s]
    BY <1>1, <1>3, <2>1, <2>2, <2>3
  <2>5. /\ writer' \in [Ids -> {"none", "open", "closed", "lost"}]
        /\ \A s \in Ids : writer'[s] = IF s = current THEN "closed" ELSE writer[s]
    BY <1>1, <1>3, <2>1 DEF Shape
  <2>6. \A s \in Ids : s \in segments \/ s = current => Describes(seg'[s], written[s], now)
    BY <2>3, <2>4 DEF Files
  <2>7. ObjectsOK(seg', written, now)
    BY <2>3, <2>4 DEF Files, ObjectsOK
  <2> QED
    BY <1>3, <2>1, <2>4, <2>5, <2>6, <2>7
<1> QED
  BY <1>2, <1>3

\* The call of write(), when the frame fits in the bound.
LEMMA WriteFacts ==
  ASSUME Shape, Write, NEW t, frame' \in [timestampMs : t, bytes : {0, 1}],
         frame'.bytes = 0 \/ SumOver(written, Ids) < MaxWritten
  PROVE  /\ Goto("loop", IF current = None THEN "done" ELSE "write")
         /\ UNCHANGED <<seg, writer>>
         /\ written' \in [Ids -> 0..MaxWritten]
         /\ \A s \in Ids : written'[s] = IF s = current THEN written[s] + frame'.bytes
                                                        ELSE written[s]
<1>1. /\ current # None => current \in Ids
      /\ None \notin Ids /\ written \in [Ids -> Nat]
  BY CurrentFacts
<1>2. CASE current = None
  BY <1>1, <1>2 DEF Write, Finally, Seal, Shape
<1>3. CASE current # None
  <2>1. /\ Goto("loop", "write") /\ UNCHANGED <<seg, writer>>
        /\ written' = [written EXCEPT ![current] = written[current] + frame'.bytes]
    BY <1>3 DEF Write
  <2>2. written[current] + frame'.bytes \in 0..MaxWritten
    <3>1. CASE frame'.bytes = 0
      BY <1>1, <1>3, <3>1 DEF Shape
    <3>2. CASE SumOver(written, Ids) < MaxWritten
      <4>1. /\ IsFiniteSet(Ids) /\ \A s \in Ids : written[s] \in Nat
        <5>1. IsFiniteSet(1..MaxSegments)
          BY PipelineAssumption, FS_Interval
        <5> QED
          BY <1>1, <5>1 DEF Ids
      <4>2. /\ SumOver(written, Ids) = written[current] + SumOver(written, Ids \ {current})
            /\ SumOver(written, Ids) \in Nat
        BY <1>1, <1>3, <4>1, SumRemoves
      <4>3. SumOver(written, Ids \ {current}) \in Nat
        BY <4>1, SubsetSizes, SumRemoves
      <4>4. frame'.bytes \in {0, 1}
        OBVIOUS
      <4> QED
        BY <1>1, <1>3, <3>2, <4>2, <4>3, <4>4, PipelineAssumption
    <3> QED
      BY <3>1, <3>2
  <2> QED
    BY <1>1, <1>3, <2>1, <2>2 DEF Shape
<1> QED
  BY <1>2, <1>3

\* What pruneExpired() leaves was there before.
LEMMA KeepSubset ==
  ASSUME NEW known, NEW objects
  PROVE  Keep(known, objects) \subseteq known
BY DEF Keep

\* A snapshot has one entry for each segment that is known, and none else.
LEMMA EntriesFacts ==
  ASSUME NEW known, NEW objects
  PROVE  /\ \A e \in Entries(known, objects) :
              /\ e.id \in known /\ e.startMs = objects[e.id].startMs
              /\ e.endMs = objects[e.id].endMs /\ e.sizeBytes = objects[e.id].sizeBytes
         /\ \A s \in known : \E e \in Entries(known, objects) : e.id = s
<1> DEFINE entry(s) == [id |-> s, startMs |-> objects[s].startMs, endMs |-> objects[s].endMs,
                        sizeBytes |-> objects[s].sizeBytes]
<1>1. /\ \A s \in known : entry(s) \in Entries(known, objects)
      /\ \A e \in Entries(known, objects) : \E s \in known : e = entry(s)
  BY DEF Entries
<1>2. \A s : /\ entry(s).id = s /\ entry(s).startMs = objects[s].startMs
             /\ entry(s).endMs = objects[s].endMs
             /\ entry(s).sizeBytes = objects[s].sizeBytes
  OBVIOUS
<1> HIDE DEF entry
<1> QED
  BY <1>1, <1>2

\* A snapshot of segments that are described well is described well.
LEMMA EntriesOK ==
  ASSUME NEW n \in 0..MaxSegments, NEW files \in [Ids -> 0..MaxWritten],
         NEW time \in 0..MaxTime, NEW known \in SUBSET (1..n), NEW objects,
         \A s \in known : Describes(objects[s], files[s], time)
  PROVE  /\ Entries(known, objects) \in SUBSET EntryType
         /\ IndexOK(Entries(known, objects), n, files, time)
<1>1. ASSUME NEW e \in Entries(known, objects)
      PROVE  e \in EntryType /\ e.id <= n /\ Describes(e, files[e.id], time)
  <2>1. PICK s \in known :
          e = [id |-> s, startMs |-> objects[s].startMs, endMs |-> objects[s].endMs,
               sizeBytes |-> objects[s].sizeBytes]
    BY DEF Entries
  <2>2. s \in Ids /\ s <= n /\ files[s] \in 0..MaxWritten
    BY PipelineAssumption DEF Ids
  <2>3. /\ objects[s].startMs \in 0..MaxTime /\ objects[s].endMs \in 0..MaxTime \cup {None}
        /\ objects[s].sizeBytes \in 0..MaxWritten
    <3>1. /\ objects[s].startMs \in 0..time /\ objects[s].endMs \in 0..time \cup {None}
          /\ objects[s].sizeBytes \in 0..files[s]
      BY DEF Describes
    <3>2. 0..time \subseteq 0..MaxTime /\ 0..files[s] \subseteq 0..MaxWritten
      BY <2>2, PipelineAssumption
    <3> QED
      BY <3>1, <3>2
  <2>4. e \in EntryType /\ e.id = s
    BY <2>1, <2>2, <2>3 DEF EntryType
  <2>5. Describes(e, files[s], time)
    BY <2>1 DEF Describes
  <2> QED
    BY <2>2, <2>4, <2>5
<1> QED
  BY <1>1 DEF IndexOK

\* The parts of the invariant that a step leaves alone.
LEMMA QueueStays ==
  ASSUME Shape, Queue, UNCHANGED <<index, saves, opened>>, now' \in Nat, now <= now',
         written' \in [Ids -> Nat], \A s \in Ids : written[s] <= written'[s],
         \A c \in Coroutines : pc'[c] = pc[c] \/ ~Waits(c, pc[c])
  PROVE  Queue'
<1>1. opened \in Nat /\ now \in Nat /\ written \in [Ids -> Nat]
  BY CurrentFacts
<1>2. IndexOK(index, opened, written', now')
  BY <1>1, IndexStays DEF Queue
<1>3. Pending(saves, pc', opened, written', now')
  BY <1>1, PendingStays DEF Queue
<1> QED
  BY <1>2, <1>3 DEF Queue

\* A step that saves nothing and answers no save keeps the queue as it is.
LEMMA QueueSame ==
  ASSUME Shape, Queue, UNCHANGED <<index, saves, opened, now, written>>,
         \A c \in Coroutines : pc'[c] = pc[c] \/ ~Waits(c, pc[c])
  PROVE  Queue'
<1>1. opened \in Nat /\ now \in Nat /\ written \in [Ids -> Nat]
  BY CurrentFacts
<1>2. now' \in Nat /\ now <= now' /\ written' \in [Ids -> Nat]
  BY <1>1
<1>3. \A s \in Ids : written[s] <= written'[s]
  BY <1>1
<1> QED
  BY <1>2, <1>3, QueueStays

\* A step that touches no file keeps what is known of the files.
LEMMA FilesStay ==
  ASSUME Shape, Files, UNCHANGED <<seg, segments, current, written, now>>,
         pc'["loop"] = "write" => pc["loop"] = "write" /\ frame' = frame
  PROVE  Files'
BY DEF Files

\* One coroutine goes on.
LEMMA Goes ==
  ASSUME DOMAIN pc = Coroutines, NEW c \in Coroutines, NEW place, Goto(c, place)
  PROVE  /\ DOMAIN pc' = Coroutines /\ pc'[c] = place
         /\ \A d \in Coroutines \ {c} : pc'[d] = pc[d]
BY DEF Goto

\* start() keeps the types.
LEMMA StartTypes == TypeInv /\ Start => TypeInv'
<1> SUFFICES ASSUME TypeInv, Start PROVE TypeInv'
  OBVIOUS
<1> USE DEF TypeInv
<1>1. /\ pc["loop"] = "new" /\ UNCHANGED <<now, stopped, frame, seg, segments, current, saves>>
      /\ UNCHANGED <<written, writer, index, opened>>
  BY DEF Start, At, disk
<1>2. DOMAIN pc' = Coroutines /\ pc'["loop"] = "load" /\ pc'["stop"] = pc["stop"]
  BY Goes DEF Start, Shape, Coroutines
<1>3. Shape' /\ Flow' /\ Room'
  BY <1>1, <1>2 DEF Shape, Flow, Room, LoopPlaces, StopPlaces, Before
<1>4. Files'
  BY <1>1, <1>2, FilesStay
<1>5. Queue'
  BY <1>1, <1>2, QueueSame DEF Waits, Saving, Coroutines
<1> QED
  BY <1>3, <1>4, <1>5

\* The recovered index has the types, and describes what the files hold.
LEMMA LoadTypes == TypeInv /\ Load => TypeInv'
<1> SUFFICES ASSUME TypeInv, Load PROVE TypeInv'
  OBVIOUS
<1> USE DEF TypeInv
<1>1. /\ pc["loop"] = "load" /\ UNCHANGED <<now, stopped, frame, current, saves>>
      /\ UNCHANGED <<written, writer, index, opened>>
  BY DEF Load, At, disk
<1>2. /\ DOMAIN pc' = Coroutines /\ pc'["loop"] \in {"frames", "failed"}
      /\ pc'["stop"] = pc["stop"]
  BY Goes DEF Load, Shape, Coroutines
<1>3. current = None /\ None \notin Ids
  BY <1>1, CurrentFacts DEF Flow, Before
<1>4. Flow' /\ Room'
  BY <1>1, <1>2, <1>3 DEF Flow, Room, Before
<1>5. Queue'
  BY <1>1, <1>2, QueueSame DEF Waits, Saving, Coroutines
<1>6. Files' /\ segments' \subseteq 1..opened
  <2>1. CASE UNCHANGED <<seg, segments>>
    <3>1. Files'
      BY <1>1, <1>2, <2>1, FilesStay
    <3> QED
      BY <2>1, <3>1 DEF Shape
  <2>2. CASE ~UNCHANGED <<seg, segments>>
    <3> DEFINE ids == {e.id : e \in index}
               entry(s) == CHOOSE e \in index : e.id = s
               objects == [s \in Ids |-> IF s \in ids
                             THEN [startMs |-> entry(s).startMs, endMs |-> entry(s).endMs,
                                   sizeBytes |-> entry(s).sizeBytes, open |-> FALSE]
                             ELSE seg[s]]
    <3>1. seg' = objects /\ segments' = Keep(ids, objects)
      BY <2>2 DEF Load
    <3>2. \A s \in ids : entry(s) \in index /\ entry(s).id = s
      OBVIOUS
    <3>3. \A e \in index : e \in EntryType /\ e.id <= opened /\ Describes(e, written[e.id], now)
      BY DEF Queue, IndexOK
    <3> HIDE DEF entry
    <3>4. ids \subseteq 1..opened
      BY <3>3, CurrentFacts DEF EntryType, Ids
    <3>5. \A s \in ids : s \in Ids
      BY <3>3 DEF EntryType
    <3>6. ASSUME NEW s \in ids
          PROVE  /\ objects[s] \in Objects /\ ~objects[s].open
                 /\ Describes(objects[s], written[s], now)
      <4>1. /\ objects[s] = [startMs |-> entry(s).startMs, endMs |-> entry(s).endMs,
                             sizeBytes |-> entry(s).sizeBytes, open |-> FALSE]
            /\ entry(s) \in EntryType /\ Describes(entry(s), written[s], now)
        BY <3>2, <3>3, <3>5
      <4> HIDE DEF objects, ids
      <4>2. objects[s] \in Objects /\ ~objects[s].open
        BY <4>1 DEF EntryType, Objects
      <4>3. Describes(objects[s], written[s], now)
        BY <4>1 DEF Describes
      <4> QED
        BY <4>2, <4>3
    <3>7. \A s \in Ids \ ids : objects[s] = seg[s]
      OBVIOUS
    <3>8. objects \in [Ids -> Objects]
      <4>1. \A s \in Ids : objects[s] \in Objects
        BY <3>6, <3>7 DEF Files, ObjectsOK
      <4> QED
        BY <4>1
    <3> HIDE DEF objects, ids
    <3>9. ObjectsOK(objects, written, now)
      BY <3>6, <3>7, <3>8 DEF Files, ObjectsOK
    <3>10. segments' \subseteq ids
      BY <3>1, KeepSubset
    <3>11. Files'
      BY <1>1, <1>2, <1>3, <3>1, <3>5, <3>6, <3>9, <3>10 DEF Files
    <3> QED
      BY <3>4, <3>10, <3>11
  <2> QED
    BY <2>1, <2>2
<1>7. Shape'
  BY <1>1, <1>2, <1>6 DEF Shape, LoopPlaces
<1> QED
  BY <1>4, <1>5, <1>6, <1>7

\* sealCurrentSegment(), up to its await, when a step does nothing else.
LEMMA SealTypes ==
  ASSUME TypeInv, NEW c \in Coroutines, NEW closing, NEW away, Seal(c, closing, away),
         UNCHANGED <<now, segments, current, written, opened, stopped>>,
         frame' \in [timestampMs : 0..now, bytes : {0, 1}],
         \/ /\ c = "loop" /\ pc["loop"] \notin Before
            /\ \/ closing = "end close" /\ away = "done"
               \/ closing = "rotate close" /\ away = "open"
         \/ c = "stop" /\ pc["stop"] = "session" /\ frame' = frame /\ closing = "close" /\ away = "done"
  PROVE  Shape' /\ Flow' /\ Files'
<1> USE DEF TypeInv
<1>1. /\ Goto(c, IF current = None THEN away ELSE closing)
      /\ ObjectsOK(seg', written, now)
      /\ \A s \in Ids : seg'[s] = IF s = current THEN Sealed(seg[s]) ELSE seg[s]
      /\ \A s \in Ids : s \in segments \/ s = current => Describes(seg'[s], written[s], now)
      /\ writer' \in [Ids -> {"none", "open", "closed", "lost"}]
  BY SealFacts
<1>2. /\ DOMAIN pc' = Coroutines
      /\ pc'[c] = IF current = None THEN away ELSE closing
      /\ \A d \in Coroutines \ {c} : pc'[d] = pc[d]
  BY <1>1, Goes DEF Shape
<1>3. /\ c = "loop" => /\ pc'["loop"] \in {"end close", "done", "rotate close", "open"}
                       /\ pc'["loop"] \in {"done", "open"} => current = None
                       /\ pc'["stop"] = pc["stop"]
      /\ c = "stop" => /\ pc'["loop"] = pc["loop"]
                       /\ pc'["stop"] \in {"close", "done"}
                       /\ current = None => pc'["stop"] = "done"
  BY <1>2 DEF Coroutines
<1>4. Shape'
  BY <1>1, <1>2, <1>3 DEF Shape, LoopPlaces, StopPlaces, Coroutines
<1>5. Flow'
  BY <1>3 DEF Flow, Before, Coroutines
<1>6. ASSUME pc'["loop"] = "write", current # None
      PROVE  seg'[current].sizeBytes + frame'.bytes <= written[current]
  <2>1. frame' = frame /\ pc["loop"] = "write" /\ current \in Ids
    BY <1>3, <1>6, CurrentFacts DEF Coroutines
  <2>2. seg'[current].sizeBytes = seg[current].sizeBytes
    BY <1>1, <2>1 DEF Sealed, Files, ObjectsOK, Objects
  <2> QED
    BY <1>6, <2>1, <2>2 DEF Files
<1>7. Files'
  BY <1>1, <1>6 DEF Files
<1> QED
  BY <1>4, <1>5, <1>7

\* The call of write(), when a step does nothing else.
LEMMA WriteTypes ==
  ASSUME TypeInv, Write, UNCHANGED <<now, segments, current, opened, stopped>>,
         frame' \in [timestampMs : 0..now, bytes : {0, 1}],
         frame'.bytes = 0 \/ SumOver(written, Ids) < MaxWritten, pc["loop"] \notin Before
  PROVE  Shape' /\ Flow' /\ Files'
<1> USE DEF TypeInv
<1>1. /\ Goto("loop", IF current = None THEN "done" ELSE "write")
      /\ UNCHANGED <<seg, writer>>
      /\ written' \in [Ids -> 0..MaxWritten]
      /\ \A s \in Ids : written'[s] = IF s = current THEN written[s] + frame'.bytes
                                                     ELSE written[s]
  BY WriteFacts
<1>2. /\ DOMAIN pc' = Coroutines /\ pc'["stop"] = pc["stop"]
      /\ pc'["loop"] = IF current = None THEN "done" ELSE "write"
  BY <1>1, Goes DEF Shape, Coroutines
<1>3. Shape'
  BY <1>1, <1>2 DEF Shape, LoopPlaces
<1>4. Flow'
  BY <1>2 DEF Flow, Before
<1>5. /\ current # None => current \in Ids
      /\ now \in Nat /\ written \in [Ids -> Nat] /\ written' \in [Ids -> Nat]
      /\ \A s \in Ids : written[s] <= written'[s]
  <2>1. frame'.bytes \in {0, 1} /\ written \in [Ids -> Nat] /\ written' \in [Ids -> Nat]
    BY <1>1, CurrentFacts, PipelineAssumption
  <2> QED
    BY <1>1, <2>1, CurrentFacts
<1>6. /\ \A s \in Ids : Describes(seg[s], written[s], now) => Describes(seg[s], written'[s], now)
      /\ ObjectsOK(seg, written', now)
  <2>1. \A s \in Ids : Describes(seg[s], written[s], now) => Describes(seg[s], written'[s], now)
    BY <1>5, DescribesStays
  <2> QED
    BY <2>1 DEF Files, ObjectsOK
<1>7. ASSUME current # None PROVE seg[current].sizeBytes + frame'.bytes <= written'[current]
  <2>1. /\ seg[current].sizeBytes \in 0..written[current]
        /\ written'[current] = written[current] + frame'.bytes /\ frame'.bytes \in {0, 1}
        /\ written[current] \in Nat
    BY <1>1, <1>5, <1>7 DEF Files, Describes
  <2> QED
    BY <2>1
<1>8. Files'
  BY <1>1, <1>6, <1>7 DEF Files
<1> QED
  BY <1>3, <1>4, <1>8

\* What a frame that arrives leads to.
LEMMA FrameFacts ==
  ASSUME Frame
  PROVE  /\ pc["loop"] = "frames"
         /\ UNCHANGED <<now, stopped, segments, current, saves, index, opened>>
         /\ frame' \in [timestampMs : {now}, bytes : {0, 1}]
         /\ frame'.bytes = 0 \/ SumOver(written, Ids) < MaxWritten
         /\ \/ UNCHANGED written /\ Seal("loop", "end close", "done")
            \/ ~stopped /\ UNCHANGED written /\ Seal("loop", "rotate close", "open")
            \/ ~stopped /\ current # None /\ Write
<1>1. /\ pc["loop"] = "frames"
      /\ \E bytes \in {0, 1} :
           /\ bytes = 0 \/ SumOver(written, Ids) < MaxWritten
           /\ frame' = [timestampMs |-> now, bytes |-> bytes]
  BY DEF Frame, Arrives, At, SumOver
<1>2. UNCHANGED <<now, stopped, segments, current, saves, index, opened>>
  BY DEF Frame
<1>3. \/ UNCHANGED written /\ Seal("loop", "end close", "done")
      \/ ~stopped /\ UNCHANGED written /\ Seal("loop", "rotate close", "open")
      \/ ~stopped /\ current # None /\ Write
  <2>1. CASE Break
    BY <2>1 DEF Frame, Finally
  <2>2. CASE ~Break /\ current = None
    <3>1. Goto("loop", "open") /\ UNCHANGED <<seg, writer, written>>
      BY <2>2 DEF Frame
    <3> QED
      BY <2>2, <3>1 DEF Seal, Break
  <2>3. CASE ~Break /\ current # None
    BY <2>3 DEF Frame, Break
  <2> QED
    BY <2>1, <2>2, <2>3
<1>4. frame' \in [timestampMs : {now}, bytes : {0, 1}]
  BY <1>1
<1>5. frame'.bytes = 0 \/ SumOver(written, Ids) < MaxWritten
  BY <1>1
<1> QED
  BY <1>1, <1>2, <1>3, <1>4, <1>5

\* A frame, and what is decided on it, keeps the types.
LEMMA FrameTypes == TypeInv /\ Frame => TypeInv'
<1> SUFFICES ASSUME TypeInv, Frame PROVE TypeInv'
  OBVIOUS
<1> USE DEF TypeInv
<1>1. /\ pc["loop"] = "frames"
      /\ UNCHANGED <<now, stopped, segments, current, saves, index, opened>>
      /\ frame' \in [timestampMs : 0..now, bytes : {0, 1}]
      /\ frame'.bytes = 0 \/ SumOver(written, Ids) < MaxWritten
  <2>1. now \in 0..now
    BY CurrentFacts
  <2> QED
    BY <2>1, FrameFacts
<1>2. \/ UNCHANGED written /\ Seal("loop", "end close", "done")
      \/ UNCHANGED written /\ Seal("loop", "rotate close", "open")
      \/ Write
  BY FrameFacts
<1>3. Shape' /\ Flow' /\ Files'
  BY <1>1, <1>2, SealTypes, WriteTypes DEF Coroutines, Before
<1>4. /\ written' \in [Ids -> Nat] /\ (\A s \in Ids : written[s] <= written'[s])
      /\ pc'["stop"] = pc["stop"]
      /\ pc'["loop"] \in {"write", "done"} \/ written' = written
  <2>1. ASSUME UNCHANGED written, NEW closing, NEW away, Seal("loop", closing, away)
        PROVE  /\ written' \in [Ids -> Nat] /\ (\A s \in Ids : written[s] <= written'[s])
               /\ pc'["stop"] = pc["stop"]
    <3>1. written \in [Ids -> Nat] /\ \A s \in Ids : written[s] <= written[s]
      BY CurrentFacts
    <3>2. Goto("loop", IF current = None THEN away ELSE closing)
      BY <2>1, SealFacts
    <3> QED
      BY <2>1, <3>1, <3>2, Goes DEF Shape, Coroutines
  <2>2. CASE Write
    <3>1. /\ Goto("loop", IF current = None THEN "done" ELSE "write")
          /\ written' \in [Ids -> 0..MaxWritten]
          /\ \A s \in Ids : written'[s] = IF s = current THEN written[s] + frame'.bytes
                                                         ELSE written[s]
      BY <1>1, <2>2, WriteFacts
    <3>2. frame'.bytes \in {0, 1} /\ written \in [Ids -> Nat] /\ written' \in [Ids -> Nat]
      BY <1>1, <3>1, CurrentFacts, PipelineAssumption
    <3>3. \A s \in Ids : written[s] <= written'[s]
      BY <3>1, <3>2
    <3> QED
      BY <3>1, <3>2, <3>3, Goes DEF Shape, Coroutines
  <2> QED
    BY <1>2, <2>1, <2>2
<1>5. Queue'
  <2>1. now' \in Nat /\ now <= now'
    BY <1>1, CurrentFacts
  <2> QED
    BY <1>1, <1>4, <2>1, QueueStays DEF Waits, Saving, Coroutines
<1>6. Room'
  BY <1>1, <1>4 DEF Room
<1> QED
  BY <1>3, <1>5, <1>6

\* The end of the frames keeps the types.
LEMMA FramesEndTypes == TypeInv /\ FramesEnd => TypeInv'
<1> SUFFICES ASSUME TypeInv, FramesEnd PROVE TypeInv'
  OBVIOUS
<1> USE DEF TypeInv
<1>1. /\ pc["loop"] = "frames" /\ Seal("loop", "end close", "done")
      /\ UNCHANGED <<now, stopped, frame, segments, current, saves, written, index, opened>>
  BY DEF FramesEnd, At, Finally
<1>2. Shape' /\ Flow' /\ Files'
  <2>1. frame' \in [timestampMs : 0..now, bytes : {0, 1}]
    BY <1>1 DEF Shape
  <2> QED
    BY <1>1, <2>1, SealTypes DEF Coroutines, Before
<1>3. /\ pc'["loop"] \in {"end close", "done"} /\ pc'["stop"] = pc["stop"]
  <2>1. Goto("loop", IF current = None THEN "done" ELSE "end close")
    BY <1>1, SealFacts
  <2> QED
    BY <2>1, Goes DEF Shape, Coroutines
<1>4. Queue' /\ Room'
  BY <1>1, <1>3, QueueSame DEF Waits, Saving, Coroutines, Room
<1> QED
  BY <1>2, <1>4

\* A session that stopped keeps the types.
LEMMA SessionStoppedTypes == TypeInv /\ SessionStopped => TypeInv'
<1> SUFFICES ASSUME TypeInv, SessionStopped PROVE TypeInv'
  OBVIOUS
<1> USE DEF TypeInv
<1>1. /\ pc["stop"] = "session"
      /\ UNCHANGED <<now, stopped, frame, segments, current, saves, written, index, opened>>
      /\ \/ Seal("stop", "close", "done")
         \/ Goto("stop", "failed") /\ UNCHANGED <<seg, writer>>
  BY DEF SessionStopped, At
<1>2. CASE Seal("stop", "close", "done")
  <2>1. frame' \in [timestampMs : 0..now, bytes : {0, 1}]
    BY <1>1 DEF Shape
  <2>2. Shape' /\ Flow' /\ Files'
    BY <1>1, <1>2, <2>1, SealTypes DEF Coroutines
  <2>3. Goto("stop", IF current = None THEN "done" ELSE "close")
    BY <1>2, SealFacts
  <2>4. pc'["loop"] = pc["loop"]
    BY <2>3, Goes DEF Shape, Coroutines
  <2>5. Queue' /\ Room'
    BY <1>1, <2>4, QueueSame DEF Waits, Coroutines, Room
  <2> QED
    BY <2>2, <2>5
<1>3. CASE Goto("stop", "failed") /\ UNCHANGED <<seg, writer>>
  <2>1. DOMAIN pc' = Coroutines /\ pc'["stop"] = "failed" /\ pc'["loop"] = pc["loop"]
    BY <1>3, Goes DEF Shape, Coroutines
  <2>2. Shape' /\ Flow' /\ Room'
    BY <1>1, <1>3, <2>1 DEF Shape, Flow, Room, StopPlaces
  <2>3. Files'
    BY <1>1, <1>3, <2>1, FilesStay
  <2>4. Queue'
    BY <1>1, <2>1, QueueSame DEF Waits, Coroutines
  <2> QED
    BY <2>2, <2>3, <2>4
<1> QED
  BY <1>1, <1>2, <1>3

\* stop() keeps the types.
LEMMA StopTypes == TypeInv /\ Stop => TypeInv'
<1> SUFFICES ASSUME TypeInv, Stop PROVE TypeInv'
  OBVIOUS
<1> USE DEF TypeInv
<1>1. /\ pc["stop"] = "new" /\ stopped' = TRUE
      /\ UNCHANGED <<now, frame, seg, segments, current, saves, written, writer, index, opened>>
  BY DEF Stop, At, disk
<1>2. DOMAIN pc' = Coroutines /\ pc'["stop"] = "session" /\ pc'["loop"] = pc["loop"]
  BY Goes DEF Stop, Shape, Coroutines
<1>3. Shape' /\ Flow' /\ Room'
  BY <1>1, <1>2 DEF Shape, Flow, Room, StopPlaces
<1>4. Files'
  BY <1>1, <1>2, FilesStay
<1>5. Queue'
  BY <1>1, <1>2, QueueSame DEF Waits, Coroutines
<1> QED
  BY <1>3, <1>4, <1>5

\* A frame that is written keeps the types: the size of the segment and of its
\* file grow together.
LEMMA WrittenTypes == TypeInv /\ Written => TypeInv'
<1> SUFFICES ASSUME TypeInv, Written PROVE TypeInv'
  OBVIOUS
<1> USE DEF TypeInv
<1>1. /\ pc["loop"] = "write"
      /\ UNCHANGED <<now, stopped, frame, segments, current, saves, written, index, opened>>
  BY DEF Written, At
<1>2. CASE current = None
  <2>1. Seal("loop", "end close", "done")
    BY <1>2 DEF Written, Finally
  <2>2. frame' \in [timestampMs : 0..now, bytes : {0, 1}]
    BY <1>1 DEF Shape
  <2>3. Shape' /\ Flow' /\ Files'
    BY <1>1, <2>1, <2>2, SealTypes DEF Coroutines, Before
  <2>4. Goto("loop", IF current = None THEN "done" ELSE "end close")
    BY <2>1, SealFacts
  <2>5. pc'["loop"] \in {"done", "end close"} /\ pc'["stop"] = pc["stop"]
    BY <2>4, Goes DEF Shape, Coroutines
  <2>6. Queue' /\ Room'
    BY <1>1, <2>5, QueueSame DEF Waits, Saving, Coroutines, Room
  <2> QED
    BY <2>3, <2>6
<1>3. CASE current # None
  <2>1. /\ Goto("loop", "frames") /\ UNCHANGED writer
        /\ seg' = [seg EXCEPT ![current].sizeBytes = seg[current].sizeBytes + frame.bytes]
    BY <1>3 DEF Written
  <2>2. DOMAIN pc' = Coroutines /\ pc'["loop"] = "frames" /\ pc'["stop"] = pc["stop"]
    BY <2>1, Goes DEF Shape, Coroutines
  <2>3. /\ current \in Ids /\ seg \in [Ids -> Objects]
        /\ seg[current].sizeBytes + frame.bytes <= written[current]
        /\ Describes(seg[current], written[current], now)
        /\ written[current] \in 0..MaxWritten /\ frame.bytes \in {0, 1}
    BY <1>1, <1>3, CurrentFacts DEF Files, ObjectsOK, Shape
  <2> DEFINE size == seg[current].sizeBytes + frame.bytes
             new == [seg[current] EXCEPT !.sizeBytes = size]
  <2>4. size \in 0..written[current] /\ size \in 0..MaxWritten
    BY <2>3, PipelineAssumption DEF Describes
  <2> HIDE DEF size
  <2>5. /\ new.startMs = seg[current].startMs /\ new.endMs = seg[current].endMs
        /\ new.open = seg[current].open /\ new.sizeBytes = size /\ new \in Objects
    BY <2>3, <2>4 DEF Objects
  <2>6. seg' = [seg EXCEPT ![current] = new]
    BY <2>1 DEF size
  <2>7. /\ seg' \in [Ids -> Objects] /\ seg'[current] = new
        /\ \A s \in Ids \ {current} : seg'[s] = seg[s]
    BY <2>3, <2>5, <2>6
  <2> HIDE DEF new
  <2>8. Describes(new, written[current], now)
    BY <2>3, <2>4, <2>5 DEF Describes
  <2>9. ObjectsOK(seg', written, now)
    BY <2>3, <2>5, <2>7, <2>8 DEF Files, ObjectsOK
  <2>10. \A s \in Ids : s \in segments \/ s = current => Describes(seg'[s], written[s], now)
    BY <2>7, <2>8 DEF Files
  <2>11. Files'
    BY <1>1, <2>2, <2>9, <2>10 DEF Files
  <2>12. Shape' /\ Flow' /\ Room'
    BY <1>1, <2>1, <2>2 DEF Shape, Flow, Room, LoopPlaces, Before
  <2>13. Queue'
    BY <1>1, <2>2, QueueSame DEF Waits, Saving, Coroutines
  <2> QED
    BY <2>11, <2>12, <2>13
<1> QED
  BY <1>2, <1>3

\* Time that passes keeps the types.
LEMMA TickTypes == TypeInv /\ Tick => TypeInv'
<1> SUFFICES ASSUME TypeInv, Tick PROVE TypeInv'
  OBVIOUS
<1> USE DEF TypeInv
<1>1. /\ now' = now + 1 /\ now < MaxTime
      /\ UNCHANGED <<pc, stopped, frame, seg, segments, current, saves>>
      /\ UNCHANGED <<written, writer, index, opened>>
  BY DEF Tick, volatile, disk
<1>2. /\ now \in Nat /\ now' \in Nat /\ now <= now' /\ now' \in 0..MaxTime
      /\ written \in [Ids -> Nat]
  BY <1>1, CurrentFacts, PipelineAssumption DEF Shape
<1>3. frame' \in [timestampMs : 0..now', bytes : {0, 1}]
  <2>1. 0..now \subseteq 0..now'
    BY <1>2
  <2> QED
    BY <1>1, <2>1 DEF Shape
<1>4. Shape' /\ Flow' /\ Room'
  BY <1>1, <1>2, <1>3 DEF Shape, Flow, Room
<1>5. Files'
  <2>1. \A s \in Ids : Describes(seg[s], written[s], now) => Describes(seg[s], written[s], now')
    BY <1>2, DescribesStays
  <2> QED
    BY <1>1, <2>1 DEF Files, ObjectsOK
<1>6. Queue'
  <2>1. written' \in [Ids -> Nat] /\ \A s \in Ids : written[s] <= written'[s]
    BY <1>1, <1>2
  <2> QED
    BY <1>1, <1>2, <2>1, QueueStays
<1> QED
  BY <1>4, <1>5, <1>6

\* A crash keeps the types: the index and the files survive it.
LEMMA CrashTypes == TypeInv /\ Crash => TypeInv'
<1> SUFFICES ASSUME TypeInv, Crash PROVE TypeInv'
  OBVIOUS
<1> USE DEF TypeInv
<1>1. /\ pc' = [c \in Coroutines |-> "new"] /\ stopped' = FALSE /\ frame' = NoFrame
      /\ seg' = [s \in Ids |-> NoSegment] /\ segments' = {} /\ current' = None /\ saves' = <<>>
      /\ writer' = [s \in Ids |-> IF writer[s] = "open" THEN "lost" ELSE writer[s]]
      /\ UNCHANGED <<now, written, index, opened>>
  BY DEF Crash
<1>2. DOMAIN pc' = Coroutines /\ pc'["loop"] = "new" /\ pc'["stop"] = "new"
  BY <1>1 DEF Coroutines
<1>3. frame' \in [timestampMs : 0..now', bytes : {0, 1}]
  BY <1>1, CurrentFacts DEF NoFrame
<1>4. writer' \in [Ids -> {"none", "open", "closed", "lost"}]
  BY <1>1 DEF Shape
<1>5. Shape' /\ Flow' /\ Room'
  BY <1>1, <1>2, <1>3, <1>4 DEF Shape, Flow, Room, Before, LoopPlaces, StopPlaces
<1>6. Files'
  <2>1. NoSegment \in Objects /\ ~NoSegment.open
    BY PipelineAssumption DEF NoSegment, Objects
  <2> QED
    BY <1>1, <1>2, <2>1, CurrentFacts DEF Files, ObjectsOK
<1>7. Queue'
  BY <1>1 DEF Queue, Pending
<1> QED
  BY <1>5, <1>6, <1>7

\* A coroutine saves segments that are described well, and waits for it.
LEMMA SaveTypes ==
  ASSUME Shape, Queue, NEW c \in Coroutines, NEW place, NEW known, NEW objects, NEW n,
         Persist(c, known, objects), Goto(c, place), UNCHANGED <<index, now, written>>,
         ~Waits(c, pc[c]), Waits(c, place), n = opened', opened <= n, n \in 0..MaxSegments,
         known \subseteq 1..n, \A s \in known : Describes(objects[s], written[s], now)
  PROVE  Queue'
<1> DEFINE x == [by |-> c, entries |-> Entries(known, objects)]
<1>1. saves' = Append(saves, x)
  BY DEF Persist, Snapshot
<1>2. /\ opened \in Nat /\ n \in Nat /\ now \in Nat /\ written \in [Ids -> Nat]
      /\ \A s \in Ids : written[s] <= written[s]
  BY CurrentFacts, PipelineAssumption
<1>3. IndexOK(index, n, written, now) /\ Pending(saves, pc, n, written, now)
  BY <1>2, IndexStays, PendingStays DEF Queue
<1>4. /\ Entries(known, objects) \in SUBSET EntryType
      /\ IndexOK(Entries(known, objects), n, written, now)
  BY EntriesOK DEF Shape
<1>5. x \in SaveType /\ x.by = c /\ x.entries = Entries(known, objects)
  BY <1>4 DEF SaveType
<1>6. pc'[c] = place /\ \A d \in Coroutines \ {c} : pc'[d] = pc[d]
  BY Goes DEF Shape
<1> HIDE DEF x
<1>7. Pending(Append(saves, x), pc', n, written, now)
  BY <1>3, <1>4, <1>5, <1>6, PendingAppends
<1> QED
  BY <1>1, <1>3, <1>7 DEF Queue

\* A new segment is the one after all others, and keeps the types.
LEMMA OpenTypes == TypeInv /\ Open => TypeInv'
<1> SUFFICES ASSUME TypeInv, Open PROVE TypeInv'
  OBVIOUS
<1> USE DEF TypeInv
<1> DEFINE object == [startMs |-> frame.timestampMs, endMs |-> None, sizeBytes |-> 0, open |-> TRUE]
           n == opened + 1
<1>1. /\ pc["loop"] = "open" /\ opened < MaxSegments /\ opened' = n /\ current' = n
      /\ seg' = [seg EXCEPT ![n] = object] /\ writer' = [writer EXCEPT ![n] = "open"]
      /\ segments' = segments \cup {n}
      /\ Persist("loop", segments', seg') /\ Goto("loop", "open save")
      /\ UNCHANGED <<now, stopped, frame, written, index>>
  BY DEF Open, At
<1>2. /\ n \in Ids /\ n \in 0..MaxSegments /\ opened \in Nat /\ opened <= n /\ None \notin Ids
      /\ segments \subseteq 1..opened /\ now \in Nat /\ now \in 0..MaxTime
      /\ frame.timestampMs \in 0..now
  <2>1. opened \in Nat /\ None \notin Ids /\ now \in Nat /\ opened < MaxSegments
    BY <1>1, CurrentFacts
  <2>2. n \in Ids /\ n \in 0..MaxSegments /\ opened <= n
    BY <2>1, PipelineAssumption DEF Ids
  <2>3. segments \subseteq 1..opened /\ now \in 0..MaxTime /\ frame.timestampMs \in 0..now
    BY DEF Shape
  <2> QED
    BY <2>1, <2>2, <2>3
<1>3. DOMAIN pc' = Coroutines /\ pc'["loop"] = "open save" /\ pc'["stop"] = pc["stop"]
  BY <1>1, Goes DEF Shape, Coroutines
<1>4. object \in Objects /\ object.open /\ object.endMs = None
  BY <1>2, PipelineAssumption DEF Objects
<1>5. \A s \in Ids : Describes(object, written[s], now)
  BY <1>2, CurrentFacts DEF Describes
<1> HIDE DEF object
<1>6. /\ seg' \in [Ids -> Objects] /\ seg'[n] = object
      /\ \A s \in Ids \ {n} : seg'[s] = seg[s]
  BY <1>1, <1>2, <1>4 DEF Files, ObjectsOK
<1>7. segments' \subseteq 1..n /\ \A s \in segments' : s \in Ids
  <2>1. 1..opened \subseteq 1..n /\ n \in 1..n
    BY <1>2 DEF Ids
  <2>2. \A s \in segments : s \in Ids
    BY CurrentFacts
  <2> HIDE DEF n
  <2> QED
    BY <1>1, <1>2, <2>1, <2>2
<1>8. writer' \in [Ids -> {"none", "open", "closed", "lost"}]
  BY <1>1 DEF Shape
<1>9. Shape'
  BY <1>1, <1>2, <1>3, <1>7, <1>8 DEF Shape, LoopPlaces
<1>10. Flow' /\ Room'
  BY <1>1, <1>3 DEF Flow, Room, Before
<1>11. ObjectsOK(seg', written, now)
  BY <1>2, <1>4, <1>5, <1>6 DEF Files, ObjectsOK
<1>12. \A s \in Ids : s \in segments' \/ s = current' => Describes(seg'[s], written[s], now)
  BY <1>1, <1>2, <1>5, <1>6 DEF Files
<1>13. Files'
  BY <1>1, <1>3, <1>11, <1>12 DEF Files
<1>14. Queue'
  <2>1. ~Waits("loop", pc["loop"]) /\ Waits("loop", "open save")
    BY <1>1 DEF Waits, Saving
  <2>2. \A s \in segments' : Describes(seg'[s], written[s], now)
    BY <1>7, <1>12
  <2> HIDE DEF n
  <2> QED
    BY <1>1, <1>2, <1>7, <2>1, <2>2, SaveTypes DEF Coroutines
<1> QED
  BY <1>9, <1>10, <1>13, <1>14

\* The three places where a close() returns.
Closes(c, closing, saving) ==
  \/ c = "loop" /\ closing = "rotate close" /\ saving = "rotate save"
  \/ c = "loop" /\ closing = "end close" /\ saving = "end save"
  \/ c = "stop" /\ closing = "close" /\ saving = "save"

\* A segment that is closed and sealed, and the pruning after it, keep the
\* types.
LEMMA ClosedTypes ==
  ASSUME TypeInv, NEW c \in Coroutines, NEW closing, NEW saving, Closed(c, closing, saving),
         Closes(c, closing, saving)
  PROVE  TypeInv'
<1> USE DEF TypeInv
<1>1. /\ pc[c] = closing /\ Goto(c, saving) /\ current' = None
      /\ segments' = Keep(segments, seg) /\ Persist(c, segments', seg)
      /\ UNCHANGED <<now, stopped, frame, seg, written, writer, index, opened>>
  BY DEF Closed, At, disk
<1>2. DOMAIN pc' = Coroutines /\ pc'[c] = saving /\ \A d \in Coroutines \ {c} : pc'[d] = pc[d]
  BY <1>1, Goes DEF Shape
<1>3. \/ c = "loop" /\ pc'["stop"] = pc["stop"] /\ pc'["loop"] \in {"rotate save", "end save"}
      \/ c = "stop" /\ pc'["loop"] = pc["loop"] /\ pc'["stop"] = "save" /\ pc["stop"] = "close"
  BY <1>1, <1>2 DEF Coroutines, Closes
<1>4. segments' \subseteq segments
  BY <1>1, KeepSubset
<1>5. Shape'
  BY <1>1, <1>2, <1>3, <1>4 DEF Shape, LoopPlaces, StopPlaces
<1>6. Flow'
  BY <1>1, <1>3 DEF Flow, Before
<1>7. Files'
  BY <1>1, <1>4, CurrentFacts DEF Files
<1>8. pc'["loop"] = pc["loop"] \/ pc'["loop"] \in {"rotate save", "end save"}
  BY <1>3
<1>9. Room'
  <2>1. pc'["loop"] = "rotate save" => pc["loop"] \in {"rotate save", "rotate close"}
    BY <1>1, <1>2, <1>3 DEF Coroutines, Closes
  <2> QED
    BY <1>1, <1>8, <2>1 DEF Room
<1>10. Queue'
  <2>1. ~Waits(c, pc[c]) /\ Waits(c, saving)
    BY <1>1 DEF Waits, Saving, Closes
  <2>2. /\ segments' \subseteq 1..opened /\ opened \in 0..MaxSegments /\ opened <= opened
        /\ \A s \in segments' : Describes(seg[s], written[s], now)
    <3>1. segments' \subseteq 1..opened /\ opened \in 0..MaxSegments
      BY <1>4 DEF Shape
    <3>2. opened \in Nat /\ \A s \in segments : s \in Ids /\ Describes(seg[s], written[s], now)
      BY CurrentFacts DEF Files
    <3>3. opened <= opened
      BY <3>2
    <3>4. \A s \in segments' : Describes(seg[s], written[s], now)
      BY <1>4, <3>2
    <3> QED
      BY <3>1, <3>3, <3>4
  <2> QED
    BY <1>1, <2>1, <2>2, SaveTypes
<1> QED
  BY <1>5, <1>6, <1>7, <1>9, <1>10

\* A save is over, and its coroutine goes on.
LEMMA DropTypes ==
  ASSUME Shape, Queue, NEW k \in DOMAIN saves, saves' = RemoveAt(saves, k),
         IndexOK(index', opened, written, now),
         UNCHANGED <<opened, now>>, written' \in [Ids -> Nat],
         \A s \in Ids : written[s] <= written'[s],
         \A d \in Coroutines \ {saves[k].by} : pc'[d] = pc[d]
  PROVE  Queue'
<1>1. opened \in Nat /\ now \in Nat /\ written \in [Ids -> Nat]
  BY CurrentFacts
<1>2. Pending(saves', pc', opened, written, now)
  BY PendingDrops DEF Queue
<1>3. now <= now /\ opened <= opened
  BY <1>1
<1>4. Pending(saves', pc', opened, written', now)
  BY <1>1, <1>2, <1>3, PendingStays
<1>5. IndexOK(index', opened, written', now)
  BY <1>1, <1>3, IndexStays
<1> QED
  BY <1>4, <1>5 DEF Queue

\* The save that takes effect, and where its coroutine goes.
LEMMA SavedFacts ==
  ASSUME TypeInv, Saved
  PROVE  /\ 1 \in DOMAIN saves /\ saves' = RemoveAt(saves, 1) /\ index' = saves[1].entries
         /\ UNCHANGED <<now, stopped, frame, segments, current, opened>>
         /\ \/ saves[1].by = "stop" /\ Goto("stop", "done") /\ UNCHANGED <<seg, writer, written>>
            \/ saves[1].by = "loop" /\ pc["loop"] = "open save" /\ Write
            \/ /\ saves[1].by = "loop" /\ UNCHANGED <<seg, writer, written>>
               /\ \/ pc["loop"] = "rotate save" /\ Goto("loop", "open")
                  \/ pc["loop"] = "end save" /\ Goto("loop", "done")
<1>1. saves # <<>> /\ saves \in Seq(SaveType)
  BY DEF Saved, TypeInv, Queue, Pending
<1>2. 1 \in DOMAIN saves /\ Head(saves) = saves[1] /\ Tail(saves) = RemoveAt(saves, 1)
  BY <1>1, TailRemoves
<1>3. saves[1].by \in {"loop", "stop"} /\ (saves[1].by = "loop" => pc["loop"] \in Saving)
  <2>1. saves[1] \in SaveType
    BY <1>1, <1>2, ElementOfSeq, LenProperties
  <2> QED
    BY <1>2, <2>1 DEF SaveType, Coroutines, TypeInv, Queue, Pending, Waits
<1> QED
  BY <1>2, <1>3 DEF Saved, At, Saving

\* A saved index keeps the types.
LEMMA SavedTypes == TypeInv /\ Saved => TypeInv'
<1> SUFFICES ASSUME TypeInv, Saved PROVE TypeInv'
  OBVIOUS
<1>1. /\ 1 \in DOMAIN saves /\ saves' = RemoveAt(saves, 1) /\ index' = saves[1].entries
      /\ UNCHANGED <<now, stopped, frame, segments, current, opened>>
  BY SavedFacts
<1> USE DEF TypeInv
<1>2. IndexOK(index', opened, written, now)
  BY <1>1 DEF Queue, Pending
<1>3. frame' \in [timestampMs : 0..now, bytes : {0, 1}]
  BY <1>1 DEF Shape
<1>4. written \in [Ids -> Nat] /\ \A s \in Ids : written[s] <= written[s]
  BY CurrentFacts
<1>5. CASE saves[1].by = "stop" /\ Goto("stop", "done") /\ UNCHANGED <<seg, writer, written>>
  <2>1. DOMAIN pc' = Coroutines /\ pc'["stop"] = "done" /\ pc'["loop"] = pc["loop"]
    BY <1>5, Goes DEF Shape, Coroutines
  <2>2. Shape' /\ Flow' /\ Room'
    BY <1>1, <1>5, <2>1 DEF Shape, Flow, Room, StopPlaces
  <2>3. Files'
    BY <1>1, <1>5, <2>1, FilesStay
  <2>4. Queue'
    BY <1>1, <1>2, <1>4, <1>5, <2>1, DropTypes DEF Coroutines
  <2> QED
    BY <2>2, <2>3, <2>4
<1>6. CASE saves[1].by = "loop" /\ pc["loop"] = "open save" /\ Write
  <2>1. frame'.bytes = 0 \/ SumOver(written, Ids) < MaxWritten
    BY <1>1, <1>6 DEF Room
  <2>2. Shape' /\ Flow' /\ Files'
    BY <1>1, <1>3, <1>6, <2>1, WriteTypes DEF Before
  <2>3. /\ Goto("loop", IF current = None THEN "done" ELSE "write")
        /\ written' \in [Ids -> 0..MaxWritten]
        /\ \A s \in Ids : written'[s] = IF s = current THEN written[s] + frame'.bytes
                                                       ELSE written[s]
    BY <1>3, <1>6, <2>1, WriteFacts
  <2>4. frame'.bytes \in {0, 1} /\ written' \in [Ids -> Nat]
    BY <1>3, <2>3, PipelineAssumption
  <2>5. \A s \in Ids : written[s] <= written'[s]
    BY <1>4, <2>3, <2>4
  <2>6. pc'["loop"] \in {"done", "write"} /\ pc'["stop"] = pc["stop"]
    BY <2>3, Goes DEF Shape, Coroutines
  <2>7. Queue' /\ Room'
    BY <1>1, <1>2, <1>6, <2>4, <2>5, <2>6, DropTypes DEF Coroutines, Room
  <2> QED
    BY <2>2, <2>7
<1>7. CASE /\ saves[1].by = "loop" /\ UNCHANGED <<seg, writer, written>>
           /\ \/ pc["loop"] = "rotate save" /\ Goto("loop", "open")
              \/ pc["loop"] = "end save" /\ Goto("loop", "done")
  <2>1. /\ DOMAIN pc' = Coroutines /\ pc'["stop"] = pc["stop"]
        /\ \/ pc["loop"] = "rotate save" /\ pc'["loop"] = "open"
           \/ pc["loop"] = "end save" /\ pc'["loop"] = "done"
    BY <1>7, Goes DEF Shape, Coroutines
  <2>2. Shape' /\ Flow' /\ Room'
    BY <1>1, <1>7, <2>1 DEF Shape, Flow, Room, LoopPlaces, Before
  <2>3. Files'
    BY <1>1, <1>7, <2>1, FilesStay
  <2>4. Queue'
    BY <1>1, <1>2, <1>4, <1>7, <2>1, DropTypes DEF Coroutines
  <2> QED
    BY <2>2, <2>3, <2>4
<1> QED
  BY <1>5, <1>6, <1>7, SavedFacts

\* A call that fails here rejects start() or stop().
Ends(c) ==
  \/ c = "loop" /\ pc[c] \in {"end close", "end save"}
  \/ c = "stop" /\ pc[c] \in {"close", "save"}

\* The calls that can fail: where the coroutine goes.
LEMMA FailFacts ==
  ASSUME TypeInv, Fail
  PROVE  /\ UNCHANGED <<now, stopped, frame, segments, current, written, index, opened>>
         /\ \E c \in Coroutines :
              /\ \/ saves' = saves /\ \A i \in DOMAIN saves : saves[i].by # c
                 \/ \E k \in DOMAIN saves : saves[k].by = c /\ saves' = RemoveAt(saves, k)
              /\ \/ /\ c = "loop" /\ Seal("loop", "end close", "done")
                    /\ pc[c] \in {"open", "open save", "write", "rotate close", "rotate save"}
                 \/ /\ Goto(c, "failed") /\ UNCHANGED <<seg, writer>> /\ Ends(c)
<1>1. PICK c \in Coroutines :
        /\ \/ /\ c = "loop" /\ pc[c] \in {"open", "open save", "write", "rotate close", "rotate save"}
              /\ Finally
           \/ Ends(c) /\ Goto(c, "failed") /\ UNCHANGED <<seg, writer>>
        /\ saves' = Without(saves, c)
        /\ UNCHANGED <<now, stopped, frame, segments, current, written, index, opened>>
  BY DEF Fail, Ends, Without
<1>2. \/ saves' = saves /\ \A i \in DOMAIN saves : saves[i].by # c
      \/ \E k \in DOMAIN saves : saves[k].by = c /\ saves' = RemoveAt(saves, k)
  <2>1. saves \in Seq(SaveType)
    BY DEF TypeInv, Queue, Pending
  <2> QED
    BY <1>1, <2>1, FirstMatch
<1> QED
  BY <1>1, <1>2 DEF Finally

\* A failure anywhere keeps the types.
LEMMA FailTypes == TypeInv /\ Fail => TypeInv'
<1> SUFFICES ASSUME TypeInv, Fail PROVE TypeInv'
  OBVIOUS
<1>1. /\ UNCHANGED <<now, stopped, frame, segments, current, written, index, opened>>
  BY FailFacts
<1>2. PICK c \in Coroutines :
        /\ \/ saves' = saves /\ \A i \in DOMAIN saves : saves[i].by # c
           \/ \E k \in DOMAIN saves : saves[k].by = c /\ saves' = RemoveAt(saves, k)
        /\ \/ /\ c = "loop" /\ Seal("loop", "end close", "done")
              /\ pc[c] \in {"open", "open save", "write", "rotate close", "rotate save"}
           \/ /\ Goto(c, "failed") /\ UNCHANGED <<seg, writer>> /\ Ends(c)
  BY FailFacts
<1> USE DEF TypeInv
<1>3. frame' \in [timestampMs : 0..now, bytes : {0, 1}]
  BY <1>1 DEF Shape
<1>4. \A d \in Coroutines \ {c} : pc'[d] = pc[d]
  <2>1. \E place : Goto(c, place)
    BY <1>2, SealFacts
  <2> QED
    BY <2>1, Goes DEF Shape
<1>5. Queue'
  <2>1. CASE saves' = saves /\ \A i \in DOMAIN saves : saves[i].by # c
    <3>1. Pending(saves, pc', opened, written, now)
      <4>1. /\ saves \in Seq(SaveType)
            /\ \A i \in DOMAIN saves : saves[i].by \in Coroutines
        <5>1. saves \in Seq(SaveType) /\ \A i \in DOMAIN saves : saves[i] \in SaveType
          BY ElementOfSeq, LenProperties DEF Queue, Pending
        <5> QED
          BY <5>1 DEF SaveType
      <4> QED
        BY <1>4, <2>1, <4>1 DEF Queue, Pending
    <3> QED
      BY <1>1, <2>1, <3>1 DEF Queue
  <2>2. CASE \E k \in DOMAIN saves : saves[k].by = c /\ saves' = RemoveAt(saves, k)
    <3>1. /\ written \in [Ids -> Nat] /\ written' \in [Ids -> Nat]
          /\ \A s \in Ids : written[s] <= written'[s]
      BY <1>1, CurrentFacts
    <3>2. IndexOK(index', opened, written, now)
      BY <1>1 DEF Queue
    <3> QED
      BY <1>1, <1>4, <2>2, <3>1, <3>2, DropTypes
  <2> QED
    BY <1>2, <2>1, <2>2
<1>6. CASE c = "loop" /\ Seal("loop", "end close", "done") /\ pc["loop"] \notin Before
  <2>1. Shape' /\ Flow' /\ Files'
    BY <1>1, <1>3, <1>6, SealTypes
  <2>2. pc'["loop"] \in {"end close", "done"}
    <3>1. Goto("loop", IF current = None THEN "done" ELSE "end close")
      BY <1>6, SealFacts
    <3> QED
      BY <3>1, Goes DEF Shape, Coroutines
  <2>3. Room'
    BY <2>2 DEF Room
  <2> QED
    BY <1>5, <2>1, <2>3
<1>7. CASE Goto(c, "failed") /\ UNCHANGED <<seg, writer>> /\ Ends(c)
  <2>1. DOMAIN pc' = Coroutines /\ pc'[c] = "failed"
    BY <1>7, Goes DEF Shape
  <2>2. \/ /\ pc'["loop"] = "failed" /\ pc'["stop"] = pc["stop"]
           /\ pc["loop"] \in {"end close", "end save"}
        \/ /\ pc'["stop"] = "failed" /\ pc'["loop"] = pc["loop"]
    BY <1>4, <1>7, <2>1 DEF Coroutines, Ends
  <2>3. Shape' /\ Flow' /\ Room'
    BY <1>1, <1>7, <2>1, <2>2 DEF Shape, Flow, Room, LoopPlaces, StopPlaces, Before
  <2>4. Files'
    BY <1>1, <1>7, <2>2, FilesStay
  <2> QED
    BY <1>5, <2>3, <2>4
<1> QED
  BY <1>2, <1>6, <1>7 DEF Before

\* Every step keeps the types.
LEMMA TypeStep == TypeInv /\ [Next]_vars => TypeInv'
<1> SUFFICES ASSUME TypeInv, [Next]_vars PROVE TypeInv'
  OBVIOUS
<1>1. CASE CloseReturns
  BY <1>1, ClosedTypes DEF CloseReturns, Closes, Coroutines
<1>2. CASE UNCHANGED vars
  <2>1. /\ UNCHANGED <<now, pc, stopped, frame, seg, segments, current, saves>>
        /\ UNCHANGED <<written, writer, index, opened>>
    BY <1>2 DEF vars, volatile, disk
  <2>2. Shape' /\ Flow' /\ Room'
    BY <2>1 DEF TypeInv, Shape, Flow, Room
  <2>3. Files' /\ Queue'
    BY <2>1 DEF TypeInv, Files, Queue
  <2> QED
    BY <2>2, <2>3 DEF TypeInv
<1> QED
  BY <1>1, <1>2, StartTypes, LoadTypes, FrameTypes, FramesEndTypes, OpenTypes, WrittenTypes,
     StopTypes, SessionStoppedTypes, SavedTypes, FailTypes, TickTypes, CrashTypes DEF Next

\* Theorem: the state of the pipeline has its types; what the objects and the
\* index say of a segment file is never more than what was written to it.
THEOREM TypeInvariant == Spec => []TypeInv
<1> QED
  BY TypeInit, TypeStep, PTL DEF Spec

\* Theorem: the state of the pipeline keeps the types TypeOK names, for any bounds.
THEOREM TypeCorrect == Spec => []TypeOK
<1> QED
  BY TypeInvariant, TypeInvTypes, PTL
-----------------------------------------------------------------------------
(* Retention: pruneExpired() *)

\* What of the segments that are sealed.
SealedOf(known, objects) == {s \in known : ~objects[s].open}

\* The ids of segments are finitely many naturals.
LEMMA IdsFacts == IsFiniteSet(Ids) /\ \A s \in Ids : s \in Nat
BY PipelineAssumption, FS_Interval DEF Ids

\* The total as a sum over a function.
LEMMA TotalIsSum ==
  ASSUME NEW known, NEW objects
  PROVE  Total(known, objects) = SumOver([s \in known |-> objects[s].sizeBytes], known)
BY DEF Total, SumOver, MapThenSumSet, MapThenFoldSet

\* The total of fewer segments is no larger.
LEMMA TotalMonotone ==
  ASSUME NEW known \in SUBSET Ids, NEW less \in SUBSET known, NEW objects,
         \A s \in known : objects[s].sizeBytes \in Nat
  PROVE  Total(less, objects) \in Nat /\ Total(less, objects) <= Total(known, objects)
<1> DEFINE f == [s \in known |-> objects[s].sizeBytes]
           g == [s \in less |-> objects[s].sizeBytes]
<1>1. IsFiniteSet(known) /\ IsFiniteSet(less)
  BY IdsFacts, FS_Subset
<1>2. \A s \in known : f[s] \in Nat
  OBVIOUS
<1>3. \A s \in less : f[s] = g[s] /\ g[s] \in Nat
  OBVIOUS
<1>4. Total(known, objects) = SumOver(f, known) /\ Total(less, objects) = SumOver(g, less)
  BY TotalIsSum
<1> HIDE DEF f, g
<1>5. SumOver(f, less) <= SumOver(f, known)
  BY <1>1, <1>2, SumMonotone
<1>6. SumOver(f, less) = SumOver(g, less)
  BY <1>1, <1>3, SumSame
<1>7. SumOver(g, less) \in Nat
  BY <1>1, <1>3, SumRemoves
<1> QED
  BY <1>4, <1>5, <1>6, <1>7

\* Objects that agree have the same total.
LEMMA TotalSame ==
  ASSUME NEW known \in SUBSET Ids, NEW o, NEW p,
         \A s \in known : o[s].sizeBytes = p[s].sizeBytes
  PROVE  Total(known, o) = Total(known, p)
<1>1. [s \in known |-> o[s].sizeBytes] = [s \in known |-> p[s].sizeBytes]
  OBVIOUS
<1> QED
  BY <1>1, TotalIsSum

\* What pruneExpired() looks at: the segments that are fresh, and for each of
\* them those that are not sealed before it.
LEMMA KeepFacts ==
  ASSUME NEW known \in SUBSET Ids, NEW objects
  PROVE  \E fresh \in SUBSET known :
           /\ fresh = {s \in known : Fresh(s, objects)}
           /\ \A s \in known : s \in Keep(known, objects) <=>
                /\ s \in fresh
                /\ \/ objects[s].open
                   \/ Total(fresh \ {t \in fresh : ~objects[t].open /\ t < s}, objects) <= MaxBytes
BY DEF Keep

\* The sealed segments that are kept are within the policy: all of them are in
\* the total that the oldest of them was judged by.
LEMMA KeepBudget ==
  ASSUME NEW known \in SUBSET Ids, NEW objects, \A s \in known : objects[s].sizeBytes \in Nat
  PROVE  Total(SealedOf(Keep(known, objects), objects), objects) <= MaxBytes
<1> DEFINE kept == SealedOf(Keep(known, objects), objects)
           judged(s, fresh) == fresh \ {t \in fresh : ~objects[t].open /\ t < s}
<1>1. PICK fresh \in SUBSET known :
        \A s \in known : s \in Keep(known, objects) <=>
          s \in fresh /\ (objects[s].open \/ Total(judged(s, fresh), objects) <= MaxBytes)
  BY KeepFacts
<1>2. \A s \in kept : s \in fresh /\ ~objects[s].open /\ Total(judged(s, fresh), objects) <= MaxBytes
  BY <1>1, KeepSubset DEF SealedOf
<1>3. \A s \in kept : s \in Nat
  BY <1>2, IdsFacts
<1>4. CASE kept = {}
  <2>1. Total({}, objects) = 0
    BY TotalIsSum, SumUnfolds, FS_EmptySet
  <2> QED
    BY <1>4, <2>1, PipelineAssumption
<1>5. CASE kept # {}
  <2> HIDE DEF kept
  <2>1. PICK s \in kept : \A t \in kept : s <= t
    BY <1>3, <1>5, LeastNatural
  <2>2. kept \subseteq judged(s, fresh)
    <3>1. ASSUME NEW t \in kept PROVE t \in fresh /\ ~(t < s)
      <4>1. s \in Nat /\ t \in Nat
        BY <1>3
      <4>2. s <= t
        BY <2>1
      <4>3. ~(t < s)
        BY <4>1, <4>2
      <4>4. t \in fresh
        BY <1>2
      <4> QED
        BY <4>3, <4>4
    <3> QED
      BY <3>1
  <2>3. judged(s, fresh) \in SUBSET Ids /\ \A t \in judged(s, fresh) : objects[t].sizeBytes \in Nat
    OBVIOUS
  <2>4. Total(judged(s, fresh), objects) <= MaxBytes
    BY <1>2, <2>1
  <2> HIDE DEF judged
  <2>5. /\ Total(kept, objects) <= Total(judged(s, fresh), objects)
        /\ Total(kept, objects) \in Nat /\ Total(judged(s, fresh), objects) \in Nat
    BY <2>2, <2>3, TotalMonotone
  <2> QED
    BY <2>4, <2>5, PipelineAssumption DEF kept
<1> QED
  BY <1>4, <1>5

\* A sealed segment that is not too old is dropped only with all older sealed ones.
LEMMA KeepNewest ==
  ASSUME NEW known \in SUBSET Ids, NEW objects, \A s \in known : objects[s].sizeBytes \in Nat,
         NEW s \in known \ Keep(known, objects), ~objects[s].open, Fresh(s, objects),
         NEW t \in Keep(known, objects), t < s
  PROVE  objects[t].open
<1> DEFINE judged(u, fresh) == fresh \ {v \in fresh : ~objects[v].open /\ v < u}
<1>1. PICK fresh \in SUBSET known :
        /\ fresh = {u \in known : Fresh(u, objects)}
        /\ \A u \in known : u \in Keep(known, objects) <=>
             u \in fresh /\ (objects[u].open \/ Total(judged(u, fresh), objects) <= MaxBytes)
  BY KeepFacts
<1>2. t \in known /\ s \in Nat /\ t \in Nat
  BY KeepSubset, IdsFacts
<1>3. s \in fresh /\ ~(Total(judged(s, fresh), objects) <= MaxBytes)
  BY <1>1
<1>4. SUFFICES ASSUME ~objects[t].open PROVE FALSE
  OBVIOUS
<1>5. Total(judged(t, fresh), objects) <= MaxBytes
  BY <1>1, <1>2, <1>4
<1>6. judged(s, fresh) \subseteq judged(t, fresh) /\ judged(t, fresh) \in SUBSET known
  <2>1. ASSUME NEW v \in fresh, ~(~objects[v].open /\ v < s) PROVE ~(~objects[v].open /\ v < t)
    <3>1. v \in Nat
      BY IdsFacts
    <3> QED
      BY <1>2, <2>1, <3>1
  <2> QED
    BY <2>1
<1> HIDE DEF judged
<1>7. /\ Total(judged(s, fresh), objects) <= Total(judged(t, fresh), objects)
      /\ Total(judged(s, fresh), objects) \in Nat /\ Total(judged(t, fresh), objects) \in Nat
  <2>1. judged(t, fresh) \in SUBSET Ids /\ \A v \in judged(t, fresh) : objects[v].sizeBytes \in Nat
    BY <1>6
  <2> QED
    BY <1>6, <2>1, TotalMonotone
<1> QED
  BY <1>3, <1>5, <1>7, PipelineAssumption
-----------------------------------------------------------------------------
(* What a step does to the segments and their writers *)

ClosePlaces == {"rotate close", "end close"}

\* What a step may do to the segments: nothing, seal, write, open, load, crash
\* or prune.
LEMMA StepKinds ==
  ASSUME TypeInv, [Next]_vars
  PROVE  \/ /\ UNCHANGED <<seg, segments, current, writer>> /\ (stopped => stopped')
            /\ pc'["loop"] \in ClosePlaces => pc'["loop"] = pc["loop"]
         \/ \E c \in Coroutines : \E closing, away :
              Seal(c, closing, away) /\ UNCHANGED <<segments, current, stopped>>
         \/ Written /\ current # None
         \/ Open \/ Load \/ Crash
         \/ \E c \in Coroutines : \E closing, saving :
              Closes(c, closing, saving) /\ Closed(c, closing, saving)
<1>0. DOMAIN pc = Coroutines /\ "loop" \in Coroutines /\ "stop" \in Coroutines
  BY DEF TypeInv, Shape, Coroutines
<1>1. ASSUME NEW c \in Coroutines, NEW place, Goto(c, place), place \notin ClosePlaces
       PROVE  pc'["loop"] \in ClosePlaces => pc'["loop"] = pc["loop"]
  BY <1>0, <1>1, Goes
<1>2. CASE Start \/ Stop
  <2>1. Goto("loop", "load") \/ Goto("stop", "session")
    BY <1>2 DEF Start, Stop
  <2>2. pc'["loop"] \in ClosePlaces => pc'["loop"] = pc["loop"]
    BY <1>0, <1>1, <2>1 DEF ClosePlaces
  <2>3. UNCHANGED <<seg, segments, current, writer>> /\ (stopped => stopped')
    BY <1>2 DEF Start, Stop, disk
  <2> QED
    BY <2>2, <2>3
<1>3. CASE Frame
  <2>1. /\ UNCHANGED <<stopped, segments, current>>
        /\ \/ Seal("loop", "end close", "done") \/ Seal("loop", "rotate close", "open")
           \/ current # None /\ Write
    BY <1>3, FrameFacts
  <2>2. ASSUME current # None, Write
        PROVE  UNCHANGED <<seg, writer>> /\ pc'["loop"] \notin ClosePlaces
    <3>1. Goto("loop", "write") /\ UNCHANGED <<seg, writer>>
      BY <2>2 DEF Write
    <3>2. pc'["loop"] = "write"
      BY <1>0, <3>1, Goes
    <3> QED
      BY <3>1, <3>2 DEF ClosePlaces
  <2> QED
    BY <1>0, <2>1, <2>2
<1>4. CASE FramesEnd
  BY <1>0, <1>4 DEF FramesEnd, Finally
<1>5. CASE Written /\ current = None
  BY <1>0, <1>5 DEF Written, Finally
<1>6. CASE SessionStopped
  <2>1. CASE Seal("stop", "close", "done")
    BY <1>0, <1>6, <2>1 DEF SessionStopped
  <2>2. CASE Goto("stop", "failed") /\ UNCHANGED <<seg, writer>>
    <3>1. pc'["loop"] = pc["loop"]
      BY <1>0, <2>2, Goes
    <3> QED
      BY <1>6, <2>2, <3>1 DEF SessionStopped
  <2> QED
    BY <1>6, <2>1, <2>2 DEF SessionStopped
<1>7. CASE CloseReturns
  BY <1>0, <1>7 DEF CloseReturns, Closes
<1>8. CASE Saved
  <2>1. UNCHANGED <<segments, current, stopped>>
    BY <1>8, SavedFacts
  <2>2. CASE saves[1].by = "stop" /\ Goto("stop", "done") /\ UNCHANGED <<seg, writer, written>>
    BY <1>0, <1>1, <2>1, <2>2 DEF ClosePlaces
  <2>3. CASE Write
    <3>1. CASE current = None
      BY <1>0, <2>1, <2>3, <3>1 DEF Write, Finally
    <3>2. CASE current # None
      BY <1>0, <1>1, <2>1, <2>3, <3>2 DEF Write, ClosePlaces
    <3> QED
      BY <3>1, <3>2
  <2>4. CASE /\ saves[1].by = "loop" /\ UNCHANGED <<seg, writer, written>>
             /\ \/ pc["loop"] = "rotate save" /\ Goto("loop", "open")
                \/ pc["loop"] = "end save" /\ Goto("loop", "done")
    BY <1>0, <1>1, <2>1, <2>4 DEF ClosePlaces
  <2> QED
    BY <1>8, <2>2, <2>3, <2>4, SavedFacts
<1>9. CASE Fail
  <2>1. UNCHANGED <<segments, current, stopped>>
    BY <1>9, FailFacts
  <2>2. PICK c \in Coroutines :
          \/ c = "loop" /\ Seal("loop", "end close", "done")
          \/ Goto(c, "failed") /\ UNCHANGED <<seg, writer>>
    BY <1>9, FailFacts
  <2>3. CASE Seal("loop", "end close", "done")
    BY <1>0, <2>1, <2>3
  <2>4. CASE Goto(c, "failed") /\ UNCHANGED <<seg, writer>>
    BY <1>0, <1>1, <2>1, <2>4 DEF ClosePlaces
  <2> QED
    BY <2>2, <2>3, <2>4
<1>10. CASE Tick
  BY <1>10 DEF Tick, volatile, disk
<1>11. CASE UNCHANGED vars
  BY <1>11 DEF vars, volatile, disk
<1> QED
  BY <1>2, <1>3, <1>4, <1>5, <1>6, <1>7, <1>8, <1>9, <1>10, <1>11 DEF Next
-----------------------------------------------------------------------------
(* Sealed segments are within the policy *)

\* What is known are segments, and their sizes are naturals.
LEMMA KnownFacts ==
  ASSUME TypeInv
  PROVE  segments \in SUBSET Ids /\ \A s \in segments : seg[s].sizeBytes \in Nat
<1>1. segments \in SUBSET Ids /\ written \in [Ids -> Nat]
  BY CurrentFacts DEF TypeInv
<1> QED
  BY <1>1 DEF TypeInv, Files, Describes

\* A step that leaves the sealed segments and their sizes alone keeps the
\* budget.
LEMMA BudgetSame ==
  ASSUME TypeInv, SealedWithinBudget,
         current' = None \/ seg'[current'].open => current = None \/ seg[current].open,
         SealedOf(segments', seg') = SealedOf(segments, seg),
         \A s \in SealedOf(segments, seg) : seg'[s].sizeBytes = seg[s].sizeBytes
  PROVE  SealedWithinBudget'
<1>1. SealedOf(segments, seg) \in SUBSET Ids
  BY KnownFacts DEF SealedOf
<1>2. Total(SealedOf(segments, seg), seg') = Total(SealedOf(segments, seg), seg)
  BY <1>1, TotalSame
<1> QED
  BY <1>2 DEF SealedWithinBudget, SealedOf

\* Every step keeps the budget: a sealed segment counts once it is no longer
\* current, and pruning runs in the step that ends that.
LEMMA BudgetStep == TypeInv /\ TypeInv' /\ SealedWithinBudget /\ [Next]_vars => SealedWithinBudget'
<1> SUFFICES ASSUME TypeInv, TypeInv', SealedWithinBudget, [Next]_vars PROVE SealedWithinBudget'
  OBVIOUS
<1>1. CASE UNCHANGED <<seg, segments, current>>
  BY <1>1, BudgetSame DEF SealedOf
<1>2. ASSUME NEW c \in Coroutines, NEW closing, NEW away, Seal(c, closing, away),
             UNCHANGED <<segments, current>>
      PROVE  SealedWithinBudget'
  <2>1. CASE current = None
    BY <1>1, <1>2, <2>1 DEF Seal
  <2>2. CASE current # None
    <3>1. current \in Ids /\ seg \in [Ids -> Objects]
      BY <2>2, CurrentFacts DEF TypeInv, Files, ObjectsOK
    <3>2. seg'[current] = Sealed(seg[current])
      BY <1>2, <3>1, SealFacts DEF TypeInv
    <3>3. ~Sealed(seg[current]).open
      BY <3>1 DEF Sealed, Objects
    <3> QED
      BY <1>2, <2>2, <3>2, <3>3 DEF SealedWithinBudget
  <2> QED
    BY <2>1, <2>2
<1>3. CASE Written /\ current # None
  <2>1. /\ seg' = [seg EXCEPT ![current].sizeBytes = seg[current].sizeBytes + frame.bytes]
        /\ UNCHANGED <<segments, current>>
    BY <1>3 DEF Written
  <2>2. current \in Ids /\ segments \subseteq Ids /\ seg \in [Ids -> Objects]
    BY <1>3, CurrentFacts DEF TypeInv, Files, ObjectsOK
  <2>3. /\ \A s \in Ids : seg'[s].open = seg[s].open
        /\ \A s \in Ids : s # current => seg'[s].sizeBytes = seg[s].sizeBytes
    BY <2>1, <2>2 DEF Objects
  <2>4. CASE seg[current].open
    <3>1. SealedOf(segments', seg') = SealedOf(segments, seg)
      BY <2>1, <2>2, <2>3 DEF SealedOf
    <3>2. \A s \in SealedOf(segments, seg) : seg'[s].sizeBytes = seg[s].sizeBytes
      BY <2>2, <2>3, <2>4 DEF SealedOf
    <3> QED
      BY <2>4, <3>1, <3>2, BudgetSame
  <2>5. CASE ~seg[current].open
    BY <1>3, <2>1, <2>2, <2>3, <2>5 DEF SealedWithinBudget
  <2> QED
    BY <2>4, <2>5
<1>4. CASE Open
  <2> DEFINE n == opened + 1
  <2>1. /\ pc["loop"] = "open" /\ segments' = segments \cup {n} /\ opened < MaxSegments
        /\ seg' = [seg EXCEPT ![n] = [startMs |-> frame.timestampMs, endMs |-> None,
                                      sizeBytes |-> 0, open |-> TRUE]]
    BY <1>4 DEF Open, At
  <2>2. current = None
    BY <2>1 DEF TypeInv, Flow
  <2>3. n \in Ids /\ n \notin segments /\ segments \subseteq Ids /\ DOMAIN seg = Ids
    <3>1. opened \in Nat /\ segments \subseteq 1..opened /\ DOMAIN seg = Ids
      BY CurrentFacts DEF TypeInv, Shape, Files, ObjectsOK
    <3>2. n \notin 1..opened /\ n \in Ids
      BY <2>1, <3>1, PipelineAssumption DEF Ids
    <3> QED
      BY <3>1, <3>2, CurrentFacts DEF TypeInv
  <2>4. seg'[n].open /\ \A s \in segments : seg'[s] = seg[s]
    BY <2>1, <2>3
  <2> HIDE DEF n
  <2>5. SealedOf(segments', seg') = SealedOf(segments, seg)
    BY <2>1, <2>4 DEF SealedOf
  <2>6. \A s \in SealedOf(segments, seg) : seg'[s].sizeBytes = seg[s].sizeBytes
    BY <2>4 DEF SealedOf
  <2> QED
    BY <2>2, <2>5, <2>6, BudgetSame
<1>5. ASSUME NEW known \in SUBSET Ids, segments' = Keep(known, seg'),
             \A s \in known : seg'[s].sizeBytes \in Nat
      PROVE  SealedWithinBudget'
  <2>1. Total(SealedOf(Keep(known, seg'), seg'), seg') <= MaxBytes
    BY <1>5, KeepBudget
  <2> QED
    BY <1>5, <2>1 DEF SealedWithinBudget, SealedOf
<1>6. CASE Load
  <2>1. CASE UNCHANGED <<seg, segments, current>>
    BY <1>1, <2>1
  <2>2. CASE ~UNCHANGED <<seg, segments, current>>
    <3> DEFINE ids == {e.id : e \in index}
    <3>1. segments' = Keep(ids, seg')
      BY <1>6, <2>2 DEF Load
    <3>2. ids \in SUBSET Ids
      BY DEF TypeInv, Queue, IndexOK, EntryType
    <3>3. \A s \in ids : seg'[s].sizeBytes \in Nat
      BY <3>2, PipelineAssumption DEF TypeInv, Files, ObjectsOK, Objects
    <3> QED
      BY <1>5, <3>1, <3>2, <3>3
  <2> QED
    BY <2>1, <2>2
<1>7. ASSUME NEW c \in Coroutines, NEW closing, NEW saving, Closed(c, closing, saving)
      PROVE  SealedWithinBudget'
  <2>1. segments' = Keep(segments, seg') /\ seg' = seg
    BY <1>7 DEF Closed
  <2> QED
    BY <1>5, <2>1, KnownFacts
<1>8. CASE Crash
  <2>1. segments' = {}
    BY <1>8 DEF Crash
  <2>2. SealedOf({}, seg') = {} /\ Total({}, seg') = 0
    BY TotalIsSum, SumUnfolds, FS_EmptySet DEF SealedOf
  <2> QED
    BY <2>1, <2>2, PipelineAssumption DEF SealedWithinBudget
<1> QED
  BY <1>1, <1>2, <1>3, <1>4, <1>6, <1>7, <1>8, StepKinds

\* Theorem: unless the current segment is being sealed, the sealed segments are
\* within retention.maxTotalBytes, wherever start() and stop() are.
THEOREM BudgetCorrect == Spec => []SealedWithinBudget
<1>1. Init => SealedWithinBudget
  <2>1. Total({}, seg) = 0
    BY TotalIsSum, SumUnfolds, FS_EmptySet
  <2>2. Init => {s \in segments : ~seg[s].open} = {}
    BY DEF Init
  <2> QED
    BY <2>1, <2>2, PipelineAssumption DEF SealedWithinBudget
<1> QED
  BY <1>1, BudgetStep, TypeInvariant, PTL DEF Spec
-----------------------------------------------------------------------------
(* The oldest sealed segments go first *)

\* Theorem: a prune that drops a sealed segment for the size drops all older
\* sealed ones too; there is no other step but a crash that forgets a segment.
THEOREM OldestCorrect == Spec => OldestPrunedFirst
<1> DEFINE Oldest ==
      \A s \in segments \ segments' :
        crashes' = crashes /\ ~seg[s].open /\ Fresh(s, seg) => \A t \in segments' : t < s => seg'[t].open
<1>1. ASSUME TypeInv, [Next]_vars PROVE [Oldest]_vars
  <2>1. CASE segments \subseteq segments'
    BY <2>1
  <2>2. ASSUME NEW c \in Coroutines, NEW closing, NEW saving, Closed(c, closing, saving)
        PROVE  Oldest
    <3>1. segments' = Keep(segments, seg) /\ seg' = seg
      BY <2>2 DEF Closed
    <3>2. segments \in SUBSET Ids /\ \A s \in segments : seg[s].sizeBytes \in Nat
      BY <1>1, KnownFacts
    <3> QED
      BY <3>1, <3>2, KeepNewest
  <2>3. CASE Crash
    <3>1. segments' = {}
      BY <2>3 DEF Crash
    <3> QED
      BY <3>1
  <2>4. CASE Load
    <3>1. segments = {}
      BY <1>1, <2>4 DEF Load, At, TypeInv, Flow, Before
    <3> QED
      BY <3>1
  <2>5. CASE Open \/ Written
    BY <2>1, <2>5 DEF Open, Written
  <2> QED
    BY <1>1, <2>1, <2>2, <2>3, <2>4, <2>5, StepKinds
<1> QED
  BY <1>1, TypeInvariant, PTL DEF Spec, OldestPrunedFirst
-----------------------------------------------------------------------------
(* start() seals what it opened *)

\* As long as stop() is not called, nothing is open but the current segment, and
\* that is sealed by the time close() is awaited.
SealInv ==
  /\ stopped <=> pc["stop"] # "new"
  /\ ~stopped =>
       /\ \A s \in Ids : writer[s] = "open" \/ (s \in segments /\ seg[s].open) => s = current
       /\ pc["loop"] \in ClosePlaces /\ current # None
            => writer[current] # "open" /\ ~seg[current].open

\* stop() is under way exactly when it was called.
LEMMA StopFlag ==
  ASSUME TypeInv, stopped <=> pc["stop"] # "new", [Next]_vars
  PROVE  stopped' <=> pc'["stop"] # "new"
<1>1. DOMAIN pc = Coroutines /\ "loop" \in Coroutines /\ "stop" \in Coroutines
      /\ stopped \in BOOLEAN
  BY DEF TypeInv, Shape, Coroutines
<1>2. ASSUME NEW place, Goto("loop", place), UNCHANGED stopped
      PROVE  stopped' <=> pc'["stop"] # "new"
  <2>1. pc'["stop"] = pc["stop"]
    BY <1>1, <1>2, Goes
  <2> QED
    BY <1>2, <2>1
<1>3. ASSUME NEW place, Goto("stop", place), place # "new", pc["stop"] # "new", UNCHANGED stopped
      PROVE  stopped' <=> pc'["stop"] # "new"
  <2>1. pc'["stop"] = place
    BY <1>1, <1>3, Goes
  <2> QED
    BY <1>3, <2>1
<1>4. CASE Start \/ Load \/ Open
  <2>1. UNCHANGED stopped /\ \E place : Goto("loop", place)
    BY <1>4 DEF Start, Load, Open
  <2> QED
    BY <1>2, <2>1
<1>5. CASE Frame \/ FramesEnd \/ Written
  <2>1. UNCHANGED stopped
    BY <1>5 DEF Frame, FramesEnd, Written
  <2>2. \E place : Goto("loop", place)
    BY <1>5, FrameFacts DEF FramesEnd, Written, Finally, Seal, Write
  <2> QED
    BY <1>2, <2>1, <2>2
<1>6. CASE Stop
  <2>1. stopped' = TRUE /\ Goto("stop", "session")
    BY <1>6 DEF Stop
  <2>2. pc'["stop"] = "session"
    BY <1>1, <2>1, Goes
  <2> QED
    BY <2>1, <2>2
<1>7. CASE SessionStopped
  <2>1. pc["stop"] = "session" /\ UNCHANGED stopped
    BY <1>7 DEF SessionStopped, At
  <2>2. \E place : Goto("stop", place) /\ place # "new"
    BY <1>7 DEF SessionStopped, Seal
  <2> QED
    BY <1>3, <2>1, <2>2
<1>8. CASE CloseReturns
  <2>1. PICK c, closing, saving :
          c \in Coroutines /\ Closes(c, closing, saving) /\ Closed(c, closing, saving)
    BY <1>1, <1>8 DEF CloseReturns, Closes
  <2>2. Goto(c, saving) /\ pc[c] = closing /\ UNCHANGED stopped
    BY <2>1 DEF Closed, At
  <2> QED
    BY <1>2, <1>3, <2>1, <2>2 DEF Closes
<1>9. CASE Saved
  <2>1. UNCHANGED stopped /\ \/ Goto("stop", "done") /\ saves[1].by = "stop"
                             \/ \E place : Goto("loop", place)
    BY <1>9, SavedFacts DEF Write, Finally, Seal
  <2>2. saves[1].by = "stop" => pc["stop"] = "save"
    BY <1>9, SavedFacts DEF TypeInv, Queue, Pending, Waits
  <2> QED
    BY <1>2, <1>3, <2>1, <2>2
<1>10. CASE Fail
  <2>1. UNCHANGED stopped
    BY <1>10, FailFacts
  <2>2. PICK c \in Coroutines :
          \/ c = "loop" /\ Seal("loop", "end close", "done")
          \/ Goto(c, "failed") /\ Ends(c)
    BY <1>10, FailFacts
  <2>3. \/ \E place : Goto("loop", place)
        \/ Goto("stop", "failed") /\ pc["stop"] # "new"
    BY <2>2 DEF Seal, Ends
  <2> QED
    BY <1>2, <1>3, <2>1, <2>3
<1>11. CASE Tick \/ UNCHANGED vars
  BY <1>11 DEF Tick, vars, volatile
<1>12. CASE Crash
  <2>1. stopped' = FALSE /\ pc' = [c \in Coroutines |-> "new"]
    BY <1>12 DEF Crash
  <2> QED
    BY <1>1, <2>1
<1> QED
  BY <1>4, <1>5, <1>6, <1>7, <1>8, <1>9, <1>10, <1>11, <1>12 DEF Next

\* Every step keeps open segments the loop's own, until stop() is called.
LEMMA SealStep == TypeInv /\ TypeInv' /\ SealInv /\ [Next]_vars => SealInv'
<1> SUFFICES ASSUME TypeInv, TypeInv', SealInv, [Next]_vars,
                    ~stopped'
             PROVE  /\ \A s \in Ids : writer'[s] = "open" \/ (s \in segments' /\ seg'[s].open) => s = current'
                    /\ pc'["loop"] \in ClosePlaces /\ current' # None
                         => writer'[current'] # "open" /\ ~seg'[current'].open
  BY StopFlag DEF SealInv
<1> DEFINE Only == \A s \in Ids : writer'[s] = "open" \/ (s \in segments' /\ seg'[s].open) => s = current'
           Sealing == pc'["loop"] \in ClosePlaces /\ current' # None
                        => writer'[current'] # "open" /\ ~seg'[current'].open
<1>1. None \notin Ids /\ (current # None => current \in Ids) /\ seg \in [Ids -> Objects]
  BY CurrentFacts DEF TypeInv, Files, ObjectsOK
<1>2. CASE /\ UNCHANGED <<seg, segments, current, writer>> /\ (stopped => stopped')
           /\ pc'["loop"] \in ClosePlaces => pc'["loop"] = pc["loop"]
  BY <1>2 DEF SealInv
<1>3. ASSUME NEW c \in Coroutines, NEW closing, NEW away, Seal(c, closing, away),
             UNCHANGED <<segments, current, stopped>>
      PROVE  Only /\ Sealing
  <2>1. /\ \A s \in Ids : seg'[s] = IF s = current THEN Sealed(seg[s]) ELSE seg[s]
        /\ \A s \in Ids : writer'[s] = IF s = current THEN "closed" ELSE writer[s]
    BY <1>3, SealFacts DEF TypeInv
  <2>2. \A s \in Ids : ~Sealed(seg[s]).open
    BY <1>1 DEF Sealed, Objects
  <2> QED
    BY <1>1, <1>3, <2>1, <2>2 DEF SealInv
<1>4. CASE Written /\ current # None
  <2>1. /\ seg' = [seg EXCEPT ![current].sizeBytes = seg[current].sizeBytes + frame.bytes]
        /\ UNCHANGED <<segments, current, writer, stopped>> /\ Goto("loop", "frames")
    BY <1>4 DEF Written
  <2>2. \A s \in Ids : seg'[s].open = seg[s].open
    BY <1>1, <1>4, <2>1 DEF Objects
  <2>3. pc'["loop"] = "frames"
    BY <2>1, Goes DEF TypeInv, Shape, Coroutines
  <2> QED
    BY <2>1, <2>2, <2>3 DEF SealInv, ClosePlaces
<1>5. CASE Open
  <2> DEFINE n == opened + 1
  <2>1. /\ pc["loop"] = "open" /\ segments' = segments \cup {n} /\ current' = n
        /\ seg' = [seg EXCEPT ![n] = [startMs |-> frame.timestampMs, endMs |-> None,
                                      sizeBytes |-> 0, open |-> TRUE]]
        /\ writer' = [writer EXCEPT ![n] = "open"]
        /\ UNCHANGED stopped /\ Goto("loop", "open save")
    BY <1>5 DEF Open, At
  <2>2. current = None /\ pc'["loop"] = "open save"
    BY <2>1, Goes DEF TypeInv, Flow, Shape, Coroutines
  <2> HIDE DEF n
  <2>3. \A s \in Ids : s # n => seg'[s] = seg[s] /\ writer'[s] = writer[s]
    BY <1>1, <2>1 DEF TypeInv, Shape
  <2> QED
    BY <1>1, <2>1, <2>2, <2>3 DEF SealInv, ClosePlaces
<1>6. CASE Load
  <2>1. UNCHANGED <<writer, current, stopped>> /\ pc'["loop"] \in {"frames", "failed"}
    BY <1>6, Goes DEF Load, disk, TypeInv, Shape, Coroutines
  <2>2. current = None
    BY <1>6 DEF Load, At, TypeInv, Flow, Before
  <2>3. \A s \in segments' : s \in Ids => ~seg'[s].open
    <3>1. CASE UNCHANGED <<seg, segments>>
      BY <1>6, <3>1 DEF Load, At, TypeInv, Flow, Before
    <3>2. CASE ~UNCHANGED <<seg, segments>>
      <4> DEFINE ids == {e.id : e \in index}
                 entry(s) == CHOOSE e \in index : e.id = s
                 objects == [s \in Ids |-> IF s \in ids
                               THEN [startMs |-> entry(s).startMs, endMs |-> entry(s).endMs,
                                     sizeBytes |-> entry(s).sizeBytes, open |-> FALSE]
                               ELSE seg[s]]
      <4>1. seg' = objects /\ segments' = Keep(ids, objects)
        BY <1>6, <3>2 DEF Load
      <4>2. \A s \in Ids : s \in ids => ~objects[s].open
        OBVIOUS
      <4> HIDE DEF ids, objects
      <4> QED
        BY <4>1, <4>2, KeepSubset
    <3> QED
      BY <3>1, <3>2
  <2> QED
    BY <2>1, <2>2, <2>3 DEF SealInv, ClosePlaces
<1>7. CASE Crash
  <2>1. /\ writer' = [s \in Ids |-> IF writer[s] = "open" THEN "lost" ELSE writer[s]]
        /\ segments' = {} /\ current' = None
    BY <1>7 DEF Crash
  <2> QED
    BY <2>1
<1>8. ASSUME NEW c \in Coroutines, NEW closing, NEW saving,
             Closes(c, closing, saving), Closed(c, closing, saving)
      PROVE  Only /\ Sealing
  <2>1. /\ pc[c] = closing /\ current' = None /\ segments' = Keep(segments, seg)
        /\ UNCHANGED <<seg, writer, stopped>>
    BY <1>8 DEF Closed, At, disk
  <2>2. c = "loop" /\ pc["loop"] \in ClosePlaces
    BY <1>8, <2>1 DEF Closes, ClosePlaces, SealInv
  <2>3. segments' \subseteq segments
    BY <2>1, KeepSubset
  <2> QED
    BY <1>1, <2>1, <2>2, <2>3 DEF SealInv
<1> QED
  BY <1>2, <1>3, <1>4, <1>5, <1>6, <1>7, <1>8, StepKinds

\* Theorem: when start() returns and stop() was not called, every writer is
\* closed and every segment sealed, whatever failed on the way.
THEOREM EndCorrect == Spec => []EndSealsAll
<1>1. Init => SealInv
  BY DEF Init, SealInv, NoSegment
<1>2. TypeInv /\ SealInv => EndSealsAll
  <2> SUFFICES ASSUME TypeInv, SealInv, At("loop", "done"), ~stopped
               PROVE  (\A s \in Ids : writer[s] # "open") /\ \A s \in segments : ~seg[s].open
    BY DEF EndSealsAll
  <2>1. current = None /\ None \notin Ids /\ \A s \in segments : s \in Ids
    BY CurrentFacts DEF At, TypeInv, Flow
  <2> QED
    BY <2>1 DEF SealInv
<1> QED
  BY <1>1, <1>2, SealStep, TypeInvariant, PTL DEF Spec
-----------------------------------------------------------------------------
(* A crash loses no segment *)

Names(entries, s) == \E e \in entries : e.id = s

\* The index is not loaded yet, or could not be: nothing is known, and nothing
\* is going to be saved.
Unloaded ==
  pc["loop"] \in {"new", "load", "failed"} /\ current = None /\ pc["stop"] \notin {"close", "save"}

\* A segment with data is named wherever a recovery may find its entries: in the
\* index, and in each save under way, which becomes the index; and it is known,
\* so that later saves name it too.
DataNamed ==
  \A s \in Ids : written[s] > 0 /\ s \notin pruned =>
    /\ Names(index, s) /\ \A i \in DOMAIN saves : Names(saves[i].entries, s)
    /\ s \in segments \/ Unloaded

\* A segment is named before anything is written to it. While it is being opened
\* its save is the last one.
CurrentNamed ==
  /\ current # None => current \in segments
  /\ pc["loop"] \in {"frames", "write"} /\ current # None
       => DOMAIN saves = {} /\ Names(index, current)
  /\ pc["loop"] = "open save" /\ current # None
       => \E i \in DOMAIN saves : /\ saves[i].by = "loop" /\ Names(saves[i].entries, current)
                                  /\ \A j \in DOMAIN saves : j <= i

IndexInv == DataNamed /\ CurrentNamed

\* The last element is still the last one after another is removed.
LEMMA LastStays ==
  ASSUME NEW S, NEW q \in Seq(S), NEW i \in DOMAIN q, \A j \in DOMAIN q : j <= i,
         NEW k \in DOMAIN q, k # i
  PROVE  \E m \in DOMAIN RemoveAt(q, k) :
           RemoveAt(q, k)[m] = q[i] /\ \A j \in DOMAIN RemoveAt(q, k) : j <= m
<1>1. Len(q) \in Nat /\ DOMAIN q = 1..Len(q) /\ i \in 1..Len(q) /\ k \in 1..Len(q)
  BY LenProperties
<1>2. i = Len(q) /\ k < i
  <2>1. Len(q) \in DOMAIN q
    BY <1>1
  <2> QED
    BY <1>1, <2>1
<1>3. /\ DOMAIN RemoveAt(q, k) = 1..(Len(q) - 1)
      /\ \A j \in DOMAIN RemoveAt(q, k) : RemoveAt(q, k)[j] = IF j < k THEN q[j] ELSE q[j + 1]
  BY RemoveFacts
<1> DEFINE m == i - 1
<1>4. m \in 1..(Len(q) - 1) /\ ~(m < k) /\ m + 1 = i /\ \A j \in 1..(Len(q) - 1) : j <= m
  BY <1>1, <1>2
<1> HIDE DEF m
<1> QED
  BY <1>3, <1>4

\* The last element is the only one when it is removed from position 1.
LEMMA LastOnly ==
  ASSUME NEW S, NEW q \in Seq(S), 1 \in DOMAIN q, \A j \in DOMAIN q : j <= 1
  PROVE  DOMAIN RemoveAt(q, 1) = {}
<1>1. Len(q) \in Nat /\ DOMAIN q = 1..Len(q)
  BY LenProperties
<1>2. Len(q) = 1
  <2>1. Len(q) \in DOMAIN q /\ 1 \in 1..Len(q)
    BY <1>1
  <2> QED
    BY <1>1, <2>1
<1>3. DOMAIN RemoveAt(q, 1) = 1..(Len(q) - 1)
  BY RemoveFacts
<1> QED
  BY <1>2, <1>3

\* A step that leaves files, segments and saves alone.
LEMMA QuietNames ==
  ASSUME TypeInv, IndexInv, UNCHANGED <<segments, current, saves, written, index, pruned>>,
         Unloaded => Unloaded', pc'["loop"] # "open save" \/ pc["loop"] = "open save",
         pc'["loop"] \in {"frames", "write"} => pc["loop"] \in {"frames", "write"} \/ current = None
  PROVE  IndexInv'
<1>1. DataNamed'
  BY DEF IndexInv, DataNamed
<1>2. CurrentNamed'
  BY DEF IndexInv, CurrentNamed
<1> QED
  BY <1>1, <1>2 DEF IndexInv

\* The call of write(): the segment it goes to is named.
LEMMA WriteNames ==
  ASSUME TypeInv, Write, NEW t, frame' \in [timestampMs : t, bytes : {0, 1}],
         frame'.bytes = 0 \/ SumOver(written, Ids) < MaxWritten,
         UNCHANGED <<segments, current, pruned>>, ~Unloaded, IndexInv,
         \A i \in DOMAIN saves' : \E j \in DOMAIN saves : saves'[i] = saves[j],
         \A s \in Ids : written[s] > 0 /\ s \notin pruned => Names(index', s),
         current # None => DOMAIN saves' = {} /\ Names(index', current)
  PROVE  IndexInv'
<1>1. /\ Goto("loop", IF current = None THEN "done" ELSE "write")
      /\ \A s \in Ids : written'[s] = IF s = current THEN written[s] + frame'.bytes
                                                     ELSE written[s]
  BY WriteFacts DEF TypeInv
<1>2. pc'["loop"] = IF current = None THEN "done" ELSE "write"
  BY <1>1, Goes DEF TypeInv, Shape, Coroutines
<1>3. CurrentNamed'
  BY <1>2 DEF IndexInv, CurrentNamed
<1>4. ASSUME NEW s \in Ids, written'[s] > 0, s \notin pruned
      PROVE  /\ Names(index', s) /\ \A i \in DOMAIN saves' : Names(saves'[i].entries, s)
             /\ s \in segments
  <2>1. CASE s = current
    <3>1. current # None
      BY <2>1, CurrentFacts DEF TypeInv
    <3> QED
      BY <2>1, <3>1 DEF IndexInv, CurrentNamed
  <2>2. CASE s # current
    <3>1. written[s] > 0
      BY <1>1, <1>4, <2>2
    <3> QED
      BY <1>4, <3>1 DEF IndexInv, DataNamed
  <2> QED
    BY <2>1, <2>2
<1>5. DataNamed'
  BY <1>4 DEF DataNamed
<1> QED
  BY <1>3, <1>5 DEF IndexInv

\* Steps of the loop between two frames, or of stop(), that save nothing.
LEMMA QuietStep ==
  ASSUME TypeInv, IndexInv,
         Start \/ Stop \/ SessionStopped \/ Written \/ FramesEnd \/ Tick \/ UNCHANGED vars
  PROVE  IndexInv'
<1>1. DOMAIN pc = Coroutines /\ "loop" \in Coroutines /\ "stop" \in Coroutines
  BY DEF TypeInv, Shape, Coroutines
<1>2. UNCHANGED <<segments, current, saves, written, index, pruned>>
  BY DEF Start, Stop, SessionStopped, Written, FramesEnd, Tick, vars, volatile, disk
<1>3. CASE Start
  <2>1. pc["loop"] = "new" /\ pc'["loop"] = "load" /\ pc'["stop"] = pc["stop"]
    BY <1>1, <1>3, Goes DEF Start, At, Coroutines
  <2> QED
    BY <1>2, <2>1, QuietNames DEF Unloaded
<1>4. CASE Stop
  <2>1. pc'["stop"] = "session" /\ pc'["loop"] = pc["loop"]
    BY <1>1, <1>4, Goes DEF Stop, Coroutines
  <2> QED
    BY <1>2, <2>1, QuietNames DEF Unloaded
<1>5. CASE SessionStopped
  <2>1. \/ Goto("stop", IF current = None THEN "done" ELSE "close")
        \/ Goto("stop", "failed")
    BY <1>5, SealFacts DEF SessionStopped, TypeInv
  <2>2. /\ pc'["loop"] = pc["loop"]
        /\ current = None => pc'["stop"] \in {"done", "failed"}
    BY <1>1, <2>1, Goes DEF Coroutines
  <2> QED
    BY <1>2, <2>2, QuietNames DEF Unloaded
<1>6. CASE Written \/ FramesEnd
  <2>1. pc["loop"] \in {"write", "frames"}
    BY <1>6 DEF Written, FramesEnd, At
  <2>2. \/ Goto("loop", "frames") \/ Goto("loop", "done") \/ Goto("loop", "end close")
    BY <1>6 DEF Written, FramesEnd, Finally, Seal
  <2>3. pc'["loop"] \in {"frames", "done", "end close"}
    BY <1>1, <2>2, Goes
  <2> QED
    BY <1>2, <2>1, <2>3, QuietNames DEF Unloaded
<1>7. CASE Tick \/ UNCHANGED vars
  <2>1. UNCHANGED pc
    BY <1>7 DEF Tick, vars, volatile
  <2> QED
    BY <1>2, <2>1, QuietNames DEF Unloaded
<1> QED
  BY <1>3, <1>4, <1>5, <1>6, <1>7

\* A frame is only written to a segment the stored index names.
LEMMA FrameNames == TypeInv /\ IndexInv /\ Frame => IndexInv'
<1> SUFFICES ASSUME TypeInv, IndexInv, Frame PROVE IndexInv'
  OBVIOUS
<1>1. /\ pc["loop"] = "frames" /\ frame' \in [timestampMs : {now}, bytes : {0, 1}]
      /\ frame'.bytes = 0 \/ SumOver(written, Ids) < MaxWritten
      /\ UNCHANGED <<segments, current, saves, index, pruned>>
      /\ \/ UNCHANGED written /\ Seal("loop", "end close", "done")
         \/ UNCHANGED written /\ Seal("loop", "rotate close", "open")
         \/ Write
  BY FrameFacts DEF Frame
<1>2. ~Unloaded
  BY <1>1 DEF Unloaded
<1>3. ASSUME UNCHANGED written, NEW closing, NEW away, Seal("loop", closing, away),
             closing \in ClosePlaces, away \in {"done", "open"}
      PROVE  IndexInv'
  <2>1. Goto("loop", away) \/ Goto("loop", closing)
    BY <1>3 DEF Seal
  <2>2. pc'["loop"] \in {"done", "open"} \cup ClosePlaces
    BY <1>3, <2>1, Goes DEF TypeInv, Shape, Coroutines
  <2> QED
    BY <1>1, <1>2, <1>3, <2>2, QuietNames DEF ClosePlaces
<1>4. CASE Write
  <2>1. /\ \A s \in Ids : written[s] > 0 /\ s \notin pruned => Names(index', s)
        /\ current # None => DOMAIN saves' = {} /\ Names(index', current)
    BY <1>1 DEF IndexInv, DataNamed, CurrentNamed
  <2>2. \A i \in DOMAIN saves' : \E j \in DOMAIN saves : saves'[i] = saves[j]
    BY <1>1
  <2> QED
    BY <1>1, <1>2, <1>4, <2>1, <2>2, WriteNames
<1> QED
  BY <1>1, <1>3, <1>4 DEF ClosePlaces

\* What was named in the stored index is named by the recovered segments.
LEMMA LoadNames == TypeInv /\ IndexInv /\ Load => IndexInv'
<1> SUFFICES ASSUME TypeInv, IndexInv, Load PROVE IndexInv'
  OBVIOUS
<1>1. /\ pc["loop"] = "load" /\ UNCHANGED <<current, saves, written, index>>
      /\ pc'["loop"] \in {"frames", "failed"} /\ pc'["stop"] = pc["stop"]
  BY Goes DEF Load, At, disk, TypeInv, Shape, Coroutines
<1>2. current = None /\ pc["stop"] \notin {"close", "save"}
  BY <1>1 DEF TypeInv, Flow, Before
<1>3. CurrentNamed'
  BY <1>1, <1>2 DEF CurrentNamed
<1>4. DataNamed'
  <2>1. CASE pc'["loop"] = "failed" /\ UNCHANGED <<segments, pruned>>
    BY <1>1, <1>2, <2>1 DEF IndexInv, DataNamed, Unloaded
  <2>2. ASSUME NEW ids, ids = {e.id : e \in index}, NEW objects, segments' = Keep(ids, objects),
               pruned' = pruned \cup (ids \ segments')
        PROVE  DataNamed'
    <3>1. \A s \in Ids : Names(index, s) => s \in ids
      BY <2>2 DEF Names
    <3>2. \A s \in Ids : written[s] > 0 /\ s \notin pruned' => s \notin pruned /\ s \in ids /\ s \in segments'
      BY <2>2, <3>1 DEF IndexInv, DataNamed
    <3> QED
      BY <1>1, <3>2 DEF IndexInv, DataNamed
  <2>3. Goto("loop", "failed") => pc'["loop"] = "failed"
    BY Goes DEF TypeInv, Shape, Coroutines
  <2> QED
    BY <2>1, <2>2, <2>3 DEF Load
<1> QED
  BY <1>3, <1>4 DEF IndexInv

\* The save that a coroutine makes names all that is known.
LEMMA SaveNames ==
  ASSUME TypeInv, NEW c \in Coroutines, NEW known \in SUBSET Ids, NEW objects,
         Persist(c, known, objects), known \subseteq 1..MaxSegments,
         \A s \in known : Describes(objects[s], written[s], now)
  PROVE  /\ \A i \in DOMAIN saves' :
              \/ i \in DOMAIN saves /\ saves'[i] = saves[i]
              \/ \A s \in known : Names(saves'[i].entries, s)
         /\ \E i \in DOMAIN saves' : /\ saves'[i].by = c /\ \A j \in DOMAIN saves' : j <= i
                                     /\ \A s \in known : Names(saves'[i].entries, s)
<1> DEFINE x == [by |-> c, entries |-> Entries(known, objects)]
<1>1. saves' = Append(saves, x) /\ saves \in Seq(SaveType)
  BY DEF Persist, Snapshot, TypeInv, Queue, Pending
<1>2. Entries(known, objects) \in SUBSET EntryType
  <2>1. MaxSegments \in 0..MaxSegments
    BY PipelineAssumption
  <2> QED
    BY <2>1, EntriesOK DEF TypeInv, Shape
<1>3. x \in SaveType /\ x.by = c /\ x.entries = Entries(known, objects)
  BY <1>2 DEF SaveType
<1>4. \A s \in known : Names(x.entries, s)
  BY <1>3, EntriesFacts DEF Names
<1> HIDE DEF x
<1>5. /\ Len(saves) \in Nat /\ DOMAIN saves = 1..Len(saves)
      /\ DOMAIN Append(saves, x) = 1..(Len(saves) + 1)
      /\ \A i \in 1..Len(saves) : Append(saves, x)[i] = saves[i]
      /\ Append(saves, x)[Len(saves) + 1] = x
  BY <1>1, <1>3, AppendProperties, LenProperties
<1>6. \A i \in 1..(Len(saves) + 1) : i <= Len(saves) + 1 /\ (i \in 1..Len(saves) \/ i = Len(saves) + 1)
  BY <1>5
<1>7. Len(saves) + 1 \in 1..(Len(saves) + 1)
  BY <1>5
<1> QED
  BY <1>1, <1>3, <1>4, <1>5, <1>6, <1>7

\* A new segment is empty until the index that names it is saved.
LEMMA OpenNames == TypeInv /\ TypeInv' /\ IndexInv /\ Open => IndexInv'
<1> SUFFICES ASSUME TypeInv, TypeInv', IndexInv, Open PROVE IndexInv'
  OBVIOUS
<1>1. /\ pc["loop"] = "open" /\ Goto("loop", "open save")
      /\ segments' = segments \cup {current'} /\ Persist("loop", segments', seg')
      /\ UNCHANGED <<now, written, index, pruned>>
  BY DEF Open, At
<1>2. pc'["loop"] = "open save" /\ ~Unloaded
  BY <1>1, Goes DEF TypeInv, Shape, Coroutines, Unloaded
<1>3. /\ \A i \in DOMAIN saves' :
           \/ i \in DOMAIN saves /\ saves'[i] = saves[i]
           \/ \A s \in segments' : Names(saves'[i].entries, s)
      /\ \E i \in DOMAIN saves' : /\ saves'[i].by = "loop" /\ \A j \in DOMAIN saves' : j <= i
                                  /\ \A s \in segments' : Names(saves'[i].entries, s)
  <2>1. segments' \in SUBSET Ids /\ \A s \in segments' : Describes(seg'[s], written[s], now)
    <3>1. written' = written /\ now' = now
      BY <1>1
    <3>2. Shape' /\ Files'
      BY DEF TypeInv
    <3>3. segments' \subseteq 1..opened' /\ opened' \in 0..MaxSegments
      BY <3>2 DEF Shape
    <3>4. segments' \in SUBSET Ids
      BY <3>3, PipelineAssumption DEF Ids
    <3> QED
      BY <3>1, <3>2, <3>4 DEF Files
  <2> QED
    BY <1>1, <2>1, SaveNames DEF Ids, Coroutines
<1>4. CurrentNamed'
  BY <1>1, <1>2, <1>3 DEF CurrentNamed
<1>5. DataNamed'
  BY <1>1, <1>2, <1>3 DEF IndexInv, DataNamed
<1> QED
  BY <1>4, <1>5 DEF IndexInv

\* The save after a segment is closed names all segments but those just pruned.
LEMMA ClosedNames ==
  ASSUME TypeInv, IndexInv, NEW c \in Coroutines, NEW closing, NEW saving,
         Closed(c, closing, saving), Closes(c, closing, saving)
  PROVE  IndexInv'
<1>1. /\ pc[c] = closing /\ current' = None /\ segments' = Keep(segments, seg)
      /\ pruned' = pruned \cup (segments \ segments') /\ Persist(c, segments', seg)
      /\ UNCHANGED <<written, index>>
  BY DEF Closed, At, disk
<1>2. ~Unloaded
  BY <1>1 DEF Unloaded, Closes
<1>3. CurrentNamed'
  BY <1>1 DEF CurrentNamed
<1>4. segments' \subseteq segments
  BY <1>1, KeepSubset
<1>5. \A i \in DOMAIN saves' : \/ i \in DOMAIN saves /\ saves'[i] = saves[i]
                               \/ \A s \in segments' : Names(saves'[i].entries, s)
  <2>1. segments' \in SUBSET Ids /\ \A s \in segments' : Describes(seg[s], written[s], now)
    BY <1>4, KnownFacts DEF TypeInv, Files
  <2> QED
    BY <1>1, <2>1, SaveNames DEF Ids
<1>6. DataNamed'
  BY <1>1, <1>2, <1>5 DEF IndexInv, DataNamed
<1> QED
  BY <1>3, <1>6 DEF IndexInv

\* A save that is over leaves the others where they name what they named.
LEMMA RestNames ==
  ASSUME TypeInv, NEW k \in DOMAIN saves, saves' = RemoveAt(saves, k)
  PROVE  /\ \A i \in DOMAIN saves' : \E j \in DOMAIN saves : saves'[i] = saves[j]
         /\ \A i \in DOMAIN saves :
              i # k /\ (\A j \in DOMAIN saves : j <= i)
                => \E m \in DOMAIN saves' : saves'[m] = saves[i] /\ \A j \in DOMAIN saves' : j <= m
<1>1. saves \in Seq(SaveType)
  BY DEF TypeInv, Queue, Pending
<1>2. \A i \in DOMAIN RemoveAt(saves, k) : \E j \in DOMAIN saves : saves[j] = RemoveAt(saves, k)[i]
  BY <1>1, RemoveOnlyDrops
<1>3. \A i \in DOMAIN saves :
        i # k /\ (\A j \in DOMAIN saves : j <= i)
          => \E m \in DOMAIN RemoveAt(saves, k) :
               /\ RemoveAt(saves, k)[m] = saves[i]
               /\ \A j \in DOMAIN RemoveAt(saves, k) : j <= m
  BY <1>1, LastStays
<1> QED
  BY <1>2, <1>3

\* A saved index names what the queue of saves promised.
LEMMA SavedNames == TypeInv /\ IndexInv /\ Saved => IndexInv'
<1> SUFFICES ASSUME TypeInv, IndexInv, Saved PROVE IndexInv'
  OBVIOUS
<1>1. /\ 1 \in DOMAIN saves /\ saves' = RemoveAt(saves, 1) /\ index' = saves[1].entries
      /\ UNCHANGED <<now, frame, segments, current, pruned>>
  BY SavedFacts DEF Saved
<1>2. saves[1].by = "loop" => pc["loop"] \in Saving
  BY <1>1 DEF TypeInv, Queue, Pending, Waits
<1>3. saves[1].by = "stop" => pc["stop"] = "save"
  BY <1>1 DEF TypeInv, Queue, Pending, Waits
<1>4. saves[1].by \in {"loop", "stop"}
  BY SavedFacts
<1>5. ~Unloaded
  BY <1>2, <1>3, <1>4 DEF Unloaded, Saving
<1>6. \A i \in DOMAIN saves' : \E j \in DOMAIN saves : saves'[i] = saves[j]
  BY <1>1, RestNames
<1>7. \A s \in Ids : written[s] > 0 /\ s \notin pruned => Names(index', s)
  BY <1>1 DEF IndexInv, DataNamed
<1>8. CASE saves[1].by = "loop" /\ pc["loop"] = "open save" /\ Write
  <2>1. ASSUME current # None PROVE DOMAIN saves' = {} /\ Names(index', current)
    <3>1. PICK i \in DOMAIN saves : /\ saves[i].by = "loop" /\ Names(saves[i].entries, current)
                                    /\ \A j \in DOMAIN saves : j <= i
      BY <1>8, <2>1 DEF IndexInv, CurrentNamed
    <3>2. i = 1 /\ saves \in Seq(SaveType)
      BY <1>1, <1>8, <3>1 DEF TypeInv, Queue, Pending
    <3> QED
      BY <1>1, <3>1, <3>2, LastOnly
  <2>2. frame' \in [timestampMs : 0..now, bytes : {0, 1}]
    BY <1>1 DEF TypeInv, Shape
  <2>3. frame'.bytes = 0 \/ SumOver(written, Ids) < MaxWritten
    BY <1>1, <1>8 DEF TypeInv, Room
  <2> QED
    BY <1>1, <1>5, <1>6, <1>7, <1>8, <2>1, <2>2, <2>3, WriteNames
<1>9. ASSUME UNCHANGED written,
             \/ saves[1].by = "stop" /\ pc'["loop"] = pc["loop"]
             \/ pc'["loop"] \in {"open", "done"}
      PROVE  IndexInv'
  <2>1. DataNamed'
    BY <1>1, <1>5, <1>6, <1>7, <1>9 DEF IndexInv, DataNamed
  <2>2. ASSUME pc'["loop"] = "open save", current # None, saves[1].by = "stop",
               pc'["loop"] = pc["loop"]
        PROVE  \E m \in DOMAIN saves' :
                 /\ saves'[m].by = "loop" /\ Names(saves'[m].entries, current)
                 /\ \A j \in DOMAIN saves' : j <= m
    <3>1. PICK i \in DOMAIN saves : /\ saves[i].by = "loop" /\ Names(saves[i].entries, current)
                                    /\ \A j \in DOMAIN saves : j <= i
      BY <2>2 DEF IndexInv, CurrentNamed
    <3>2. i # 1
      BY <2>2, <3>1
    <3>3. \E m \in DOMAIN saves' : saves'[m] = saves[i] /\ \A j \in DOMAIN saves' : j <= m
      BY <1>1, <3>1, <3>2, RestNames
    <3> QED
      BY <3>1, <3>3
  <2>3. ASSUME pc'["loop"] \in {"frames", "write"}, current # None, pc'["loop"] = pc["loop"]
        PROVE  FALSE
    BY <1>1, <2>3 DEF IndexInv, CurrentNamed
  <2>4. CurrentNamed'
    BY <1>1, <1>9, <2>2, <2>3 DEF IndexInv, CurrentNamed
  <2> QED
    BY <2>1, <2>4 DEF IndexInv
<1>10. CASE saves[1].by = "stop" /\ Goto("stop", "done") /\ UNCHANGED <<seg, writer, written>>
  <2>1. pc'["loop"] = pc["loop"]
    BY <1>10, Goes DEF TypeInv, Shape, Coroutines
  <2> QED
    BY <1>9, <1>10, <2>1
<1>11. CASE /\ saves[1].by = "loop" /\ UNCHANGED <<seg, writer, written>>
            /\ \/ pc["loop"] = "rotate save" /\ Goto("loop", "open")
               \/ pc["loop"] = "end save" /\ Goto("loop", "done")
  <2>1. pc'["loop"] \in {"open", "done"}
    BY <1>11, Goes DEF TypeInv, Shape, Coroutines
  <2> QED
    BY <1>9, <1>11, <2>1
<1> QED
  BY <1>8, <1>10, <1>11, SavedFacts

\* A failure takes back nothing that was named.
LEMMA FailNames == TypeInv /\ IndexInv /\ Fail => IndexInv'
<1> SUFFICES ASSUME TypeInv, IndexInv, Fail PROVE IndexInv'
  OBVIOUS
<1>1. UNCHANGED <<segments, current, written, index, pruned>>
  BY FailFacts DEF Fail
<1>2. PICK c \in Coroutines :
        /\ \/ saves' = saves /\ \A i \in DOMAIN saves : saves[i].by # c
           \/ \E k \in DOMAIN saves : saves[k].by = c /\ saves' = RemoveAt(saves, k)
        /\ \/ /\ c = "loop" /\ Seal("loop", "end close", "done")
              /\ pc[c] \in {"open", "open save", "write", "rotate close", "rotate save"}
           \/ Goto(c, "failed") /\ UNCHANGED <<seg, writer>> /\ Ends(c)
  BY FailFacts
<1>3. ~Unloaded
  <2>1. CASE c = "loop" /\ pc[c] \in {"open", "open save", "write", "rotate close", "rotate save"}
    BY <2>1 DEF Unloaded
  <2>2. CASE Ends(c)
    BY <2>2 DEF Unloaded, Ends
  <2> QED
    BY <1>2, <2>1, <2>2
<1>4. \A i \in DOMAIN saves' : \E j \in DOMAIN saves : saves'[i] = saves[j]
  BY <1>2, RestNames
<1>5. DataNamed'
  BY <1>1, <1>3, <1>4 DEF IndexInv, DataNamed
<1>6. \/ pc'["loop"] \in {"end close", "done", "failed"}
      \/ c = "stop" /\ pc'["loop"] = pc["loop"]
  <2>1. \/ c = "loop" /\ (Goto("loop", "end close") \/ Goto("loop", "done") \/ Goto("loop", "failed"))
        \/ c = "stop" /\ Goto("stop", "failed")
    BY <1>2 DEF Seal, Coroutines
  <2> QED
    BY <2>1, Goes DEF TypeInv, Shape, Coroutines
<1>7. ASSUME c = "stop", pc'["loop"] = pc["loop"] PROVE CurrentNamed'
  <2>1. ASSUME pc["loop"] = "open save", current # None
        PROVE  \E m \in DOMAIN saves' :
                 /\ saves'[m].by = "loop" /\ Names(saves'[m].entries, current)
                 /\ \A j \in DOMAIN saves' : j <= m
    <3>1. PICK i \in DOMAIN saves : /\ saves[i].by = "loop" /\ Names(saves[i].entries, current)
                                    /\ \A j \in DOMAIN saves : j <= i
      BY <2>1 DEF IndexInv, CurrentNamed
    <3>2. CASE saves' = saves
      BY <3>1, <3>2
    <3>3. ASSUME NEW k \in DOMAIN saves, saves[k].by = c, saves' = RemoveAt(saves, k)
          PROVE  \E m \in DOMAIN saves' : saves'[m] = saves[i] /\ \A j \in DOMAIN saves' : j <= m
      BY <1>7, <3>1, <3>3, RestNames
    <3> QED
      BY <1>2, <3>1, <3>2, <3>3
  <2>2. ASSUME pc["loop"] \in {"frames", "write"}, current # None
        PROVE  DOMAIN saves' = {} /\ Names(index, current)
    BY <1>2, <2>2 DEF IndexInv, CurrentNamed
  <2> QED
    BY <1>1, <1>7, <2>1, <2>2 DEF IndexInv, CurrentNamed
<1>8. ASSUME pc'["loop"] \in {"end close", "done", "failed"} PROVE CurrentNamed'
  BY <1>1, <1>8 DEF IndexInv, CurrentNamed
<1> QED
  BY <1>5, <1>6, <1>7, <1>8 DEF IndexInv

\* A crash forgets the saves under way; the index names what has data.
LEMMA CrashNames == TypeInv /\ IndexInv /\ Crash => IndexInv'
<1> SUFFICES ASSUME TypeInv, IndexInv, Crash PROVE IndexInv'
  OBVIOUS
<1>1. /\ pc' = [c \in Coroutines |-> "new"] /\ current' = None /\ saves' = <<>>
      /\ UNCHANGED <<written, index, pruned>>
  BY DEF Crash
<1>2. pc'["loop"] = "new" /\ pc'["stop"] = "new"
  BY <1>1 DEF Coroutines
<1>3. DataNamed'
  BY <1>1, <1>2 DEF IndexInv, DataNamed, Unloaded
<1>4. CurrentNamed'
  BY <1>1 DEF CurrentNamed
<1> QED
  BY <1>3, <1>4 DEF IndexInv

\* Every step keeps data on disk named.
LEMMA IndexStep == TypeInv /\ TypeInv' /\ IndexInv /\ [Next]_vars => IndexInv'
<1>1. TypeInv /\ IndexInv /\ CloseReturns => IndexInv'
  BY ClosedNames DEF CloseReturns, Closes, Coroutines
<1> QED
  BY <1>1, QuietStep, FrameNames, LoadNames, OpenNames, SavedNames, FailNames, CrashNames DEF Next

\* Theorem: a crash at any moment loses no segment: every file with data in it
\* has its entry in the saved index, unless retention dropped it.
THEOREM IndexCorrect == Spec => []FramesIndexed
<1>1. Init => IndexInv
  BY DEF Init, IndexInv, DataNamed, CurrentNamed
<1>2. IndexInv => FramesIndexed
  BY DEF IndexInv, DataNamed, FramesIndexed, Names
<1> QED
  BY <1>1, <1>2, IndexStep, TypeInvariant, PTL DEF Spec
=============================================================================
