------------------------- MODULE RpcObjects_proofs -------------------------
(***************************************************************************)
(* Proofs about RpcObjects: its type invariant, that the exporter's two    *)
(* maps agree, that a reference in flight stays exported, that no current  *)
(* finalizer id is lost on its way, and that a lone RpcProxy stays         *)
(* exported.                                                               *)
(***************************************************************************)
EXTENDS RpcObjects, DataLemmas

\* An id that was generated before now.
Past(i) == i \in StableIds \/ i \in 1..(nextId - 1)

\* Every RpcProxy that was ever built carries a proxy id and a finalizer id.
BornHasIds ==
  \A r \in Proxies :
    rpcProxy[r].reach # "unborn" => rpcProxy[r].id \in Ids /\ rpcProxy[r].finalizerId \in Ids

\* A WeakRef is kept under the proxy id of the RpcProxy it refers to.
WeakRefs ==
  \A i \in Ids : remoteWeakProxies[i] # None =>
    LET r == remoteWeakProxies[i]
    IN rpcProxy[r].reach # "unborn" /\ rpcProxy[r].id = i

\* A clustered object is exported under its stable id, any other under an id
\* generated before now.
EntryIds ==
  \A o \in Objs : Exported(o) =>
    IF o \in Clustered THEN localProxied[o].id = StableId[o]
    ELSE localProxied[o].id \in 1..(nextId - 1)

\* No finalizer id and no proxy id anywhere is one that is still to be generated.
AllPast ==
  /\ \A i \in DOMAIN toRemote : Past(toRemote[i].id) /\ Past(toRemote[i].finalizerId)
  /\ \A i \in DOMAIN toLocal :
       toLocal[i].type = "finalize" => Past(toLocal[i].id) /\ Past(toLocal[i].finalizerId)
  /\ \A r \in Proxies :
       rpcProxy[r].reach # "unborn" => Past(rpcProxy[r].id) /\ Past(rpcProxy[r].finalizerId)

\* The finalizer id a finalize message for proxy id i must carry to match.
Current(i) == localProxied[localProxyMap[i]].finalizerId

\* Nobody can send a matching finalize while a reference with that proxy id is
\* on its way: the matching finalizer id is in the last such reference only.
OnlyLastReleases ==
  ~localKilled =>
    \A i \in DOMAIN toRemote : toRemote[i].id \notin StableIds =>
      /\ \A j \in DOMAIN toRemote :
           j < i /\ toRemote[j].id = toRemote[i].id
             => toRemote[j].finalizerId # Current(toRemote[i].id)
      /\ \A j \in DOMAIN toLocal :
           toLocal[j].type = "finalize" /\ toLocal[j].id = toRemote[i].id
             => toLocal[j].finalizerId # Current(toRemote[i].id)
      /\ \A r \in Proxies :
           rpcProxy[r].reach # "unborn" /\ rpcProxy[r].id = toRemote[i].id
             => rpcProxy[r].finalizerId # Current(toRemote[i].id)
-----------------------------------------------------------------------------
(* Types *)

\* The value that stands for `undefined` is no proxy id.
LEMMA NoneIsNoId == None \notin Ids
BY ObjectsAssumption DEF Ids

\* The two ways of serialize: an object that is exported keeps its proxy id and
\* its place in the map and gets a new finalizer id, any other gets one new id
\* (or its stable one) as both. Whether it is sent only decides about toRemote.
SerializedAs(o, sent, id, fid) ==
  /\ nextId \in 1..MaxIds /\ nextId' = nextId + 1
  /\ \/ /\ Exported(o) /\ id = localProxied[o].id /\ fid = nextId
        /\ localProxyMap' = localProxyMap
     \/ /\ ~Exported(o) /\ id = fid
        /\ IF o \in Clustered THEN id = StableId[o] ELSE id = nextId
        /\ localProxyMap' = [localProxyMap EXCEPT ![id] = o]
  /\ localProxied' = [localProxied EXCEPT ![o] = [id |-> id, finalizerId |-> fid]]
  /\ \/ /\ sent /\ lost' = lost \ {o}
        /\ toRemote' = Append(toRemote, [type |-> "ref", id |-> id, finalizerId |-> fid])
     \/ /\ ~sent /\ lost' = lost \cup {o}
        /\ toRemote' = toRemote

LEMMA SerializeFacts ==
  ASSUME TypeOK, NEW o \in Objs, NEW sent \in BOOLEAN, Serialize(o, sent)
  PROVE  \E id \in Ids, fid \in Ids : SerializedAs(o, sent, id, fid)
<1> DEFINE fresh == IF o \in Clustered THEN StableId[o] ELSE nextId
           id == IF Exported(o) THEN localProxied[o].id ELSE fresh
           fid == IF Exported(o) THEN nextId ELSE fresh
<1>1. nextId \in 1..MaxIds /\ nextId' = nextId + 1
  BY ObjectsAssumption DEF TypeOK, Serialize
<1>2. id \in Ids /\ fid \in Ids
  BY <1>1, ObjectsAssumption DEF TypeOK, Exported, Entries, NoEntry, Ids
<1>3. /\ localProxied' = [localProxied EXCEPT ![o] = [id |-> id, finalizerId |-> fid]]
      /\ localProxyMap' = IF Exported(o) THEN localProxyMap
                          ELSE [localProxyMap EXCEPT ![id] = o]
      /\ sent => toRemote' = Append(toRemote, [type |-> "ref", id |-> id, finalizerId |-> fid])
      /\ ~sent => toRemote' = toRemote
      /\ lost' = IF sent THEN lost \ {o} ELSE lost \cup {o}
  BY DEF Serialize
<1>4. \/ Exported(o) /\ id = localProxied[o].id /\ fid = nextId
      \/ ~Exported(o) /\ id = fid /\ IF o \in Clustered THEN id = StableId[o] ELSE id = nextId
  OBVIOUS
<1> HIDE DEF id, fid
<1>5. SerializedAs(o, sent, id, fid)
  <2>1. CASE sent
    BY <1>1, <1>3, <1>4, <2>1 DEF SerializedAs
  <2>2. CASE ~sent
    BY <1>1, <1>3, <1>4, <2>2 DEF SerializedAs
  <2> QED
    BY <2>1, <2>2
<1> QED
  BY <1>2, <1>5

\* What serialize leaves behind has the types of its variables.
LEMMA SerializeType ==
  ASSUME TypeOK, NEW o \in Objs, NEW sent \in BOOLEAN, Serialize(o, sent)
  PROVE  /\ nextId' \in 1..(MaxIds + 1)
         /\ localProxied' \in [Objs -> Entries \cup {NoEntry}]
         /\ localProxyMap' \in [Ids -> Objs \cup {None}]
         /\ toRemote' \in Seq(References)
         /\ lost' \subseteq Objs
<1>1. PICK id \in Ids, fid \in Ids : SerializedAs(o, sent, id, fid)
  BY SerializeFacts
<1>2. [type |-> "ref", id |-> id, finalizerId |-> fid] \in References
  BY DEF References
<1>3. toRemote' \in Seq(References)
  <2>1. \/ toRemote' = Append(toRemote, [type |-> "ref", id |-> id, finalizerId |-> fid])
        \/ toRemote' = toRemote
    BY <1>1 DEF SerializedAs
  <2> QED
    BY <1>2, <2>1, AppendFacts DEF TypeOK
<1>4. [id |-> id, finalizerId |-> fid] \in Entries
  BY DEF Entries
<1>5. localProxyMap' \in [Ids -> Objs \cup {None}]
  BY <1>1 DEF TypeOK, SerializedAs
<1>6. nextId' \in 1..(MaxIds + 1) /\ lost' \subseteq Objs
  BY <1>1, ObjectsAssumption DEF TypeOK, SerializedAs
<1> QED
  BY <1>1, <1>3, <1>4, <1>5, <1>6 DEF TypeOK, SerializedAs

TypeInv == TypeOK /\ BornHasIds /\ WeakRefs

\* A received reference is either ignored (the peer was killed) or leaves an
\* RpcProxy that carries its two ids, found by its WeakRef.
LEMMA ImportFacts ==
  ASSUME TypeInv, Deserialize
  PROVE  LET m == Head(toRemote)
         IN \/ remoteKilled /\ UNCHANGED <<rpcProxy, remoteWeakProxies>>
            \/ \E r \in Proxies :
                 /\ \/ rpcProxy[r].reach = "unborn"
                    \/ rpcProxy[r].id = m.id /\ ~rpcProxy[r].cleared
                 /\ rpcProxy' = [rpcProxy EXCEPT ![r] = Held(m.id, m.finalizerId)]
                 /\ remoteWeakProxies' = [remoteWeakProxies EXCEPT ![m.id] = r]
<1> DEFINE m == Head(toRemote)
           w == remoteWeakProxies[m.id]
           alive == w # None /\ ~rpcProxy[w].cleared
<1> USE DEF TypeInv
<1>0. toRemote # <<>> /\ toRemote \in Seq(References)
  BY DEF Deserialize, Import, TypeOK
<1>r. m \in References
  BY <1>0, TailFacts
<1>1. m.id \in Ids /\ m.finalizerId \in Ids
  BY <1>r DEF References
<1>2. CASE remoteKilled
  BY <1>2 DEF Deserialize, Import
<1>3. CASE ~remoteKilled /\ ~alive
  BY <1>3 DEF Deserialize, Import
<1>4. CASE ~remoteKilled /\ alive
  <2>1. w \in Proxies
    BY <1>1, <1>4 DEF TypeOK, Instances
  <2>2. /\ rpcProxy' = [rpcProxy EXCEPT ![w] = Held(m.id, m.finalizerId)]
        /\ remoteWeakProxies' = remoteWeakProxies
    BY <1>4 DEF Deserialize, Import
  <2>3. rpcProxy[w].id = m.id
    BY <1>1, <1>4, <2>1 DEF WeakRefs
  <2>4. remoteWeakProxies' = [remoteWeakProxies EXCEPT ![m.id] = w]
    BY <1>1, <2>2 DEF TypeOK
  <2>5. ~rpcProxy[w].cleared
    BY <1>4
  <2> HIDE DEF w
  <2> QED
    BY <2>1, <2>2, <2>3, <2>4, <2>5
<1> QED
  BY <1>2, <1>3, <1>4

\* Every step keeps the types, and the ids of the proxies.
LEMMA TypeStep ==
  ASSUME TypeInv, [Next]_vars
  PROVE  TypeInv'
<1> USE ObjectsAssumption DEF TypeInv, exporter, importer
<1>1. ASSUME NEW o \in Objs, SendArgument(o) PROVE TypeInv'
  BY <1>1, SerializeType DEF SendArgument, TypeOK, BornHasIds, WeakRefs
<1>2. CASE HandleApply
  <2>1. toLocal' \in Seq(Requests)
    BY <1>2, TailFacts DEF HandleApply, TypeOK
  <2>2. running' \in 0..MaxRunning
    BY <1>2 DEF HandleApply, TypeOK
  <2> QED
    BY <1>2, <2>1, <2>2 DEF HandleApply, TypeOK, BornHasIds, WeakRefs
<1>3. CASE FinishApply
  <2>1. running' \in 0..MaxRunning
    BY <1>3 DEF FinishApply, TypeOK
  <2> QED
    BY <1>3, <2>1, SerializeType DEF FinishApply, TypeOK, BornHasIds, WeakRefs
<1>4. CASE HandleFinalize
  <2>1. toLocal' \in Seq(Requests) /\ Head(toLocal) \in Requests
    BY <1>4, TailFacts DEF HandleFinalize, Release, TypeOK
  <2>2. localProxyMap' \in [Ids -> Objs \cup {None}]
    BY <1>4 DEF HandleFinalize, Release, TypeOK
  <2>3. localProxied' \in [Objs -> Entries \cup {NoEntry}]
    BY <1>4 DEF HandleFinalize, Release, TypeOK
  <2> QED
    BY <1>4, <2>1, <2>2, <2>3 DEF HandleFinalize, Release, TypeOK, BornHasIds, WeakRefs
<1>5. CASE KillLocal
  BY <1>5 DEF KillLocal, TypeOK, BornHasIds, WeakRefs
<1>6. CASE Deserialize
  <2> DEFINE m == Head(toRemote)
  <2>0. toRemote # <<>> /\ toRemote \in Seq(References) /\ toRemote' = Tail(toRemote)
    BY <1>6 DEF Deserialize, Import, TypeOK
  <2>r. toRemote' \in Seq(References) /\ m \in References
    BY <2>0, TailFacts
  <2>1. toRemote' \in Seq(References) /\ m.id \in Ids /\ m.finalizerId \in Ids
    BY <2>r DEF References
  <2>2. UNCHANGED <<exporter, remoteKilled, toLocal, lost>>
    BY <1>6 DEF Deserialize, Import
  <2>3. CASE UNCHANGED <<rpcProxy, remoteWeakProxies>>
    BY <2>1, <2>2, <2>3 DEF TypeOK, BornHasIds, WeakRefs
  <2> USE DEF Held
  <2>4. ASSUME NEW r \in Proxies,
               rpcProxy[r].reach = "unborn" \/ rpcProxy[r].id = m.id,
               rpcProxy' = [rpcProxy EXCEPT ![r] = Held(m.id, m.finalizerId)],
               remoteWeakProxies' = [remoteWeakProxies EXCEPT ![m.id] = r]
        PROVE  TypeInv'
    <3> HIDE DEF m
    <3>1. TypeOK'
      BY <2>1, <2>2, <2>4 DEF TypeOK, Instances, Reach
    <3>2. BornHasIds'
      BY <2>1, <2>4 DEF TypeOK, BornHasIds, WeakRefs
    <3>3. WeakRefs'
      BY <2>1, <2>4 DEF TypeOK, WeakRefs
    <3> QED
      BY <3>1, <3>2, <3>3
  <2> QED
    BY <1>6, <2>3, <2>4, ImportFacts
<1>7. CASE KillRemote
  BY <1>7 DEF KillRemote, TypeOK, BornHasIds, WeakRefs
<1>8. ASSUME NEW r \in Proxies, CallProxy(r) PROVE TypeInv'
  <2>1. PICK arg \in {None} \cup {rpcProxy[s].id : s \in {t \in Proxies : Usable(t)}} :
          toLocal' = Append(toLocal, [type |-> "apply", id |-> rpcProxy[r].id, arg |-> arg])
    BY <1>8 DEF CallProxy
  <2>2. rpcProxy[r].id \in Ids /\ arg \in Ids \cup {None}
    BY <1>8 DEF CallProxy, Usable, BornHasIds, WeakRefs
  <2>3. [type |-> "apply", id |-> rpcProxy[r].id, arg |-> arg] \in Requests
    BY <2>2 DEF Requests
  <2>4. toLocal' \in Seq(Requests)
    BY <2>1, <2>3, AppendFacts DEF TypeOK
  <2> QED
    BY <1>8, <2>4 DEF CallProxy, TypeOK, BornHasIds, WeakRefs
<1>9. ASSUME NEW r \in Proxies, Forget(r) PROVE TypeInv'
  <2>1. PICK left \in {"method", "dropped"} : rpcProxy' = [rpcProxy EXCEPT ![r].reach = left]
    BY <1>9 DEF Forget
  <2> QED
    BY <1>9, <2>1 DEF Forget, Usable, TypeOK, BornHasIds, WeakRefs, Instances, Reach
<1>10. ASSUME NEW r \in Proxies, CollectProxy(r) PROVE TypeInv'
  <2>1. rpcProxy' = [rpcProxy EXCEPT ![r].cleared = TRUE]
    BY <1>10 DEF CollectProxy
  <2>2. TypeOK'
    <3>1. rpcProxy' \in [Proxies -> Instances]
      BY <2>1 DEF TypeOK, Instances
    <3> QED
      BY <1>10, <3>1 DEF CollectProxy, TypeOK
  <2>3. BornHasIds' /\ WeakRefs'
    BY <1>10, <2>1 DEF CollectProxy, TypeOK, BornHasIds, WeakRefs
  <2> QED
    BY <2>2, <2>3
<1>11. ASSUME NEW r \in Proxies, Finalize(r) PROVE TypeInv'
  <2>1. rpcProxy[r].id \in Ids /\ rpcProxy[r].finalizerId \in Ids
    BY <1>11 DEF Finalize, RunFinalizer, BornHasIds, WeakRefs
  <2>2. [type |-> "finalize", id |-> rpcProxy[r].id,
         finalizerId |-> rpcProxy[r].finalizerId] \in Requests
    BY <2>1 DEF Requests
  <2>3. toLocal' \in Seq(Requests)
    BY <1>11, <2>2, AppendFacts DEF Finalize, RunFinalizer, TypeOK
  <2>4. rpcProxy' = [rpcProxy EXCEPT ![r].reach = "finalized"]
    BY <1>11 DEF Finalize, RunFinalizer
  <2>5. TypeOK'
    <3>1. rpcProxy' \in [Proxies -> Instances]
      BY <2>4 DEF TypeOK, Instances, Reach
    <3>2. remoteWeakProxies' \in [Ids -> Proxies \cup {None}]
      BY <1>11, <2>1 DEF Finalize, RunFinalizer, TypeOK
    <3> QED
      BY <1>11, <2>3, <3>1, <3>2 DEF Finalize, RunFinalizer, TypeOK
  <2>6. rpcProxy[r].reach = "dropped"
    BY <1>11 DEF Finalize, RunFinalizer
  <2>7. BornHasIds' /\ WeakRefs'
    BY <1>11, <2>1, <2>4, <2>6 DEF Finalize, RunFinalizer, TypeOK, BornHasIds, WeakRefs
  <2> QED
    BY <2>5, <2>7
<1>12. CASE DropReference
  <2>1. toRemote' \in Seq(References) /\ lost' \subseteq Objs
    BY <1>12, TailFacts DEF DropReference, TypeOK
  <2> QED
    BY <1>12, <2>1 DEF DropReference, TypeOK, BornHasIds, WeakRefs
<1>13. CASE UNCHANGED vars
  BY <1>13 DEF vars, TypeOK, BornHasIds, WeakRefs
<1> QED
  BY <1>1, <1>2, <1>3, <1>4, <1>5, <1>6, <1>7, <1>8, <1>9, <1>10, <1>11, <1>12, <1>13 DEF Next

\* The initial state has the types.
LEMMA TypeInit == Init => TypeInv
<1> SUFFICES ASSUME Init PROVE TypeInv
  OBVIOUS
<1>1. toRemote \in Seq(References) /\ toLocal \in Seq(Requests)
  BY EmptySeq DEF Init
<1>2. rpcProxy \in [Proxies -> Instances]
  BY DEF Init, Instances, Reach
<1>3. nextId \in 1..(MaxIds + 1) /\ running \in 0..MaxRunning
  BY ObjectsAssumption DEF Init
<1>4. TypeOK
  BY <1>1, <1>2, <1>3 DEF Init, TypeOK
<1>5. BornHasIds /\ WeakRefs
  BY DEF Init, BornHasIds, WeakRefs
<1> QED
  BY <1>4, <1>5 DEF TypeInv

\* Theorem: every variable keeps its type, whatever the objects, the proxies and
\* the bounds are.
THEOREM TypeCorrect == Spec => []TypeOK
<1>1. Init => TypeInv
  BY TypeInit
<1>2. TypeInv /\ [Next]_vars => TypeInv'
  BY TypeStep
<1> QED
  BY <1>1, <1>2, PTL DEF Spec, TypeInv
-----------------------------------------------------------------------------
(* The exporter's maps *)

\* Serializing an object keeps the two maps in agreement: a new id that is not
\* shared is not in use by another object.
LEMMA SerializeMaps ==
  ASSUME TypeOK, EntryIds, MapsAgree, NEW o \in Objs, NEW sent \in BOOLEAN, Serialize(o, sent)
  PROVE  EntryIds' /\ MapsAgree'
<1>1. PICK id \in Ids, fid \in Ids : SerializedAs(o, sent, id, fid)
  BY SerializeFacts
<1>2. /\ nextId \in 1..MaxIds /\ nextId' = nextId + 1
      /\ localProxied' = [localProxied EXCEPT ![o] = [id |-> id, finalizerId |-> fid]]
      /\ \/ Exported(o) /\ id = localProxied[o].id /\ localProxyMap' = localProxyMap
         \/ /\ ~Exported(o) /\ IF o \in Clustered THEN id = StableId[o] ELSE id = nextId
            /\ localProxyMap' = [localProxyMap EXCEPT ![id] = o]
  BY <1>1 DEF SerializedAs
<1>3. IF o \in Clustered THEN id = StableId[o] ELSE id \in 1..nextId
  BY <1>2 DEF EntryIds, TypeOK
<1>4. /\ localProxied'[o].id = id
      /\ \A p \in Objs : p # o => localProxied'[p] = localProxied[p]
  BY <1>2 DEF TypeOK
<1>5. EntryIds'
  BY <1>2, <1>3, <1>4 DEF EntryIds, Exported, TypeOK
<1>6. ASSUME NEW p \in Objs, p # o, Exported(p), Unshared(p), ~Exported(o)
      PROVE  localProxied[p].id # id
  <2>1. CASE p \in Clustered
    BY <1>2, <1>6, <2>1, ObjectsAssumption DEF EntryIds, Unshared
  <2>2. CASE p \notin Clustered
    BY <1>2, <1>6, <2>2, ObjectsAssumption DEF EntryIds
  <2> QED
    BY <2>1, <2>2
<1>7. ASSUME NEW p \in Objs, Exported(p)', Unshared(p)
      PROVE  localProxyMap'[localProxied'[p].id] = p
  <2>1. CASE Exported(o)
    <3>1. Exported(p) /\ localProxied'[p].id = localProxied[p].id /\ localProxyMap' = localProxyMap
      BY <1>2, <1>4, <1>7, <2>1 DEF Exported
    <3> QED
      BY <1>7, <3>1 DEF MapsAgree
  <2>2. CASE ~Exported(o) /\ p = o
    BY <1>2, <1>4, <2>2 DEF TypeOK
  <2>3. CASE ~Exported(o) /\ p # o
    <3>1. Exported(p) /\ localProxied'[p].id = localProxied[p].id
      BY <1>4, <1>7, <2>3 DEF Exported
    <3>2. localProxyMap[localProxied[p].id] = p /\ localProxied[p].id # id
      BY <1>6, <1>7, <2>3, <3>1 DEF MapsAgree
    <3>3. localProxied[p].id \in Ids
      BY <3>1 DEF Exported, TypeOK, Entries, NoEntry
    <3> QED
      BY <1>2, <2>3, <3>1, <3>2, <3>3 DEF TypeOK
  <2> QED
    BY <2>1, <2>2, <2>3
<1>8. ASSUME NEW i \in Ids, localProxyMap'[i] # None
      PROVE  localProxied'[localProxyMap'[i]].id = i
  <2>1. CASE ~Exported(o) /\ i = id
    BY <1>2, <1>4, <2>1 DEF TypeOK
  <2>2. CASE Exported(o) \/ i # id
    <3>1. localProxyMap[i] \in Objs /\ localProxyMap'[i] = localProxyMap[i]
      BY <1>2, <1>8, <2>2 DEF TypeOK
    <3>2. localProxied[localProxyMap[i]].id = i
      BY <1>8, <3>1 DEF MapsAgree
    <3>3. CASE localProxyMap[i] = o
      <4>1. Exported(o) /\ localProxied[o].id = i
        BY <3>2, <3>3, NoneIsNoId DEF Exported
      <4> QED
        BY <1>2, <1>4, <3>1, <3>3, <4>1
    <3>4. CASE localProxyMap[i] # o
      BY <1>4, <3>1, <3>2, <3>4
    <3> QED
      BY <3>3, <3>4
  <2> QED
    BY <2>1, <2>2
<1>9. MapsAgree'
  BY <1>7, <1>8 DEF MapsAgree, Unshared
<1> QED
  BY <1>5, <1>9

\* The two outcomes of a finalize message: the object it names is dropped from
\* both maps, or nothing changes.
LEMMA ReleaseFacts ==
  ASSUME TypeOK, HandleFinalize
  PROVE  LET m == Head(toLocal)
             o == localProxyMap[m.id]
         IN /\ toLocal # <<>> /\ m.type = "finalize" /\ m.id \in Ids
            /\ toLocal' = Tail(toLocal)
            /\ UNCHANGED <<nextId, running, localKilled, importer, toRemote, lost>>
            /\ \/ UNCHANGED <<localProxyMap, localProxied>>
               \/ /\ ~localKilled /\ o \in Objs
                  /\ m.finalizerId = localProxied[o].finalizerId
                  /\ localProxyMap' = [localProxyMap EXCEPT ![m.id] = None]
                  /\ localProxied' = [localProxied EXCEPT ![o] = NoEntry]
<1> DEFINE m == Head(toLocal)
<1>1. toLocal # <<>> /\ toLocal \in Seq(Requests) /\ m.type = "finalize"
  BY DEF HandleFinalize, Release, TypeOK
<1>2. m \in Requests
  BY <1>1, TailFacts
<1>3. m.id \in Ids
  BY <1>2 DEF Requests
<1> QED
  BY <1>1, <1>3 DEF HandleFinalize, Release, TypeOK

\* Releasing an object keeps the two maps in agreement.
LEMMA ReleaseMaps ==
  ASSUME TypeOK, EntryIds, MapsAgree, HandleFinalize
  PROVE  EntryIds' /\ MapsAgree'
<1> DEFINE m == Head(toLocal)
           o == localProxyMap[m.id]
<1>1. CASE UNCHANGED <<localProxyMap, localProxied>>
  BY <1>1, ReleaseFacts DEF EntryIds, MapsAgree, Exported, Unshared
<1>2. CASE /\ o \in Objs
           /\ localProxyMap' = [localProxyMap EXCEPT ![m.id] = None]
           /\ localProxied' = [localProxied EXCEPT ![o] = NoEntry]
  <2>1. m.id \in Ids /\ nextId' = nextId
    BY ReleaseFacts
  <2>2. localProxied[o].id = m.id
    BY <1>2, <2>1, ObjectsAssumption DEF MapsAgree
  <2> HIDE DEF m, o
  <2>3. EntryIds'
    BY <1>2, <2>1 DEF EntryIds, Exported, NoEntry, TypeOK
  <2>4. ASSUME NEW p \in Objs, Exported(p)', Unshared(p)
        PROVE  localProxyMap'[localProxied'[p].id] = p
    <3>1. p # o /\ localProxied'[p] = localProxied[p] /\ Exported(p)
      BY <1>2, <2>4 DEF Exported, NoEntry, TypeOK
    <3>2. localProxyMap[localProxied[p].id] = p
      BY <2>4, <3>1 DEF MapsAgree
    <3>3. localProxied[p].id # m.id
      BY <3>1, <3>2 DEF o
    <3>4. localProxied[p].id \in Ids
      BY <3>1 DEF Exported, TypeOK, Entries, NoEntry
    <3> QED
      BY <1>2, <3>1, <3>2, <3>3, <3>4 DEF TypeOK
  <2>5. ASSUME NEW i \in Ids, localProxyMap'[i] # None
        PROVE  localProxied'[localProxyMap'[i]].id = i
    <3>1. i # m.id /\ localProxyMap'[i] = localProxyMap[i] /\ localProxyMap[i] \in Objs
      BY <1>2, <2>1, <2>5 DEF TypeOK
    <3>2. localProxied[localProxyMap[i]].id = i
      BY <2>5, <3>1 DEF MapsAgree
    <3> QED
      BY <1>2, <2>2, <3>1, <3>2 DEF TypeOK
  <2> QED
    BY <2>3, <2>4, <2>5 DEF MapsAgree, Unshared
<1> QED
  BY <1>1, <1>2, ReleaseFacts

ExporterInv == TypeInv /\ EntryIds /\ MapsAgree

\* Every step keeps the two maps in agreement.
LEMMA ExporterStep ==
  ASSUME ExporterInv, [Next]_vars
  PROVE  EntryIds' /\ MapsAgree'
<1> USE DEF ExporterInv, TypeInv
<1>1. ASSUME NEW o \in Objs, NEW sent \in BOOLEAN, Serialize(o, sent) PROVE EntryIds' /\ MapsAgree'
  BY <1>1, SerializeMaps
<1>2. CASE HandleFinalize
  BY <1>2, ReleaseMaps
<1>3. CASE KillLocal
  BY <1>3, NoneIsNoId DEF KillLocal, EntryIds, MapsAgree, Exported, NoEntry, Unshared
<1>4. CASE UNCHANGED <<nextId, localProxied, localProxyMap>>
  BY <1>4 DEF EntryIds, MapsAgree, Exported, Unshared
<1>5. ASSUME NEW o \in Objs, SendArgument(o) PROVE EntryIds' /\ MapsAgree'
  BY <1>1, <1>5 DEF SendArgument
<1>6. CASE FinishApply
  BY <1>1, <1>4, <1>6 DEF FinishApply
<1>7. CASE HandleApply \/ Deserialize \/ DropReference \/ KillRemote \/ UNCHANGED vars
  BY <1>4, <1>7 DEF HandleApply, Deserialize, Import, DropReference, KillRemote, vars, exporter
<1>8. ASSUME NEW r \in Proxies, CallProxy(r) \/ Forget(r) \/ CollectProxy(r) \/ Finalize(r)
      PROVE  EntryIds' /\ MapsAgree'
  BY <1>4, <1>8 DEF CallProxy, Forget, CollectProxy, Finalize, RunFinalizer, exporter
<1> QED
  BY <1>2, <1>3, <1>5, <1>6, <1>7, <1>8 DEF Next

\* Initially nothing is exported.
LEMMA ExporterInit == Init => ExporterInv
<1> SUFFICES ASSUME Init PROVE EntryIds /\ MapsAgree
  BY TypeInit DEF ExporterInv
<1> QED
  BY NoneIsNoId DEF Init, EntryIds, MapsAgree, Exported, NoEntry

\* Theorem: the exporter's two maps always agree: what an id leads to is exported
\* under it, and what is exported under an id of its own is found by it.
THEOREM MapsCorrect == Spec => []MapsAgree
<1>1. Init => ExporterInv
  BY ExporterInit
<1>2. ExporterInv /\ [Next]_vars => ExporterInv'
  BY TypeStep, ExporterStep DEF ExporterInv
<1> QED
  BY <1>1, <1>2, PTL DEF Spec, ExporterInv
-----------------------------------------------------------------------------
(* References in flight *)

FlightInv == AllPast /\ InFlightExported /\ OnlyLastReleases

\* Serializing an object, sent or not: a new finalizer id is with nobody else
\* yet, and no other object's references change.
LEMMA SerializeFlight ==
  ASSUME ExporterInv, FlightInv, NEW o \in Objs, NEW sent \in BOOLEAN, Serialize(o, sent),
         UNCHANGED <<localKilled, rpcProxy, toLocal>>
  PROVE  FlightInv'
<1> USE DEF ExporterInv, TypeInv, FlightInv
<1>0. PICK id \in Ids, fid \in Ids : SerializedAs(o, sent, id, fid)
  BY SerializeFacts
<1> DEFINE new == [type |-> "ref", id |-> id, finalizerId |-> fid]
<1>1. /\ nextId \in 1..MaxIds /\ nextId' = nextId + 1
      /\ \/ Exported(o) /\ id = localProxied[o].id /\ fid = nextId
         \/ ~Exported(o) /\ id = fid /\ IF o \in Clustered THEN id = StableId[o] ELSE id = nextId
      /\ localProxied' = [localProxied EXCEPT ![o] = [id |-> id, finalizerId |-> fid]]
      /\ \A i \in Ids : i # id => localProxyMap'[i] = localProxyMap[i]
      /\ toRemote' = Append(toRemote, new) \/ toRemote' = toRemote
  BY <1>0 DEF SerializedAs, TypeOK
<1>m. id \notin StableIds => o \notin Clustered /\ localProxyMap'[id] = o
  <2> SUFFICES ASSUME id \notin StableIds
               PROVE  o \notin Clustered /\ localProxyMap'[id] = o
    OBVIOUS
  <2>1. o \notin Clustered
    BY <1>1, ObjectsAssumption DEF EntryIds
  <2>2. Unshared(o)
    BY <2>1 DEF Unshared
  <2> QED
    BY <1>0, <2>1, <2>2 DEF SerializedAs, MapsAgree, TypeOK
<1>2. new \in References
  BY DEF References
<1>3. \A i \in DOMAIN toRemote' :
        i \in Nat /\ (\/ i \in DOMAIN toRemote /\ toRemote'[i] = toRemote[i]
                      \/ /\ i \notin DOMAIN toRemote /\ toRemote'[i] = new
                         /\ \A j \in DOMAIN toRemote : j < i)
  <2>1. CASE toRemote' = Append(toRemote, new)
    BY <1>2, <2>1, AppendFacts DEF TypeOK
  <2>2. CASE toRemote' = toRemote
    BY <2>2, LenProperties DEF TypeOK
  <2> QED
    BY <1>1, <2>1, <2>2
<1>4. \A i \in Ids : Past(i) => Past(i)' /\ i # nextId
  BY <1>1, ObjectsAssumption DEF Past
<1>5. Past(id)' /\ Past(fid)'
  BY <1>1, ObjectsAssumption DEF Past, EntryIds
<1>6. AllPast'
  <2>1. ASSUME NEW i \in DOMAIN toRemote', NEW x, NEW y,
               x = toRemote'[i].id, y = toRemote'[i].finalizerId
        PROVE  Past(x)' /\ Past(y)'
    <3>1. CASE i \in DOMAIN toRemote /\ toRemote'[i] = toRemote[i]
      BY <1>1, <2>1, <3>1 DEF AllPast, Past
    <3>2. CASE toRemote'[i] = new
      BY <1>5, <2>1, <3>2
    <3> QED
      BY <1>3, <3>1, <3>2
  <2>2. \A i \in DOMAIN toRemote' : Past(toRemote[i].id)' /\ Past(toRemote[i].finalizerId)'
    BY <2>1
  <2> QED
    BY <1>1, <2>2 DEF AllPast, Past
<1>7. CASE localKilled
  BY <1>6, <1>7 DEF InFlightExported, OnlyLastReleases
<1>8. CASE ~localKilled
  <2>1. InFlightExported'
    <3> SUFFICES ASSUME NEW i \in DOMAIN toRemote', toRemote'[i].id \notin StableIds
                 PROVE  localProxyMap'[toRemote'[i].id] # None
      BY DEF InFlightExported
    <3>1. CASE i \in DOMAIN toRemote /\ toRemote'[i] = toRemote[i]
      <4>1. toRemote[i] \in References
        BY <3>1, LenProperties, ElementOfSeq DEF TypeOK
      <4>2. toRemote[i].id \in Ids /\ localProxyMap[toRemote[i].id] # None
        BY <1>8, <3>1, <4>1 DEF InFlightExported, References
      <4>3. CASE toRemote[i].id = id
        BY <1>m, <3>1, <4>3, ObjectsAssumption
      <4>4. CASE toRemote[i].id # id
        BY <1>1, <3>1, <4>2, <4>4
      <4> QED
        BY <4>3, <4>4
    <3>2. CASE toRemote'[i] = new
      BY <1>m, <3>2, ObjectsAssumption
    <3> QED
      BY <1>3, <3>1, <3>2
  <2>2. OnlyLastReleases'
    <3> SUFFICES ASSUME NEW i \in DOMAIN toRemote', NEW x,
                        x = toRemote'[i].id, x \notin StableIds
                 PROVE
           /\ \A j \in DOMAIN toRemote' :
                j < i /\ toRemote'[j].id = x => toRemote'[j].finalizerId # Current(x)'
           /\ \A j \in DOMAIN toLocal :
                toLocal[j].type = "finalize" /\ toLocal[j].id = x
                  => toLocal[j].finalizerId # Current(x)'
           /\ \A r \in Proxies :
                rpcProxy[r].reach # "unborn" /\ rpcProxy[r].id = x
                  => rpcProxy[r].finalizerId # Current(x)'
      BY DEF OnlyLastReleases, Current
    <3>1. \A j \in DOMAIN toRemote' : j < i => j \in DOMAIN toRemote /\ toRemote'[j] = toRemote[j]
      <4> SUFFICES ASSUME NEW j \in DOMAIN toRemote', j < i, j \notin DOMAIN toRemote
                   PROVE  FALSE
        BY <1>3
      <4>1. CASE toRemote' = toRemote
        BY <4>1
      <4>2. CASE toRemote' = Append(toRemote, new)
        BY <1>2, <4>2, AppendProperties, LenProperties DEF TypeOK
      <4> QED
        BY <1>1, <4>1, <4>2
    <3>2. CASE x = id
      <4>1. Current(x)' = fid
        BY <1>1, <1>m, <3>2 DEF Current, TypeOK
      <4>2. fid = nextId
        BY <1>1, <1>m, <3>2
      <4>3. /\ \A j \in DOMAIN toRemote : toRemote[j].finalizerId # nextId
            /\ \A j \in DOMAIN toLocal :
                 toLocal[j].type = "finalize" => toLocal[j].finalizerId # nextId
            /\ \A r \in Proxies :
                 rpcProxy[r].reach # "unborn" => rpcProxy[r].finalizerId # nextId
        BY <1>1, ObjectsAssumption DEF AllPast, Past
      <4> QED
        BY <3>1, <4>1, <4>2, <4>3
    <3>3. CASE x # id
      <4>1. i \in DOMAIN toRemote /\ toRemote'[i] = toRemote[i]
        BY <1>3, <3>3
      <4>2. toRemote[i] \in References
        BY <4>1, LenProperties, ElementOfSeq DEF TypeOK
      <4>3. x \in Ids /\ localProxyMap[x] # None /\ localProxyMap[x] \in Objs
        BY <1>8, <4>1, <4>2 DEF InFlightExported, References, TypeOK
      <4>4. localProxied[localProxyMap[x]].id = x
        BY <4>3 DEF MapsAgree
      <4>5. localProxyMap[x] # o
        BY <1>1, <3>3, <4>3, <4>4, NoneIsNoId DEF Exported
      <4>6. Current(x)' = Current(x)
        BY <1>1, <3>3, <4>3, <4>5 DEF Current, TypeOK
      <4> QED
        BY <1>8, <3>1, <4>1, <4>6 DEF OnlyLastReleases
    <3> QED
      BY <3>2, <3>3
  <2> QED
    BY <1>6, <2>1, <2>2
<1> QED
  BY <1>7, <1>8

\* Receiving a call changes nothing that a reference in flight depends on.
LEMMA ReceiveFlight ==
  ASSUME TypeOK, FlightInv, toLocal # <<>>, toLocal' = Tail(toLocal),
         UNCHANGED <<nextId, localProxied, localProxyMap, localKilled, rpcProxy, toRemote>>
  PROVE  FlightInv'
<1>1. \A j \in DOMAIN toLocal' : j + 1 \in DOMAIN toLocal /\ toLocal'[j] = toLocal[j + 1]
  BY TailFacts DEF TypeOK
<1>2. AllPast'
  BY <1>1 DEF FlightInv, AllPast, Past
<1>3. InFlightExported'
  BY DEF FlightInv, InFlightExported
<1>4. OnlyLastReleases'
  BY <1>1 DEF FlightInv, OnlyLastReleases, Current
<1> QED
  BY <1>2, <1>3, <1>4 DEF FlightInv

\* A finalize message that matches names an object no reference in flight names.
LEMMA ReleaseFlight ==
  ASSUME ExporterInv, FlightInv, HandleFinalize
  PROVE  FlightInv'
<1> USE DEF ExporterInv, TypeInv
<1> DEFINE m == Head(toLocal)
           o == localProxyMap[m.id]
<1>1. /\ toLocal # <<>> /\ m.type = "finalize" /\ m.id \in Ids
      /\ toLocal' = Tail(toLocal)
      /\ UNCHANGED <<nextId, localKilled, rpcProxy, toRemote>>
  BY ReleaseFacts DEF importer
<1>2. CASE UNCHANGED <<localProxyMap, localProxied>>
  BY <1>1, <1>2, ReceiveFlight
<1>3. CASE /\ ~localKilled /\ o \in Objs
           /\ m.finalizerId = localProxied[o].finalizerId
           /\ localProxyMap' = [localProxyMap EXCEPT ![m.id] = None]
           /\ localProxied' = [localProxied EXCEPT ![o] = NoEntry]
  <2>1. 1 \in DOMAIN toLocal /\ m = toLocal[1]
    BY <1>1, TailFacts DEF TypeOK
  <2>2. \A j \in DOMAIN toLocal' : j + 1 \in DOMAIN toLocal /\ toLocal'[j] = toLocal[j + 1]
    BY <1>1, TailFacts DEF TypeOK
  <2> HIDE DEF m, o
  <2>3. ASSUME NEW i \in DOMAIN toRemote, NEW x, x = toRemote[i].id, x \notin StableIds
        PROVE  /\ localProxyMap'[x] # None
               /\ Current(x)' = Current(x)
    <3>1. toRemote[i] \in References
      BY LenProperties, ElementOfSeq DEF TypeOK
    <3>2. x \in Ids /\ localProxyMap[x] # None /\ localProxyMap[x] \in Objs
      BY <1>3, <2>3, <3>1 DEF FlightInv, InFlightExported, References, TypeOK
    <3>3. x # m.id
      BY <1>1, <1>3, <2>1, <2>3 DEF FlightInv, OnlyLastReleases, Current, o
    <3>4. localProxyMap[x] # o
      BY <3>2, <3>3, <1>1, <1>3, ObjectsAssumption DEF MapsAgree, o
    <3> QED
      BY <1>3, <3>2, <3>3, <3>4 DEF Current, TypeOK
  <2>4. AllPast'
    BY <1>1, <2>2 DEF FlightInv, AllPast, Past
  <2>5. InFlightExported'
    BY <1>1, <2>3 DEF InFlightExported
  <2>6. OnlyLastReleases'
    <3> SUFFICES ASSUME NEW i \in DOMAIN toRemote, NEW x,
                        x = toRemote[i].id, x \notin StableIds
                 PROVE
           /\ \A j \in DOMAIN toRemote :
                j < i /\ toRemote[j].id = x => toRemote[j].finalizerId # Current(x)'
           /\ \A j \in DOMAIN toLocal' :
                toLocal'[j].type = "finalize" /\ toLocal'[j].id = x
                  => toLocal'[j].finalizerId # Current(x)'
           /\ \A r \in Proxies :
                rpcProxy[r].reach # "unborn" /\ rpcProxy[r].id = x
                  => rpcProxy[r].finalizerId # Current(x)'
      BY <1>1 DEF OnlyLastReleases, Current
    <3>1. Current(x)' = Current(x)
      BY <2>3
    <3> QED
      BY <1>3, <2>2, <3>1 DEF FlightInv, OnlyLastReleases
  <2> QED
    BY <2>4, <2>5, <2>6 DEF FlightInv
<1> QED
  BY <1>2, <1>3, ReleaseFacts

\* An RpcProxy learns a finalizer id that is not current while another
\* reference with its proxy id is still on the way.
LEMMA DeserializeFlight ==
  ASSUME TypeInv, FlightInv, Deserialize
  PROVE  FlightInv'
<1> USE DEF FlightInv
<1> DEFINE m == Head(toRemote)
<1>1. toRemote # <<>> /\ toRemote \in Seq(References) /\ toRemote' = Tail(toRemote)
  BY DEF Deserialize, Import, TypeInv, TypeOK
<1>2. /\ 1 \in DOMAIN toRemote /\ m = toRemote[1]
      /\ \A i \in DOMAIN toRemote' :
           i \in Nat /\ i + 1 \in DOMAIN toRemote /\ toRemote'[i] = toRemote[i + 1]
  BY <1>1, TailFacts
<1>3. DOMAIN toRemote' \subseteq Nat \ {0}
  BY <1>1, TailFacts, LenProperties
<1>4. UNCHANGED <<nextId, localProxied, localProxyMap, localKilled, toLocal>>
  BY DEF Deserialize, Import, exporter
<1>5. InFlightExported'
  BY <1>2, <1>4 DEF InFlightExported
<1>6. CASE UNCHANGED <<rpcProxy, remoteWeakProxies>>
  <2>1. AllPast'
    BY <1>2, <1>4, <1>6 DEF AllPast, Past
  <2>2. OnlyLastReleases'
    BY <1>2, <1>4, <1>6 DEF OnlyLastReleases, Current
  <2> QED
    BY <1>5, <2>1, <2>2
<1>7. ASSUME NEW r \in Proxies,
             rpcProxy' = [rpcProxy EXCEPT ![r] = Held(m.id, m.finalizerId)]
      PROVE  FlightInv'
  <2>1. \A s \in Proxies : \/ s # r /\ rpcProxy'[s] = rpcProxy[s]
                           \/ rpcProxy'[s].id = m.id /\ rpcProxy'[s].finalizerId = m.finalizerId
    BY <1>7 DEF TypeInv, TypeOK, Held
  <2>2. Past(m.id) /\ Past(m.finalizerId)
    BY <1>2 DEF AllPast
  <2>3. AllPast'
    BY <1>2, <1>4, <2>1, <2>2 DEF AllPast, Past
  <2>4. OnlyLastReleases'
    <3> SUFFICES ASSUME ~localKilled, NEW i \in DOMAIN toRemote', NEW x,
                        x = toRemote'[i].id, x \notin StableIds
                 PROVE
           /\ \A j \in DOMAIN toRemote' :
                j < i /\ toRemote'[j].id = x => toRemote'[j].finalizerId # Current(x)
           /\ \A j \in DOMAIN toLocal :
                toLocal[j].type = "finalize" /\ toLocal[j].id = x
                  => toLocal[j].finalizerId # Current(x)
           /\ \A s \in Proxies :
                rpcProxy'[s].reach # "unborn" /\ rpcProxy'[s].id = x
                  => rpcProxy'[s].finalizerId # Current(x)
      BY <1>4 DEF OnlyLastReleases, Current
    <3>1. i + 1 \in DOMAIN toRemote /\ toRemote[i + 1].id = x /\ 1 < i + 1
      BY <1>2, <1>3
    <3>2. m.id = x => m.finalizerId # Current(x)
      BY <1>2, <3>1 DEF OnlyLastReleases
    <3>3. \A j \in DOMAIN toRemote' :
            j < i /\ toRemote'[j].id = x => toRemote'[j].finalizerId # Current(x)
      BY <1>2, <3>1 DEF OnlyLastReleases
    <3>4. \A s \in Proxies :
            rpcProxy[s].reach # "unborn" /\ rpcProxy[s].id = x
              => rpcProxy[s].finalizerId # Current(x)
      BY <3>1 DEF OnlyLastReleases
    <3> QED
      BY <2>1, <3>1, <3>2, <3>3, <3>4 DEF OnlyLastReleases
  <2> QED
    BY <1>5, <2>3, <2>4
<1> QED
  BY <1>6, <1>7, ImportFacts

\* A reference that is not deserialized is one less in flight.
LEMMA DropFlight ==
  ASSUME TypeInv, FlightInv, DropReference
  PROVE  FlightInv'
<1> USE DEF FlightInv
<1>1. /\ toRemote # <<>> /\ toRemote \in Seq(References) /\ toRemote' = Tail(toRemote)
      /\ UNCHANGED <<nextId, localProxied, localProxyMap, localKilled, toLocal, rpcProxy>>
  BY DEF DropReference, TypeInv, TypeOK, exporter, importer
<1>2. \A i \in DOMAIN toRemote' :
        i \in Nat /\ i + 1 \in DOMAIN toRemote /\ toRemote'[i] = toRemote[i + 1]
  BY <1>1, TailFacts
<1>3. AllPast'
  BY <1>1, <1>2 DEF AllPast, Past
<1>4. InFlightExported'
  BY <1>1, <1>2 DEF InFlightExported
<1>5. OnlyLastReleases'
  BY <1>1, <1>2 DEF OnlyLastReleases, Current
<1> QED
  BY <1>3, <1>4, <1>5

\* A finalize message carries the finalizer id its RpcProxy had.
LEMMA FinalizeFlight ==
  ASSUME TypeInv, FlightInv, NEW r \in Proxies, Finalize(r)
  PROVE  FlightInv'
<1> USE DEF FlightInv
<1> DEFINE m == [type |-> "finalize", id |-> rpcProxy[r].id,
                 finalizerId |-> rpcProxy[r].finalizerId]
<1>1. /\ rpcProxy[r].reach # "unborn"
      /\ rpcProxy' = [rpcProxy EXCEPT ![r].reach = "finalized"]
      /\ toLocal' = Append(toLocal, m)
      /\ UNCHANGED <<nextId, localProxied, localProxyMap, localKilled, toRemote>>
  BY DEF Finalize, RunFinalizer, exporter
<1>2. m \in Requests
  BY <1>1 DEF TypeInv, BornHasIds, Requests
<1>3. \A j \in DOMAIN toLocal' :
        \/ j \in DOMAIN toLocal /\ toLocal'[j] = toLocal[j]
        \/ toLocal'[j] = m
  BY <1>1, <1>2, AppendFacts DEF TypeInv, TypeOK
<1>4. \A s \in Proxies : /\ rpcProxy'[s].id = rpcProxy[s].id
                         /\ rpcProxy'[s].finalizerId = rpcProxy[s].finalizerId
                         /\ rpcProxy'[s].reach # "unborn" => rpcProxy[s].reach # "unborn"
  BY <1>1 DEF TypeInv, TypeOK, Instances
<1>5. AllPast'
  BY <1>1, <1>3, <1>4 DEF AllPast, Past
<1>6. InFlightExported'
  BY <1>1 DEF InFlightExported
<1>7. OnlyLastReleases'
  BY <1>1, <1>3, <1>4 DEF OnlyLastReleases, Current
<1> QED
  BY <1>5, <1>6, <1>7

\* Every step keeps what is in flight exported.
LEMMA FlightStep ==
  ASSUME ExporterInv, FlightInv, [Next]_vars
  PROVE  FlightInv'
<1> USE DEF ExporterInv, TypeInv
<1> DEFINE Same == UNCHANGED <<nextId, localProxied, localProxyMap, localKilled, toRemote>>
<1>1. ASSUME NEW o \in Objs, SendArgument(o) PROVE FlightInv'
  BY <1>1, SerializeFlight DEF SendArgument, importer
<1>2. CASE HandleApply
  BY <1>2, ReceiveFlight DEF HandleApply, importer
<1>3. CASE FinishApply
  <2>1. CASE \E o \in Objs, sent \in BOOLEAN : Serialize(o, sent)
    BY <1>3, <2>1, SerializeFlight DEF FinishApply, importer
  <2>2. CASE UNCHANGED <<nextId, localProxied, localProxyMap, toRemote, lost>>
    BY <1>3, <2>2 DEF FinishApply, importer, FlightInv, AllPast, Past,
                      InFlightExported, OnlyLastReleases, Current
  <2> QED
    BY <1>3, <2>1, <2>2 DEF FinishApply
<1>4. CASE HandleFinalize
  BY <1>4, ReleaseFlight
<1>5. CASE KillLocal
  BY <1>5 DEF KillLocal, importer, FlightInv, AllPast, Past, InFlightExported, OnlyLastReleases
<1>6. CASE Deserialize
  BY <1>6, DeserializeFlight
<1>7. CASE KillRemote \/ UNCHANGED vars
  BY <1>7 DEF KillRemote, vars, exporter, importer, FlightInv, AllPast, Past,
              InFlightExported, OnlyLastReleases, Current
<1>8. ASSUME NEW r \in Proxies, CallProxy(r) PROVE FlightInv'
  <2>1. PICK arg \in {None} \cup {rpcProxy[s].id : s \in {t \in Proxies : Usable(t)}} :
          toLocal' = Append(toLocal, [type |-> "apply", id |-> rpcProxy[r].id, arg |-> arg])
    BY <1>8 DEF CallProxy
  <2> DEFINE m == [type |-> "apply", id |-> rpcProxy[r].id, arg |-> arg]
  <2>2. rpcProxy[r].id \in Ids /\ arg \in Ids \cup {None}
    BY <1>8 DEF CallProxy, Usable, BornHasIds
  <2>3. m \in Requests
    BY <2>2 DEF Requests
  <2>4. \A j \in DOMAIN toLocal' :
          \/ j \in DOMAIN toLocal /\ toLocal'[j] = toLocal[j]
          \/ toLocal'[j] = m
    BY <2>1, <2>3, AppendFacts DEF TypeOK
  <2>5. Same /\ UNCHANGED rpcProxy
    BY <1>8 DEF CallProxy, exporter, importer
  <2>6. AllPast'
    BY <2>4, <2>5 DEF FlightInv, AllPast, Past
  <2>7. InFlightExported'
    BY <2>5 DEF FlightInv, InFlightExported
  <2>8. OnlyLastReleases'
    BY <2>4, <2>5 DEF FlightInv, OnlyLastReleases, Current
  <2> QED
    BY <2>6, <2>7, <2>8 DEF FlightInv
<1>9. ASSUME NEW r \in Proxies, Forget(r) \/ CollectProxy(r) PROVE FlightInv'
  <2>1. Same /\ UNCHANGED toLocal
    BY <1>9 DEF Forget, CollectProxy, exporter
  <2>2. \A s \in Proxies : /\ rpcProxy'[s].id = rpcProxy[s].id
                           /\ rpcProxy'[s].finalizerId = rpcProxy[s].finalizerId
                           /\ rpcProxy'[s].reach # "unborn" => rpcProxy[s].reach # "unborn"
    BY <1>9 DEF Forget, CollectProxy, Usable, TypeOK, Instances
  <2> QED
    BY <2>1, <2>2 DEF FlightInv, AllPast, Past, InFlightExported, OnlyLastReleases, Current
<1>10. ASSUME NEW r \in Proxies, Finalize(r) PROVE FlightInv'
  BY <1>10, FinalizeFlight
<1>11. CASE DropReference
  BY <1>11, DropFlight
<1> QED
  BY <1>1, <1>2, <1>3, <1>4, <1>5, <1>6, <1>7, <1>8, <1>9, <1>10, <1>11 DEF Next

\* Theorem: a reference on its way to the importer names an exported object.
\* The induction needs to know who holds the one finalizer id that matches.
THEOREM InFlightCorrect == Spec => []InFlightExported
<1>1. Init => ExporterInv /\ FlightInv
  <2> SUFFICES ASSUME Init PROVE ExporterInv /\ FlightInv
    OBVIOUS
  <2>1. ExporterInv
    BY ExporterInit
  <2>2. FlightInv
    BY DEF Init, FlightInv, AllPast, InFlightExported, OnlyLastReleases
  <2> QED
    BY <2>1, <2>2
<1>2. ExporterInv /\ FlightInv /\ [Next]_vars => (ExporterInv /\ FlightInv)'
  BY TypeStep, ExporterStep, FlightStep DEF ExporterInv
<1> QED
  BY <1>1, <1>2, PTL DEF Spec, FlightInv
-----------------------------------------------------------------------------
(* Finalizer ids *)
\* An RpcProxy that was built and not yet finalized.
Alive(r) == rpcProxy[r].reach \notin {"unborn", "finalized"}

\* An object that goes by an id of its own and was received, or is on its way,
\* as it was last serialized.
Sent(o) == Exported(o) /\ Unshared(o) /\ o \notin lost

\* The reference with the current finalizer id is the last one in flight.
LastCurrent ==
  \A o \in Objs : Sent(o) =>
    \A i \in DOMAIN toRemote : toRemote[i].id = localProxied[o].id =>
      \E j \in DOMAIN toRemote : /\ i <= j /\ toRemote[j].id = localProxied[o].id
                                 /\ toRemote[j].finalizerId = localProxied[o].finalizerId

\* A message, or an RpcProxy, has the current finalizer id of the entry e.
Carries(m, e) == m.type # "apply" /\ m.id = e.id /\ m.finalizerId = e.finalizerId
Holds(r, e) == Alive(r) /\ rpcProxy[r].id = e.id /\ rpcProxy[r].finalizerId = e.finalizerId

Carried ==
  ~localKilled /\ ~remoteKilled =>
    \A o \in Objs : Sent(o) =>
      \/ \E i \in DOMAIN toRemote : Carries(toRemote[i], localProxied[o])
      \/ \E i \in DOMAIN toLocal : Carries(toLocal[i], localProxied[o])
      \/ \E r \in Proxies : Holds(r, localProxied[o])

ReclaimInv == LastCurrent /\ Carried

\* A reference that is sent carries the current finalizer id and is the last in
\* flight; one that is not sent is no longer spoken of; what is in flight of other
\* objects is as it was.
LEMMA SerializeReclaim ==
  ASSUME TypeOK, EntryIds', MapsAgree', ReclaimInv, NEW o \in Objs, NEW sent \in BOOLEAN,
         Serialize(o, sent), UNCHANGED <<localKilled, remoteKilled, rpcProxy, toLocal>>
  PROVE  ReclaimInv'
<1>0. PICK id \in Ids, fid \in Ids : SerializedAs(o, sent, id, fid)
  BY SerializeFacts
<1> DEFINE new == [type |-> "ref", id |-> id, finalizerId |-> fid]
           n == Len(toRemote) + 1
<1>1. new \in References /\ toRemote \in Seq(References)
  BY DEF References, TypeOK
<1>2. new.id = id /\ new.finalizerId = fid /\ new.type = "ref"
  OBVIOUS
<1>3. /\ localProxied' = [localProxied EXCEPT ![o] = [id |-> id, finalizerId |-> fid]]
      /\ \/ sent /\ lost' = lost \ {o} /\ toRemote' = Append(toRemote, new)
         \/ ~sent /\ lost' = lost \cup {o} /\ toRemote' = toRemote
  BY <1>0 DEF SerializedAs
<1> HIDE DEF new
<1>4. sent => /\ n \in DOMAIN toRemote' /\ toRemote'[n] = new
              /\ \A i \in DOMAIN toRemote' : i <= n /\ (i \in DOMAIN toRemote \/ i = n)
  <2> SUFFICES ASSUME sent
               PROVE  /\ n \in DOMAIN toRemote' /\ toRemote'[n] = new
                      /\ \A i \in DOMAIN toRemote' : i <= n /\ (i \in DOMAIN toRemote \/ i = n)
    OBVIOUS
  <2>1. /\ Len(toRemote) \in Nat /\ DOMAIN toRemote = 1..Len(toRemote)
        /\ DOMAIN toRemote' = 1..n /\ toRemote'[n] = new
    BY <1>1, <1>3, AppendProperties, LenProperties
  <2> QED
    BY <2>1
<1>5. /\ \A i \in DOMAIN toRemote : i \in DOMAIN toRemote' /\ toRemote'[i] = toRemote[i]
      /\ \A i \in DOMAIN toRemote' : i \in DOMAIN toRemote \/ (sent /\ toRemote'[i] = new)
  <2>1. CASE sent
    <3>1. toRemote' = Append(toRemote, new)
      BY <1>3, <2>1
    <3>2. \A i \in DOMAIN toRemote : i \in DOMAIN toRemote' /\ toRemote'[i] = toRemote[i]
      BY <1>1, <3>1, AppendKeeps
    <3>3. \A i \in DOMAIN toRemote' : i \in DOMAIN toRemote \/ toRemote'[i] = new
      BY <1>1, <3>1, AppendFacts
    <3> QED
      BY <2>1, <3>2, <3>3
  <2>2. CASE ~sent
    BY <1>3, <2>2
  <2> QED
    BY <2>1, <2>2
<1>6. localProxied'[o].id = id /\ localProxied'[o].finalizerId = fid
  BY <1>3 DEF TypeOK
<1>o. Sent(o)' => sent
  BY <1>3 DEF Sent, TypeOK
<1>7. ASSUME NEW p \in Objs, p # o, Sent(p)'
      PROVE  Sent(p) /\ localProxied'[p] = localProxied[p] /\ localProxied'[p].id # id
  <2>1. localProxied'[p] = localProxied[p] /\ (p \in lost <=> p \in lost')
    BY <1>3, <1>7 DEF TypeOK
  <2>2. Sent(p)
    BY <1>7, <2>1 DEF Sent, Exported, Unshared
  <2>3. localProxied'[p].id # localProxied'[o].id
    <3>1. Exported(o)' /\ Exported(p)' /\ Unshared(p)
      BY <1>6, <1>7, NoneIsNoId DEF Exported, Sent, Unshared
    <3>2. CASE o \notin Clustered
      <4>1. /\ localProxyMap'[localProxied'[o].id] = o
            /\ localProxyMap'[localProxied'[p].id] = p
        BY <3>1, <3>2 DEF MapsAgree, Unshared
      <4> QED
        BY <1>7, <4>1
    <3>3. CASE o \in Clustered
      <4>1. localProxied'[o].id = StableId[o] /\ StableId[o] \in StableIds
        BY <3>1, <3>3, ObjectsAssumption DEF EntryIds
      <4>2. /\ p \in Clustered => localProxied'[p].id = StableId[p]
            /\ p \notin Clustered => localProxied'[p].id \in 1..(nextId' - 1)
        BY <3>1 DEF EntryIds
      <4>3. 1..(nextId' - 1) \subseteq 1..MaxIds
        BY <1>0, ObjectsAssumption DEF SerializedAs
      <4> QED
        BY <1>7, <3>1, <3>3, <4>1, <4>2, <4>3, ObjectsAssumption DEF Unshared
    <3> QED
      BY <3>2, <3>3
  <2> QED
    BY <1>6, <2>1, <2>2, <2>3
<1>8. LastCurrent'
  <2> SUFFICES ASSUME NEW p \in Objs, Sent(p)', NEW i \in DOMAIN toRemote',
                      toRemote'[i].id = localProxied'[p].id
               PROVE  \E j \in DOMAIN toRemote' :
                        /\ i <= j /\ toRemote'[j].id = localProxied'[p].id
                        /\ toRemote'[j].finalizerId = localProxied'[p].finalizerId
    BY DEF LastCurrent
  <2>1. CASE p = o
    BY <1>2, <1>4, <1>6, <1>o, <2>1
  <2>2. CASE p # o
    <3>1. Sent(p) /\ localProxied'[p] = localProxied[p] /\ localProxied'[p].id # id
      BY <1>7, <2>2
    <3>2. i \in DOMAIN toRemote /\ toRemote[i].id = localProxied[p].id
      BY <1>2, <1>5, <3>1
    <3>3. PICK j \in DOMAIN toRemote :
             /\ i <= j /\ toRemote[j].id = localProxied[p].id
             /\ toRemote[j].finalizerId = localProxied[p].finalizerId
      BY <3>1, <3>2 DEF ReclaimInv, LastCurrent
    <3> QED
      BY <1>5, <3>1, <3>3
  <2> QED
    BY <2>1, <2>2
<1>9. Carried'
  <2> SUFFICES ASSUME ~localKilled, ~remoteKilled, NEW p \in Objs, Sent(p)'
               PROVE  \/ \E i \in DOMAIN toRemote' : Carries(toRemote'[i], localProxied'[p])
                      \/ \E i \in DOMAIN toLocal : Carries(toLocal[i], localProxied'[p])
                      \/ \E r \in Proxies : Holds(r, localProxied'[p])
    BY DEF Carried, Carries, Holds, Alive
  <2>1. CASE p = o
    BY <1>2, <1>4, <1>6, <1>o, <2>1 DEF Carries
  <2>2. CASE p # o
    <3>1. Sent(p) /\ localProxied'[p] = localProxied[p]
      BY <1>7, <2>2
    <3>2. \/ \E i \in DOMAIN toRemote : Carries(toRemote[i], localProxied[p])
          \/ \E i \in DOMAIN toLocal : Carries(toLocal[i], localProxied[p])
          \/ \E r \in Proxies : Holds(r, localProxied[p])
      BY <3>1 DEF ReclaimInv, Carried
    <3> QED
      BY <1>5, <3>1, <3>2
  <2> QED
    BY <2>1, <2>2
<1> QED
  BY <1>8, <1>9 DEF ReclaimInv

\* A request that is received takes no current finalizer id with it, unless it
\* releases the object.
LEMMA RequestReclaim ==
  ASSUME TypeOK, ReclaimInv, toLocal # <<>>, toLocal' = Tail(toLocal),
         UNCHANGED <<localKilled, remoteKilled, rpcProxy, toRemote>>,
         \A p \in Objs : Sent(p)' =>
           /\ Sent(p) /\ localProxied'[p] = localProxied[p]
           /\ ~localKilled => ~Carries(Head(toLocal), localProxied[p])
  PROVE  ReclaimInv'
<1>1. toLocal \in Seq(Requests) /\ Head(toLocal) = toLocal[1]
  BY TailFacts DEF TypeOK
<1>2. LastCurrent'
  BY DEF ReclaimInv, LastCurrent
<1>3. Carried'
  <2> SUFFICES ASSUME ~localKilled, ~remoteKilled, NEW p \in Objs, Sent(p)'
               PROVE  \/ \E i \in DOMAIN toRemote : Carries(toRemote[i], localProxied'[p])
                      \/ \E i \in DOMAIN toLocal' : Carries(toLocal'[i], localProxied'[p])
                      \/ \E r \in Proxies : Holds(r, localProxied'[p])
    BY DEF Carried, Carries, Holds, Alive
  <2>1. /\ Sent(p) /\ localProxied'[p] = localProxied[p]
        /\ ~Carries(Head(toLocal), localProxied[p])
    OBVIOUS
  <2>2. ASSUME NEW i \in DOMAIN toLocal, Carries(toLocal[i], localProxied[p])
        PROVE  \E j \in DOMAIN toLocal' : Carries(toLocal'[j], localProxied[p])
    <3>1. i # 1
      BY <1>1, <2>1, <2>2
    <3>2. i - 1 \in DOMAIN toLocal' /\ toLocal'[i - 1] = toLocal[i]
      BY <1>1, <3>1, TailKeeps
    <3> QED
      BY <2>2, <3>2
  <2> QED
    BY <2>1, <2>2 DEF ReclaimInv, Carried
<1> QED
  BY <1>2, <1>3 DEF ReclaimInv

\* A finalize message with the current id releases; any other keeps what is
\* exported.
LEMMA FinalizedReclaim ==
  ASSUME ExporterInv, ReclaimInv, HandleFinalize
  PROVE  ReclaimInv'
<1> DEFINE m == Head(toLocal)
           o == localProxyMap[m.id]
<1>0. TypeOK /\ MapsAgree
  BY DEF ExporterInv, TypeInv
<1>1. /\ toLocal # <<>> /\ m.id \in Ids
      /\ toLocal' = Tail(toLocal)
      /\ UNCHANGED <<localKilled, remoteKilled, rpcProxy, toRemote, lost>>
  BY <1>0, ReleaseFacts DEF importer
<1>2. /\ (/\ ~localKilled /\ o # None
          /\ m.finalizerId = localProxied[o].finalizerId)
           => localProxied' = [localProxied EXCEPT ![o] = NoEntry]
      /\ \/ localProxied' = localProxied
         \/ localProxied' = [localProxied EXCEPT ![o] = NoEntry]
  BY DEF HandleFinalize, Release
<1> HIDE DEF m
<1>3. ASSUME NEW p \in Objs, Sent(p)'
      PROVE  /\ Sent(p) /\ localProxied'[p] = localProxied[p]
             /\ ~localKilled => ~Carries(m, localProxied[p])
  <2>1. localProxied'[p] = localProxied[p] \/ localProxied'[p] = NoEntry
    BY <1>0, <1>2 DEF TypeOK
  <2>2. Sent(p) /\ localProxied'[p] = localProxied[p]
    BY <1>1, <1>3, <2>1 DEF Sent, Unshared, Exported, NoEntry
  <2>3. ASSUME ~localKilled, Carries(m, localProxied[p]) PROVE FALSE
    <3>1. o = p
      BY <1>0, <2>2, <2>3 DEF MapsAgree, Carries, Sent
    <3>2. p # None /\ m.finalizerId = localProxied[o].finalizerId
      BY <2>3, <3>1, ObjectsAssumption DEF Carries
    <3>3. localProxied'[p] = NoEntry
      BY <1>0, <1>2, <2>3, <3>1, <3>2 DEF TypeOK
    <3> QED
      BY <1>3, <3>3 DEF Sent, Exported, NoEntry
  <2> QED
    BY <2>2, <2>3
<1> QED
  BY <1>0, <1>1, <1>3, RequestReclaim DEF m

\* The current finalizer id stays in the last reference in flight when the first
\* one is received.
LEMMA TailLastCurrent ==
  ASSUME TypeOK, LastCurrent, toRemote # <<>>, toRemote' = Tail(toRemote),
         UNCHANGED localProxied, lost \subseteq lost'
  PROVE  LastCurrent'
<1>a. toRemote \in Seq(References)
  BY DEF TypeOK
<1>b. /\ \A i \in DOMAIN toRemote' :
           i \in Nat /\ i + 1 \in DOMAIN toRemote /\ toRemote'[i] = toRemote[i + 1]
      /\ \A i \in DOMAIN toRemote : i \in Nat /\ i >= 1
  BY <1>a, TailFacts, LenProperties
<1>c. \A i \in DOMAIN toRemote : i # 1 =>
        i - 1 \in DOMAIN toRemote' /\ toRemote'[i - 1] = toRemote[i]
  BY <1>a, TailKeeps
<1> SUFFICES ASSUME NEW p \in Objs, Sent(p), NEW i \in DOMAIN toRemote',
                    toRemote'[i].id = localProxied[p].id
             PROVE  \E j \in DOMAIN toRemote' :
                      /\ i <= j /\ toRemote'[j].id = localProxied[p].id
                      /\ toRemote'[j].finalizerId = localProxied[p].finalizerId
  BY <1>a DEF LastCurrent, Sent, Unshared, Exported
<1>1. i + 1 \in DOMAIN toRemote /\ toRemote[i + 1].id = localProxied[p].id
  BY <1>b
<1>2. PICK j \in DOMAIN toRemote :
         /\ i + 1 <= j /\ toRemote[j].id = localProxied[p].id
         /\ toRemote[j].finalizerId = localProxied[p].finalizerId
  BY <1>1 DEF ReclaimInv, LastCurrent
<1>3. j # 1 /\ i <= j - 1
  <2>1. i \in DOMAIN toRemote' /\ i \in Nat /\ j \in Nat /\ i + 1 >= 1
    BY <1>b
  <2>2. i >= 1
    BY <1>a, <1>b, TailFacts, LenProperties
  <2> QED
    BY <1>2, <2>1, <2>2
<1>4. j - 1 \in DOMAIN toRemote' /\ toRemote'[j - 1] = toRemote[j]
  BY <1>c, <1>3
<1> QED
  BY <1>2, <1>3, <1>4

\* The importer takes the current finalizer id over with the reference; an
\* RpcProxy that had it before loses it only to the one that is in flight.
LEMMA DeserializeReclaim ==
  ASSUME TypeInv, ReclaimInv, Deserialize
  PROVE  ReclaimInv'
<1> DEFINE m == Head(toRemote)
<1>1. /\ toRemote # <<>> /\ toRemote \in Seq(References) /\ toRemote' = Tail(toRemote)
      /\ UNCHANGED <<localProxied, localKilled, remoteKilled, toLocal, lost>>
  BY DEF Deserialize, Import, TypeInv, TypeOK, exporter
<1>2. /\ 1 \in DOMAIN toRemote /\ m = toRemote[1]
      /\ \A i \in DOMAIN toRemote' :
           i \in Nat /\ i + 1 \in DOMAIN toRemote /\ toRemote'[i] = toRemote[i + 1]
      /\ \A i \in DOMAIN toRemote : i \in Nat /\ i >= 1
  BY <1>1, TailFacts, LenProperties
<1>3. \A i \in DOMAIN toRemote : i # 1 =>
        i - 1 \in DOMAIN toRemote' /\ toRemote'[i - 1] = toRemote[i]
  BY <1>1, TailKeeps
<1>4. LastCurrent'
  BY <1>1, TailLastCurrent DEF ReclaimInv, TypeInv
<1>5. Carried'
  <2> SUFFICES ASSUME ~localKilled, ~remoteKilled, NEW p \in Objs, Sent(p)
               PROVE  \/ \E i \in DOMAIN toRemote' : Carries(toRemote'[i], localProxied[p])
                      \/ \E i \in DOMAIN toLocal : Carries(toLocal[i], localProxied[p])
                      \/ \E r \in Proxies : Holds(r, localProxied[p])'
    BY <1>1 DEF Carried, Carries, Holds, Alive, Sent, Unshared, Exported
  <2>1. PICK r \in Proxies :
          /\ \/ rpcProxy[r].reach = "unborn"
             \/ rpcProxy[r].id = m.id
          /\ rpcProxy' = [rpcProxy EXCEPT ![r] = Held(m.id, m.finalizerId)]
    BY ImportFacts
  <2>2. /\ rpcProxy'[r] = Held(m.id, m.finalizerId)
        /\ \A s \in Proxies : s # r => rpcProxy'[s] = rpcProxy[s]
    BY <2>1 DEF TypeInv, TypeOK
  <2> HIDE DEF m
  <2>3. ASSUME NEW i \in DOMAIN toRemote, Carries(toRemote[i], localProxied[p])
        PROVE  \/ \E k \in DOMAIN toRemote' : Carries(toRemote'[k], localProxied[p])
               \/ \E s \in Proxies : Holds(s, localProxied[p])'
    <3>1. CASE i = 1
      <4>1. m.id = localProxied[p].id /\ m.finalizerId = localProxied[p].finalizerId
        BY <1>2, <2>3, <3>1 DEF Carries
      <4>2. Holds(r, localProxied[p])'
        BY <1>1, <2>2, <4>1 DEF Holds, Held, Alive
      <4> QED
        BY <4>2
    <3>2. CASE i # 1
      BY <1>3, <2>3, <3>2
    <3> QED
      BY <3>1, <3>2
  <2>4. ASSUME NEW s \in Proxies, Holds(s, localProxied[p])
        PROVE  \/ \E k \in DOMAIN toRemote' : Carries(toRemote'[k], localProxied[p])
               \/ \E t \in Proxies : Holds(t, localProxied[p])'
    <3>1. CASE s # r
      BY <1>1, <2>2, <2>4, <3>1 DEF Holds, Alive
    <3>2. CASE s = r
      <4>1. toRemote[1].id = localProxied[p].id
        BY <1>2, <2>1, <2>4, <3>2 DEF Holds, Alive
      <4>2. PICK j \in DOMAIN toRemote :
               /\ toRemote[j].id = localProxied[p].id
               /\ toRemote[j].finalizerId = localProxied[p].finalizerId
        BY <1>2, <4>1 DEF ReclaimInv, LastCurrent
      <4>3. toRemote[j] \in References
        BY <1>1, LenProperties, ElementOfSeq
      <4>4. Carries(toRemote[j], localProxied[p])
        BY <4>2, <4>3 DEF Carries, References
      <4> QED
        BY <2>3, <4>4
    <3> QED
      BY <3>1, <3>2
  <2> QED
    BY <2>3, <2>4 DEF ReclaimInv, Carried
<1> QED
  BY <1>4, <1>5 DEF ReclaimInv

\* A reference that is not deserialized takes the current finalizer id of no object
\* with it that still counts as sent.
LEMMA DropReclaim ==
  ASSUME TypeOK, ReclaimInv, DropReference
  PROVE  ReclaimInv'
<1> DEFINE m == Head(toRemote)
<1>1. /\ toRemote # <<>> /\ toRemote \in Seq(References) /\ toRemote' = Tail(toRemote)
      /\ UNCHANGED <<localProxied, localKilled, remoteKilled, rpcProxy, toLocal>>
      /\ lost' = lost \cup {o \in Objs : localProxied[o].finalizerId = m.finalizerId}
  BY DEF DropReference, TypeOK, exporter, importer
<1>2. m = toRemote[1]
  BY <1>1, TailFacts
<1> HIDE DEF m
<1>3. ASSUME NEW p \in Objs, Sent(p)'
      PROVE  Sent(p) /\ localProxied[p].finalizerId # m.finalizerId
  BY <1>1, <1>3 DEF Sent, Unshared, Exported
<1>4. LastCurrent'
  BY <1>1, TailLastCurrent DEF ReclaimInv
<1>5. Carried'
  <2> SUFFICES ASSUME ~localKilled, ~remoteKilled, NEW p \in Objs, Sent(p)'
               PROVE  \/ \E i \in DOMAIN toRemote' : Carries(toRemote'[i], localProxied[p])
                      \/ \E i \in DOMAIN toLocal : Carries(toLocal[i], localProxied[p])
                      \/ \E r \in Proxies : Holds(r, localProxied[p])
    BY <1>1 DEF Carried, Carries, Holds, Alive
  <2>1. Sent(p) /\ localProxied[p].finalizerId # m.finalizerId
    BY <1>3
  <2>2. ASSUME NEW i \in DOMAIN toRemote, Carries(toRemote[i], localProxied[p])
        PROVE  \E k \in DOMAIN toRemote' : Carries(toRemote'[k], localProxied[p])
    <3>1. i # 1
      BY <1>2, <2>1, <2>2 DEF Carries
    <3>2. i - 1 \in DOMAIN toRemote' /\ toRemote'[i - 1] = toRemote[i]
      BY <1>1, <3>1, TailKeeps
    <3> QED
      BY <2>2, <3>2
  <2> QED
    BY <2>1, <2>2 DEF ReclaimInv, Carried
<1> QED
  BY <1>4, <1>5 DEF ReclaimInv

\* A message to the exporter is added, and the proxies that are alive still are,
\* unless their finalizer id is in that message.
LEMMA SendReclaim ==
  ASSUME TypeOK, ReclaimInv, NEW q \in Requests, toLocal' = Append(toLocal, q),
         UNCHANGED <<localProxied, localKilled, remoteKilled, toRemote, lost>>,
         \A r \in Proxies : /\ rpcProxy'[r].id = rpcProxy[r].id
                            /\ rpcProxy'[r].finalizerId = rpcProxy[r].finalizerId
                            /\ Alive(r) => \/ Alive(r)'
                                           \/ /\ q.type = "finalize" /\ q.id = rpcProxy[r].id
                                              /\ q.finalizerId = rpcProxy[r].finalizerId
  PROVE  ReclaimInv'
<1>1. LastCurrent'
  BY DEF ReclaimInv, LastCurrent, Sent, Unshared, Exported
<1>2. /\ \A i \in DOMAIN toLocal : i \in DOMAIN toLocal' /\ toLocal'[i] = toLocal[i]
      /\ \E i \in DOMAIN toLocal' : toLocal'[i] = q
  <2>1. toLocal \in Seq(Requests)
    BY DEF TypeOK
  <2>2. \A i \in DOMAIN toLocal : i \in DOMAIN toLocal' /\ toLocal'[i] = toLocal[i]
    BY <2>1, AppendKeeps
  <2>3. \E i \in DOMAIN toLocal' : toLocal'[i] = q
    BY <2>1, AppendKeeps
  <2> QED
    BY <2>2, <2>3
<1>3. Carried'
  <2> SUFFICES ASSUME ~localKilled, ~remoteKilled, NEW p \in Objs, Sent(p)
               PROVE  \/ \E i \in DOMAIN toRemote : Carries(toRemote[i], localProxied[p])
                      \/ \E i \in DOMAIN toLocal' : Carries(toLocal'[i], localProxied[p])
                      \/ \E r \in Proxies : Holds(r, localProxied[p])'
    BY DEF Carried, Carries, Holds, Alive, Sent, Unshared, Exported
  <2>1. ASSUME NEW r \in Proxies, Holds(r, localProxied[p])
        PROVE  Holds(r, localProxied[p])' \/ Carries(q, localProxied[p])
    BY <2>1 DEF Holds, Carries
  <2> QED
    BY <1>2, <2>1 DEF ReclaimInv, Carried
<1> QED
  BY <1>1, <1>3 DEF ReclaimInv

\* An importer that only forgets or collects keeps the ids it has.
LEMMA LetGoFacts ==
  ASSUME TypeOK, NEW r \in Proxies, Forget(r) \/ CollectProxy(r)
  PROVE  /\ \A s \in Proxies : /\ rpcProxy'[s].id = rpcProxy[s].id
                               /\ rpcProxy'[s].finalizerId = rpcProxy[s].finalizerId
                               /\ Alive(s) <=> Alive(s)'
                               /\ rpcProxy'[s].reach = "finalized" <=> rpcProxy[s].reach = "finalized"
                               /\ rpcProxy[s].cleared => rpcProxy'[s].cleared
         /\ UNCHANGED <<localProxied, localProxyMap, localKilled, remoteKilled, toRemote, toLocal, lost>>
<1>1. rpcProxy \in [Proxies -> Instances]
  BY DEF TypeOK
<1>2. CASE Forget(r)
  <2>1. /\ rpcProxy[r].reach \in {"held", "method"}
        /\ UNCHANGED <<localProxied, localProxyMap, localKilled, remoteKilled, toRemote, toLocal, lost>>
    BY <1>2 DEF Forget, Usable, exporter
  <2>2. PICK left \in {"method", "dropped"} : rpcProxy' = [rpcProxy EXCEPT ![r].reach = left]
    BY <1>2 DEF Forget
  <2>3. \A s \in Proxies : s # r => rpcProxy'[s] = rpcProxy[s]
    BY <1>1, <2>2
  <2>4. /\ rpcProxy'[r].id = rpcProxy[r].id /\ rpcProxy'[r].cleared = rpcProxy[r].cleared
        /\ rpcProxy'[r].finalizerId = rpcProxy[r].finalizerId /\ rpcProxy'[r].reach = left
    BY <1>1, <2>2 DEF Instances
  <2>5. Alive(r) /\ Alive(r)' /\ rpcProxy[r].reach # "finalized" /\ rpcProxy'[r].reach # "finalized"
    BY <2>1, <2>2, <2>4 DEF Alive
  <2> QED
    BY <2>1, <2>3, <2>4, <2>5 DEF Alive
<1>3. CASE CollectProxy(r)
  <2>1. /\ rpcProxy' = [rpcProxy EXCEPT ![r].cleared = TRUE]
        /\ UNCHANGED <<localProxied, localProxyMap, localKilled, remoteKilled, toRemote, toLocal, lost>>
    BY <1>3 DEF CollectProxy, exporter
  <2>2. \A s \in Proxies : s # r => rpcProxy'[s] = rpcProxy[s]
    BY <1>1, <2>1
  <2>3. /\ rpcProxy'[r].id = rpcProxy[r].id /\ rpcProxy'[r].cleared
        /\ rpcProxy'[r].finalizerId = rpcProxy[r].finalizerId
        /\ rpcProxy'[r].reach = rpcProxy[r].reach
    BY <1>1, <2>1 DEF Instances
  <2> QED
    BY <2>1, <2>2, <2>3 DEF Alive
<1> QED
  BY <1>2, <1>3

\* What a finalized RpcProxy sends, and that it is finalized.
LEMMA FinalizeFacts ==
  ASSUME TypeInv, NEW r \in Proxies, Finalize(r)
  PROVE  LET m == [type |-> "finalize", id |-> rpcProxy[r].id,
                   finalizerId |-> rpcProxy[r].finalizerId]
         IN /\ m \in Requests /\ toLocal' = Append(toLocal, m)
            /\ UNCHANGED <<localProxied, localProxyMap, localKilled, remoteKilled, toRemote, lost>>
            /\ rpcProxy[r].cleared /\ Alive(r) /\ rpcProxy'[r].reach = "finalized"
            /\ \A s \in Proxies : /\ rpcProxy'[s].id = rpcProxy[s].id
                                  /\ rpcProxy'[s].finalizerId = rpcProxy[s].finalizerId
                                  /\ rpcProxy'[s].cleared = rpcProxy[s].cleared
                                  /\ s # r => rpcProxy'[s] = rpcProxy[s]
<1> DEFINE m == [type |-> "finalize", id |-> rpcProxy[r].id,
                 finalizerId |-> rpcProxy[r].finalizerId]
<1>1. /\ rpcProxy[r].reach = "dropped" /\ rpcProxy[r].cleared
      /\ rpcProxy' = [rpcProxy EXCEPT ![r].reach = "finalized"]
      /\ toLocal' = Append(toLocal, m)
      /\ UNCHANGED <<localProxied, localProxyMap, localKilled, remoteKilled, toRemote, lost>>
  BY DEF Finalize, RunFinalizer, exporter
<1>2. m \in Requests
  BY <1>1 DEF TypeInv, BornHasIds, Requests
<1>3. rpcProxy \in [Proxies -> Instances]
  BY DEF TypeInv, TypeOK
<1>4. \A s \in Proxies : s # r => rpcProxy'[s] = rpcProxy[s]
  BY <1>1, <1>3
<1>5. /\ rpcProxy'[r].id = rpcProxy[r].id /\ rpcProxy'[r].reach = "finalized"
      /\ rpcProxy'[r].finalizerId = rpcProxy[r].finalizerId
      /\ rpcProxy'[r].cleared = rpcProxy[r].cleared
  BY <1>1, <1>3 DEF Instances
<1>6. Alive(r)
  BY <1>1 DEF Alive
<1> HIDE DEF m
<1>7. /\ m \in Requests /\ toLocal' = Append(toLocal, m)
      /\ UNCHANGED <<localProxied, localProxyMap, localKilled, remoteKilled, toRemote, lost>>
      /\ rpcProxy[r].cleared /\ Alive(r) /\ rpcProxy'[r].reach = "finalized"
      /\ \A s \in Proxies : /\ rpcProxy'[s].id = rpcProxy[s].id
                            /\ rpcProxy'[s].finalizerId = rpcProxy[s].finalizerId
                            /\ rpcProxy'[s].cleared = rpcProxy[s].cleared
                            /\ s # r => rpcProxy'[s] = rpcProxy[s]
  BY <1>1, <1>2, <1>4, <1>5, <1>6
<1> QED
  BY <1>7 DEF m

\* What a call sends: an apply, which carries no finalizer id.
LEMMA CallFacts ==
  ASSUME TypeInv, NEW r \in Proxies, CallProxy(r)
  PROVE  /\ \E m \in Requests : m.type = "apply" /\ toLocal' = Append(toLocal, m)
         /\ UNCHANGED <<localProxied, localProxyMap, localKilled, remoteKilled, toRemote, rpcProxy, lost>>
<1>1. PICK arg \in {None} \cup {rpcProxy[s].id : s \in {t \in Proxies : Usable(t)}} :
        toLocal' = Append(toLocal, [type |-> "apply", id |-> rpcProxy[r].id, arg |-> arg])
  BY DEF CallProxy
<1> DEFINE m == [type |-> "apply", id |-> rpcProxy[r].id, arg |-> arg]
<1>2. rpcProxy[r].id \in Ids /\ arg \in Ids \cup {None}
  BY DEF CallProxy, Usable, TypeInv, BornHasIds
<1>3. m \in Requests /\ m.type = "apply" /\ toLocal' = Append(toLocal, m)
  BY <1>1, <1>2 DEF Requests
<1>4. UNCHANGED <<localProxied, localProxyMap, localKilled, remoteKilled, toRemote, rpcProxy, lost>>
  BY DEF CallProxy, exporter, importer
<1> HIDE DEF m
<1> QED
  BY <1>3, <1>4

\* Every step keeps the current finalizer ids of what is exported.
LEMMA ReclaimStep ==
  ASSUME ExporterInv, ReclaimInv, [Next]_vars
  PROVE  ReclaimInv'
<1>0. TypeInv /\ TypeOK /\ MapsAgree
  BY DEF ExporterInv, TypeInv
<1>m. EntryIds' /\ MapsAgree'
  BY ExporterStep
<1>1. ASSUME NEW o \in Objs, SendArgument(o) PROVE ReclaimInv'
  BY <1>0, <1>m, <1>1, SerializeReclaim DEF SendArgument, importer
<1>2. CASE HandleApply
  <2>1. /\ toLocal # <<>> /\ Head(toLocal).type = "apply" /\ toLocal' = Tail(toLocal)
        /\ UNCHANGED <<localProxied, localKilled, remoteKilled, rpcProxy, toRemote, lost>>
    BY <1>2 DEF HandleApply, importer
  <2> QED
    BY <1>0, <2>1, RequestReclaim DEF Carries, Sent, Unshared, Exported
<1>u. ASSUME UNCHANGED <<localProxied, localKilled, remoteKilled, rpcProxy, toRemote, toLocal, lost>>
      PROVE  ReclaimInv'
  BY <1>u DEF ReclaimInv, LastCurrent, Carried, Carries, Holds, Alive, Sent, Unshared, Exported
<1>3. CASE FinishApply
  <2>1. UNCHANGED <<localKilled, remoteKilled, rpcProxy, toLocal>>
    BY <1>3 DEF FinishApply, importer
  <2>2. CASE \E o \in Objs, sent \in BOOLEAN : Serialize(o, sent)
    BY <1>0, <1>m, <2>1, <2>2, SerializeReclaim
  <2>3. CASE UNCHANGED <<nextId, localProxied, localProxyMap, toRemote, lost>>
    BY <1>u, <2>1, <2>3
  <2> QED
    BY <1>3, <2>2, <2>3 DEF FinishApply
<1>4. CASE HandleFinalize
  BY <1>4, FinalizedReclaim
<1>5. CASE KillLocal
  BY <1>5 DEF KillLocal, ReclaimInv, LastCurrent, Carried, Sent, Unshared, Exported, NoEntry
<1>6. CASE Deserialize
  BY <1>0, <1>6, DeserializeReclaim
<1>7. CASE KillRemote
  BY <1>7 DEF KillRemote, exporter, ReclaimInv, LastCurrent, Carried, Sent, Unshared, Exported
<1>8. ASSUME NEW r \in Proxies, CallProxy(r) PROVE ReclaimInv'
  <2>1. PICK m \in Requests : toLocal' = Append(toLocal, m)
    BY <1>0, <1>8, CallFacts
  <2>2. UNCHANGED <<localProxied, localKilled, remoteKilled, toRemote, rpcProxy, lost>>
    BY <1>0, <1>8, CallFacts
  <2> QED
    BY <1>0, <2>1, <2>2, SendReclaim DEF Alive
<1>9. ASSUME NEW r \in Proxies, Forget(r) \/ CollectProxy(r) PROVE ReclaimInv'
  <2>1. /\ \A s \in Proxies : /\ rpcProxy'[s].id = rpcProxy[s].id
                              /\ rpcProxy'[s].finalizerId = rpcProxy[s].finalizerId
                              /\ Alive(s) <=> Alive(s)'
        /\ UNCHANGED <<localProxied, localKilled, remoteKilled, toRemote, toLocal, lost>>
    BY <1>0, <1>9, LetGoFacts
  <2>2. LastCurrent'
    BY <2>1 DEF ReclaimInv, LastCurrent, Sent, Unshared, Exported
  <2>3. \A s \in Proxies : \A p \in Objs :
          Holds(s, localProxied[p]) => Holds(s, localProxied[p])'
    BY <2>1 DEF Holds
  <2>4. Carried'
    BY <2>1, <2>3 DEF ReclaimInv, Carried, Sent, Unshared, Exported
  <2> QED
    BY <2>2, <2>4 DEF ReclaimInv
<1>10. ASSUME NEW r \in Proxies, Finalize(r) PROVE ReclaimInv'
  <2> DEFINE m == [type |-> "finalize", id |-> rpcProxy[r].id,
                   finalizerId |-> rpcProxy[r].finalizerId]
  <2>1. /\ m.type = "finalize" /\ m.id = rpcProxy[r].id /\ m.finalizerId = rpcProxy[r].finalizerId
    OBVIOUS
  <2>2. /\ m \in Requests /\ toLocal' = Append(toLocal, m)
        /\ UNCHANGED <<localProxied, localKilled, remoteKilled, toRemote, lost>>
        /\ \A s \in Proxies : /\ rpcProxy'[s].id = rpcProxy[s].id
                              /\ rpcProxy'[s].finalizerId = rpcProxy[s].finalizerId
                              /\ s # r => rpcProxy'[s] = rpcProxy[s]
    BY <1>0, <1>10, FinalizeFacts
  <2> HIDE DEF m
  <2>3. \A s \in Proxies : /\ rpcProxy'[s].id = rpcProxy[s].id
                           /\ rpcProxy'[s].finalizerId = rpcProxy[s].finalizerId
                           /\ Alive(s) => \/ Alive(s)'
                                          \/ /\ m.type = "finalize" /\ m.id = rpcProxy[s].id
                                             /\ m.finalizerId = rpcProxy[s].finalizerId
    BY <2>1, <2>2 DEF Alive
  <2> QED
    BY <1>0, <2>2, <2>3, SendReclaim
<1>11. CASE UNCHANGED vars
  BY <1>u, <1>11 DEF vars, exporter, importer
<1>12. CASE DropReference
  BY <1>0, <1>12, DropReclaim
<1> QED
  BY <1>1, <1>2, <1>3, <1>4, <1>5, <1>6, <1>7, <1>8, <1>9, <1>10, <1>11, <1>12 DEF Next

\* Theorem: whatever is exported and was sent when it was last serialized can be
\* released: its current finalizer id is in flight to the importer, with an
\* RpcProxy, or in flight back. The induction needs that it is in the last of the
\* references in flight, or else an RpcProxy could exchange it for an older one.
THEOREM ReclaimCorrect == Spec => []Reclaimable
<1>1. Init => ExporterInv /\ ReclaimInv
  <2>1. Init => ReclaimInv
    BY DEF Init, ReclaimInv, LastCurrent, Carried, Sent, Exported, NoEntry
  <2> QED
    BY <2>1, ExporterInit
<1>2. ExporterInv /\ ReclaimInv /\ [Next]_vars => (ExporterInv /\ ReclaimInv)'
  BY TypeStep, ExporterStep, ReclaimStep DEF ExporterInv
<1>3. ReclaimInv => Reclaimable
  BY DEF ReclaimInv, Carried, Carries, Holds, Alive, Sent, Reclaimable
<1> QED
  BY <1>1, <1>2, <1>3, PTL DEF Spec
-----------------------------------------------------------------------------
(* Lone proxies *)
\* An id that was finalized at least once.
Finalized(ps, i) == \E r \in Proxies : ps[r].reach = "finalized" /\ ps[r].id = i

\* A finalize message comes from an RpcProxy that is finalized for good: its
\* WeakRef was cleared before.
FinalizersKnown ==
  /\ \A r \in Proxies : rpcProxy[r].reach = "finalized" => rpcProxy[r].cleared
  /\ \A i \in DOMAIN toLocal : toLocal[i].type = "finalize" => Finalized(rpcProxy, toLocal[i].id)

\* An id that the importer may use and never finalized is exported.
NeverReleased ==
  ~localKilled =>
    /\ \A i \in DOMAIN toRemote :
         Finalized(rpcProxy, toRemote[i].id) \/ localProxyMap[toRemote[i].id] # None
    /\ \A r \in Proxies : Alive(r) =>
         Finalized(rpcProxy, rpcProxy[r].id) \/ localProxyMap[rpcProxy[r].id] # None

\* The id of an exported object that was never finalized resolves, be it to the
\* object or to another one with the same id.
EntriesResolve ==
  \A o \in Objs : Exported(o) =>
    Finalized(rpcProxy, localProxied[o].id) \/ localProxyMap[localProxied[o].id] # None

LoneInv == FinalizersKnown /\ NeverReleased /\ EntriesResolve

\* What is finalized stays so.
LEMMA FinalizedStays ==
  ASSUME \A r \in Proxies : rpcProxy[r].reach = "finalized" =>
           rpcProxy'[r].reach = "finalized" /\ rpcProxy'[r].id = rpcProxy[r].id,
         NEW i, Finalized(rpcProxy, i)
  PROVE  Finalized(rpcProxy', i)
BY DEF Finalized

\* The ids of references in flight, and of proxies that are alive, are proxy ids.
LEMMA KnownIds ==
  ASSUME TypeInv
  PROVE  /\ \A i \in DOMAIN toRemote : toRemote[i].id \in Ids
         /\ \A r \in Proxies : Alive(r) => rpcProxy[r].id \in Ids
<1>1. \A i \in DOMAIN toRemote : toRemote[i] \in References
  BY LenProperties, ElementOfSeq DEF TypeInv, TypeOK
<1>2. \A i \in DOMAIN toRemote : toRemote[i].id \in Ids
  BY <1>1 DEF References
<1>3. \A r \in Proxies : Alive(r) => rpcProxy[r].id \in Ids
  BY DEF TypeInv, BornHasIds, Alive
<1> QED
  BY <1>2, <1>3

\* What is serialized resolves, unless its id was finalized; no id leaves the map.
LEMMA SerializeLone ==
  ASSUME TypeInv, LoneInv, NEW o \in Objs, NEW sent \in BOOLEAN, Serialize(o, sent),
         UNCHANGED <<localKilled, rpcProxy, toLocal>>
  PROVE  LoneInv'
<1>0. PICK id \in Ids, fid \in Ids : SerializedAs(o, sent, id, fid)
  BY SerializeFacts DEF TypeInv
<1> DEFINE new == [type |-> "ref", id |-> id, finalizerId |-> fid]
<1>1. toRemote' = Append(toRemote, new) \/ toRemote' = toRemote
  BY <1>0 DEF SerializedAs
<1>2. new \in References /\ new.id = id
  BY DEF References
<1> HIDE DEF new
<1>3. \A i \in DOMAIN toRemote' :
        (i \in DOMAIN toRemote /\ toRemote'[i] = toRemote[i]) \/ toRemote'[i] = new
  BY <1>1, <1>2, AppendFacts DEF TypeInv, TypeOK
<1>4. /\ Finalized(rpcProxy, id) \/ localProxyMap'[id] # None
      /\ \A i \in Ids : localProxyMap[i] # None => localProxyMap'[i] # None
  <2>1. CASE Exported(o)
    <3>1. id = localProxied[o].id /\ localProxyMap' = localProxyMap
      BY <1>0, <2>1 DEF SerializedAs
    <3> QED
      BY <2>1, <3>1 DEF LoneInv, EntriesResolve
  <2>2. CASE ~Exported(o)
    <3>1. /\ localProxyMap'[id] = o /\ o # None
          /\ \A i \in Ids : i # id => localProxyMap'[i] = localProxyMap[i]
      BY <1>0, <2>2, ObjectsAssumption DEF TypeInv, TypeOK, SerializedAs
    <3> QED
      BY <3>1
  <2> QED
    BY <2>1, <2>2
<1>5. FinalizersKnown'
  BY DEF LoneInv, FinalizersKnown, Finalized
<1>6. NeverReleased'
  <2> SUFFICES ASSUME ~localKilled
               PROVE  /\ \A i \in DOMAIN toRemote' :
                           Finalized(rpcProxy, toRemote'[i].id) \/ localProxyMap'[toRemote'[i].id] # None
                      /\ \A r \in Proxies : Alive(r) =>
                           Finalized(rpcProxy, rpcProxy[r].id) \/ localProxyMap'[rpcProxy[r].id] # None
    BY DEF NeverReleased, Finalized, Alive
  <2>1. /\ \A i \in DOMAIN toRemote :
             Finalized(rpcProxy, toRemote[i].id) \/ localProxyMap[toRemote[i].id] # None
        /\ \A r \in Proxies : Alive(r) =>
             Finalized(rpcProxy, rpcProxy[r].id) \/ localProxyMap[rpcProxy[r].id] # None
    BY DEF LoneInv, NeverReleased
  <2> QED
    BY <1>2, <1>3, <1>4, <2>1, KnownIds
<1>7. EntriesResolve'
  <2> SUFFICES ASSUME NEW p \in Objs, Exported(p)'
               PROVE  \/ Finalized(rpcProxy, localProxied'[p].id)
                      \/ localProxyMap'[localProxied'[p].id] # None
    BY DEF EntriesResolve, Finalized
  <2>1. CASE p = o
    BY <1>0, <1>4, <2>1 DEF SerializedAs, TypeInv, TypeOK
  <2>2. CASE p # o
    <3>1. Exported(p) /\ localProxied'[p] = localProxied[p]
      BY <1>0, <2>2 DEF SerializedAs, TypeInv, TypeOK, Exported
    <3>2. localProxied[p].id \in Ids
      BY <3>1 DEF TypeInv, TypeOK, Exported, Entries, NoEntry
    <3> QED
      BY <1>4, <3>1, <3>2 DEF LoneInv, EntriesResolve
  <2> QED
    BY <2>1, <2>2
<1> QED
  BY <1>5, <1>6, <1>7 DEF LoneInv

\* A request that is received releases an id that is finalized, or none.
LEMMA RequestLone ==
  ASSUME TypeInv, LoneInv, toLocal # <<>>, toLocal' = Tail(toLocal),
         UNCHANGED <<localKilled, rpcProxy, toRemote>>,
         \A i \in Ids : localProxyMap'[i] # localProxyMap[i] => Finalized(rpcProxy, i),
         \A o \in Objs : Exported(o)' => localProxied'[o] = localProxied[o]
  PROVE  LoneInv'
<1>1. \A j \in DOMAIN toLocal' : j + 1 \in DOMAIN toLocal /\ toLocal'[j] = toLocal[j + 1]
  BY TailFacts DEF TypeInv, TypeOK
<1>2. FinalizersKnown'
  BY <1>1 DEF LoneInv, FinalizersKnown, Finalized
<1>3. NeverReleased'
  <2> SUFFICES ASSUME ~localKilled
               PROVE  /\ \A i \in DOMAIN toRemote :
                           Finalized(rpcProxy, toRemote[i].id) \/ localProxyMap'[toRemote[i].id] # None
                      /\ \A r \in Proxies : Alive(r) =>
                           Finalized(rpcProxy, rpcProxy[r].id) \/ localProxyMap'[rpcProxy[r].id] # None
    BY DEF NeverReleased, Finalized, Alive
  <2> QED
    BY KnownIds DEF LoneInv, NeverReleased
<1>4. EntriesResolve'
  <2> SUFFICES ASSUME NEW o \in Objs, Exported(o)'
               PROVE  \/ Finalized(rpcProxy, localProxied'[o].id)
                      \/ localProxyMap'[localProxied'[o].id] # None
    BY DEF EntriesResolve, Finalized
  <2>1. Exported(o) /\ localProxied'[o] = localProxied[o]
    BY DEF Exported
  <2>2. localProxied[o].id \in Ids
    BY <2>1 DEF TypeInv, TypeOK, Exported, Entries, NoEntry
  <2> QED
    BY <2>1, <2>2 DEF LoneInv, EntriesResolve
<1> QED
  BY <1>2, <1>3, <1>4 DEF LoneInv

\* A finalize that arrives releases no object whose only proxy is alive.
LEMMA FinalizedLone ==
  ASSUME TypeInv, LoneInv, HandleFinalize
  PROVE  LoneInv'
<1> DEFINE m == Head(toLocal)
<1>1. /\ toLocal # <<>> /\ m.type = "finalize" /\ toLocal' = Tail(toLocal)
      /\ UNCHANGED <<localKilled, rpcProxy, toRemote>>
  BY ReleaseFacts DEF importer, TypeInv
<1>2. localProxyMap' = localProxyMap \/ localProxyMap' = [localProxyMap EXCEPT ![m.id] = None]
  BY DEF HandleFinalize, Release
<1>3. 1 \in DOMAIN toLocal /\ m = toLocal[1]
  BY <1>1, TailFacts DEF TypeInv, TypeOK
<1>4. Finalized(rpcProxy, m.id)
  BY <1>1, <1>3 DEF LoneInv, FinalizersKnown
<1> HIDE DEF m
<1>5. \A i \in Ids : localProxyMap'[i] # localProxyMap[i] => i = m.id
  BY <1>2 DEF TypeInv, TypeOK
<1>6. \A o \in Objs : Exported(o)' => localProxied'[o] = localProxied[o]
  BY ReleaseFacts DEF TypeInv, TypeOK, Exported, NoEntry
<1> QED
  BY <1>1, <1>4, <1>5, <1>6, RequestLone DEF m

\* A reference that is received becomes an RpcProxy that is alive; the one that
\* is used again was not finalized.
LEMMA DeserializeLone ==
  ASSUME TypeInv, LoneInv, Deserialize
  PROVE  LoneInv'
<1> DEFINE m == Head(toRemote)
<1>1. /\ toRemote # <<>> /\ toRemote \in Seq(References) /\ toRemote' = Tail(toRemote)
      /\ UNCHANGED <<localProxied, localProxyMap, localKilled, toLocal>>
  BY DEF Deserialize, Import, TypeInv, TypeOK, exporter
<1>2. /\ 1 \in DOMAIN toRemote /\ m = toRemote[1]
      /\ \A i \in DOMAIN toRemote' : i + 1 \in DOMAIN toRemote /\ toRemote'[i] = toRemote[i + 1]
  BY <1>1, TailFacts
<1>3. CASE UNCHANGED rpcProxy
  <2>1. FinalizersKnown'
    BY <1>1, <1>3 DEF LoneInv, FinalizersKnown, Finalized
  <2>2. NeverReleased'
    BY <1>1, <1>2, <1>3 DEF LoneInv, NeverReleased, Finalized, Alive
  <2>3. EntriesResolve'
    BY <1>1, <1>3 DEF LoneInv, EntriesResolve, Finalized, Exported
  <2> QED
    BY <2>1, <2>2, <2>3 DEF LoneInv
<1>4. ASSUME NEW r \in Proxies,
             \/ rpcProxy[r].reach = "unborn"
             \/ rpcProxy[r].id = m.id /\ ~rpcProxy[r].cleared,
             rpcProxy' = [rpcProxy EXCEPT ![r] = Held(m.id, m.finalizerId)]
      PROVE  LoneInv'
  <2> HIDE DEF m
  <2>1. rpcProxy[r].reach # "finalized"
    BY <1>4 DEF LoneInv, FinalizersKnown
  <2>2. /\ rpcProxy'[r].id = m.id /\ rpcProxy'[r].reach = "held"
        /\ \A s \in Proxies : s # r => rpcProxy'[s] = rpcProxy[s]
    BY <1>4 DEF TypeInv, TypeOK, Held
  <2>3. \A i : Finalized(rpcProxy', i) <=> Finalized(rpcProxy, i)
    BY <2>1, <2>2 DEF Finalized
  <2>4. FinalizersKnown'
    BY <1>1, <2>1, <2>2, <2>3 DEF LoneInv, FinalizersKnown
  <2>5. NeverReleased'
    <3> SUFFICES ASSUME ~localKilled
                 PROVE  /\ \A i \in DOMAIN toRemote' :
                             Finalized(rpcProxy', toRemote'[i].id) \/ localProxyMap[toRemote'[i].id] # None
                        /\ \A s \in Proxies : Alive(s)' =>
                             Finalized(rpcProxy', rpcProxy'[s].id) \/ localProxyMap[rpcProxy'[s].id] # None
      BY <1>1 DEF NeverReleased, Finalized, Alive
    <3>1. \A i \in DOMAIN toRemote :
            Finalized(rpcProxy, toRemote[i].id) \/ localProxyMap[toRemote[i].id] # None
      BY DEF LoneInv, NeverReleased
    <3>2. \A i \in DOMAIN toRemote' :
            Finalized(rpcProxy', toRemote'[i].id) \/ localProxyMap[toRemote'[i].id] # None
      BY <1>2, <2>3, <3>1
    <3>3. ASSUME NEW s \in Proxies, Alive(s)'
          PROVE  Finalized(rpcProxy', rpcProxy'[s].id) \/ localProxyMap[rpcProxy'[s].id] # None
      <4>1. CASE s = r
        BY <1>2, <2>2, <2>3, <3>1, <4>1
      <4>2. CASE s # r
        <5>1. Alive(s) /\ rpcProxy'[s] = rpcProxy[s]
          BY <2>2, <3>3, <4>2 DEF Alive
        <5> QED
          BY <2>3, <5>1 DEF LoneInv, NeverReleased
      <4> QED
        BY <4>1, <4>2
    <3> QED
      BY <3>2, <3>3
  <2>6. EntriesResolve'
    BY <1>1, <2>3 DEF LoneInv, EntriesResolve, Exported
  <2> QED
    BY <2>4, <2>5, <2>6 DEF LoneInv
<1> QED
  BY <1>3, <1>4, ImportFacts

\* A reference that is not deserialized leaves what was exported as it was.
LEMMA DropLone ==
  ASSUME TypeInv, LoneInv, DropReference
  PROVE  LoneInv'
<1>1. /\ toRemote # <<>> /\ toRemote \in Seq(References) /\ toRemote' = Tail(toRemote)
      /\ UNCHANGED <<localProxied, localProxyMap, localKilled, toLocal, rpcProxy>>
  BY DEF DropReference, TypeInv, TypeOK, exporter, importer
<1>2. \A i \in DOMAIN toRemote' : i + 1 \in DOMAIN toRemote /\ toRemote'[i] = toRemote[i + 1]
  BY <1>1, TailFacts
<1>3. FinalizersKnown' /\ EntriesResolve'
  BY <1>1 DEF LoneInv, FinalizersKnown, EntriesResolve, Finalized, Exported
<1>4. NeverReleased'
  BY <1>1, <1>2 DEF LoneInv, NeverReleased, Finalized, Alive
<1> QED
  BY <1>3, <1>4 DEF LoneInv

\* A message to the exporter is added whose id, when it is a finalize, is that
\* of an RpcProxy that is finalized now.
LEMMA SendLone ==
  ASSUME TypeInv, LoneInv, NEW q \in Requests, toLocal' = Append(toLocal, q),
         UNCHANGED <<localProxied, localProxyMap, localKilled, toRemote>>,
         q.type = "finalize" => Finalized(rpcProxy', q.id),
         \A r \in Proxies :
           /\ rpcProxy'[r].id = rpcProxy[r].id /\ rpcProxy'[r].cleared = rpcProxy[r].cleared
           /\ rpcProxy[r].reach = "finalized" => rpcProxy'[r].reach = "finalized"
           /\ Alive(r)' => Alive(r)
           /\ rpcProxy'[r].reach = "finalized" => rpcProxy[r].cleared
  PROVE  LoneInv'
<1>1. \A i : Finalized(rpcProxy, i) => Finalized(rpcProxy', i)
  BY FinalizedStays
<1>2. \A j \in DOMAIN toLocal' :
        (j \in DOMAIN toLocal /\ toLocal'[j] = toLocal[j]) \/ toLocal'[j] = q
  BY AppendFacts DEF TypeInv, TypeOK
<1>3. FinalizersKnown'
  <2>1. \A j \in DOMAIN toLocal' : toLocal'[j].type = "finalize" => Finalized(rpcProxy', toLocal'[j].id)
    BY <1>1, <1>2 DEF LoneInv, FinalizersKnown
  <2>2. \A r \in Proxies : rpcProxy'[r].reach = "finalized" => rpcProxy'[r].cleared
    OBVIOUS
  <2> QED
    BY <2>1, <2>2 DEF FinalizersKnown, Finalized
<1>4. NeverReleased'
  <2> SUFFICES ASSUME ~localKilled
               PROVE  /\ \A i \in DOMAIN toRemote :
                           Finalized(rpcProxy', toRemote[i].id) \/ localProxyMap[toRemote[i].id] # None
                      /\ \A r \in Proxies : Alive(r)' =>
                           Finalized(rpcProxy', rpcProxy[r].id) \/ localProxyMap[rpcProxy[r].id] # None
    BY DEF NeverReleased, Finalized, Alive
  <2> QED
    BY <1>1 DEF LoneInv, NeverReleased
<1>5. EntriesResolve'
  BY <1>1 DEF LoneInv, EntriesResolve, Exported
<1> QED
  BY <1>3, <1>4, <1>5 DEF LoneInv

\* Every step keeps exported what was never finalized.
LEMMA LoneStep ==
  ASSUME ExporterInv, LoneInv, [Next]_vars
  PROVE  LoneInv'
<1>0. TypeInv /\ TypeOK
  BY DEF ExporterInv, TypeInv
<1>u. ASSUME UNCHANGED <<localProxied, localProxyMap, localKilled, rpcProxy, toRemote, toLocal>>
      PROVE  LoneInv'
  BY <1>u DEF LoneInv, FinalizersKnown, NeverReleased, EntriesResolve, Exported, Finalized, Alive
<1>1. ASSUME NEW o \in Objs, SendArgument(o) PROVE LoneInv'
  BY <1>0, <1>1, SerializeLone DEF SendArgument, importer
<1>2. CASE HandleApply
  <2>1. /\ toLocal # <<>> /\ toLocal' = Tail(toLocal)
        /\ UNCHANGED <<localProxied, localProxyMap, localKilled, rpcProxy, toRemote>>
    BY <1>2 DEF HandleApply, importer
  <2> QED
    BY <1>0, <2>1, RequestLone
<1>3. CASE FinishApply
  <2>1. UNCHANGED <<localKilled, rpcProxy, toLocal>>
    BY <1>3 DEF FinishApply, importer
  <2>2. CASE \E o \in Objs, sent \in BOOLEAN : Serialize(o, sent)
    BY <1>0, <2>1, <2>2, SerializeLone
  <2>3. CASE UNCHANGED <<nextId, localProxied, localProxyMap, toRemote, lost>>
    BY <1>u, <2>1, <2>3
  <2> QED
    BY <1>3, <2>2, <2>3 DEF FinishApply
<1>4. CASE HandleFinalize
  BY <1>0, <1>4, FinalizedLone
<1>5. CASE KillLocal
  BY <1>5 DEF KillLocal, importer, LoneInv, FinalizersKnown, NeverReleased, EntriesResolve,
              Exported, NoEntry, Finalized
<1>6. CASE Deserialize
  BY <1>0, <1>6, DeserializeLone
<1>7. CASE KillRemote
  BY <1>u, <1>7 DEF KillRemote, exporter
<1>8. ASSUME NEW r \in Proxies, CallProxy(r) PROVE LoneInv'
  <2>1. PICK m \in Requests : m.type = "apply" /\ toLocal' = Append(toLocal, m)
    BY <1>0, <1>8, CallFacts
  <2>2. UNCHANGED <<localProxied, localProxyMap, localKilled, toRemote, rpcProxy>>
    BY <1>0, <1>8, CallFacts
  <2>3. \A s \in Proxies : Alive(s)' => Alive(s)
    BY <2>2 DEF Alive
  <2>4. \A s \in Proxies : rpcProxy[s].reach = "finalized" => rpcProxy[s].cleared
    BY DEF LoneInv, FinalizersKnown
  <2> QED
    BY <1>0, <2>1, <2>2, <2>3, <2>4, SendLone
<1>9. ASSUME NEW r \in Proxies, Forget(r) \/ CollectProxy(r) PROVE LoneInv'
  <2>1. /\ \A s \in Proxies : /\ rpcProxy'[s].id = rpcProxy[s].id
                              /\ Alive(s) <=> Alive(s)'
                              /\ rpcProxy'[s].reach = "finalized" <=> rpcProxy[s].reach = "finalized"
                              /\ rpcProxy[s].cleared => rpcProxy'[s].cleared
        /\ UNCHANGED <<localProxied, localProxyMap, localKilled, toRemote, toLocal>>
    BY <1>0, <1>9, LetGoFacts
  <2>2. \A i : Finalized(rpcProxy, i) <=> Finalized(rpcProxy', i)
    BY <2>1 DEF Finalized
  <2>3. FinalizersKnown'
    BY <2>1, <2>2 DEF LoneInv, FinalizersKnown
  <2>4. NeverReleased'
    BY <2>1, <2>2 DEF LoneInv, NeverReleased
  <2>5. EntriesResolve'
    BY <2>1, <2>2 DEF LoneInv, EntriesResolve, Exported
  <2> QED
    BY <2>3, <2>4, <2>5 DEF LoneInv
<1>10. ASSUME NEW r \in Proxies, Finalize(r) PROVE LoneInv'
  <2> DEFINE m == [type |-> "finalize", id |-> rpcProxy[r].id,
                   finalizerId |-> rpcProxy[r].finalizerId]
  <2>1. m.id = rpcProxy[r].id
    OBVIOUS
  <2>2. /\ m \in Requests /\ toLocal' = Append(toLocal, m)
        /\ UNCHANGED <<localProxied, localProxyMap, localKilled, toRemote>>
        /\ rpcProxy[r].cleared /\ Alive(r) /\ rpcProxy'[r].reach = "finalized"
        /\ \A s \in Proxies : /\ rpcProxy'[s].id = rpcProxy[s].id
                              /\ rpcProxy'[s].cleared = rpcProxy[s].cleared
                              /\ s # r => rpcProxy'[s] = rpcProxy[s]
    BY <1>0, <1>10, FinalizeFacts
  <2> HIDE DEF m
  <2>3. Finalized(rpcProxy', m.id)
    BY <2>1, <2>2 DEF Finalized
  <2>4. ASSUME NEW s \in Proxies
        PROVE  /\ rpcProxy[s].reach = "finalized" => rpcProxy'[s].reach = "finalized"
               /\ Alive(s)' => Alive(s)
               /\ rpcProxy'[s].reach = "finalized" => rpcProxy[s].cleared
    BY <2>2 DEF Alive, LoneInv, FinalizersKnown
  <2> QED
    BY <1>0, <2>2, <2>3, <2>4, SendLone
<1>11. CASE UNCHANGED vars
  BY <1>u, <1>11 DEF vars, exporter, importer
<1>12. CASE DropReference
  BY <1>0, <1>12, DropLone
<1> QED
  BY <1>1, <1>2, <1>3, <1>4, <1>5, <1>6, <1>7, <1>8, <1>9, <1>10, <1>11, <1>12 DEF Next

\* Theorem: an RpcProxy that can be called resolves at the exporter as long as
\* it is the only one the importer built for its id. Only an RpcProxy that is
\* finalized for good sends a finalize message.
THEOREM LoneCorrect == Spec => []LoneProxyExported
<1>1. Init => ExporterInv /\ LoneInv
  <2>1. Init => LoneInv
    BY DEF Init, LoneInv, FinalizersKnown, NeverReleased, EntriesResolve, Exported, NoEntry,
           Finalized, Alive
  <2> QED
    BY <2>1, ExporterInit
<1>2. ExporterInv /\ LoneInv /\ [Next]_vars => (ExporterInv /\ LoneInv)'
  BY TypeStep, ExporterStep, LoneStep DEF ExporterInv
<1>3. LoneInv => LoneProxyExported
  <2> SUFFICES ASSUME LoneInv, ~localKilled, NEW r \in Proxies, Usable(r),
                      \A s \in Proxies \ {r} : rpcProxy[s].id # rpcProxy[r].id
               PROVE  localProxyMap[rpcProxy[r].id] # None
    BY DEF LoneProxyExported
  <2>1. Alive(r) /\ rpcProxy[r].reach # "finalized"
    BY DEF Alive, Usable
  <2>2. ~Finalized(rpcProxy, rpcProxy[r].id)
    BY <2>1 DEF Finalized
  <2> QED
    BY <2>1, <2>2 DEF LoneInv, NeverReleased
<1> QED
  BY <1>1, <1>2, <1>3, PTL DEF Spec
=============================================================================
