----------------------------- MODULE RpcObjects -----------------------------
(***************************************************************************)
(* The distributed object lifetime protocol of server/src/rpc.ts.          *)
(*                                                                         *)
(* An RpcPeer that sends an object by reference exports it (serialize):    *)
(* it keeps the object in localProxied and localProxyMap and sends a proxy *)
(* id with a finalizer id, renewed each time the object is sent again.     *)
(* The other peer wraps the id in an RpcProxy (deserialize, newProxy),     *)
(* tracks it by a WeakRef, and once the garbage collector finds the        *)
(* RpcProxy unreachable sends the last finalizer id it received back       *)
(* (finalize). The exporter drops the object if that id is still current.  *)
(*                                                                         *)
(* One peer is modelled as the exporter ("local") and the other as the     *)
(* importer ("remote"): in the code each peer is both, independently.      *)
(***************************************************************************)
EXTENDS Naturals, Sequences

CONSTANTS
  Objs,       \* objects the exporter's program sends by reference
  Clustered,  \* those with a __cluster entry: the entry names their proxy id
  StableIds,  \* the proxy ids of cluster entries
  StableId,   \* clustered object -> the proxy id in its __cluster entry
  Proxies,    \* RpcProxy instances the importer may create
  MaxIds,     \* bound: ids the exporter generates
  MaxQueue,   \* bound: messages in flight, each way
  MaxRunning, \* bound: apply handlers suspended in `await target(...)`
  None        \* undefined

ASSUME ObjectsAssumption ==
  /\ Clustered \subseteq Objs /\ StableId \in [Clustered -> StableIds]
  /\ MaxIds \in Nat /\ MaxQueue \in Nat /\ MaxRunning \in Nat
  /\ StableIds \cap (1..MaxIds) = {}
  /\ None \notin Objs \cup Proxies \cup StableIds \cup 1..MaxIds

\* Generated ids never repeat, and none is the stable id of a cluster entry.
Ids == (1..MaxIds) \cup StableIds

\* Several values may carry one __cluster entry: two RpcProxies of one object
\* of a third peer, or such a proxy and what connectRPCObject made of it.
Unshared(o) ==
  o \in Clustered => \A p \in Clustered \ {o} : StableId[p] # StableId[o]

NoEntry == [id |-> None, finalizerId |-> None]
Entries == [id : Ids, finalizerId : Ids]

\* Where the importer's program can still reach an RpcProxy from: the Proxy
\* itself, only a method taken from it (its handler), or nothing. "unborn"
\* and "finalized" bound the life of the instance.
Reach == {"unborn", "held", "method", "dropped", "finalized"}

Instances == [id : Ids \cup {None}, finalizerId : Ids \cup {None},
              reach : Reach, cleared : BOOLEAN]

\* A reference on its way to the importer (RpcRemoteProxyValue), and what
\* comes back: calls and finalize messages.
References == [type : {"ref"}, id : Ids, finalizerId : Ids]
Requests == [type : {"finalize"}, id : Ids, finalizerId : Ids]
            \cup [type : {"apply"}, id : Ids, arg : Ids \cup {None}]

VARIABLES
  nextId,            \* generateId: next unused id
  localProxied,      \* exporter: object -> entry
  localProxyMap,     \* exporter: proxy id -> object
  running,           \* exporter: apply handlers awaiting their target
  localKilled,       \* exporter: kill() ran
  rpcProxy,          \* importer: the RpcProxy instances
  remoteWeakProxies, \* importer: proxy id -> WeakRef of an instance
  remoteKilled,      \* importer: kill() ran
  toRemote,          \* transport: exporter to importer
  toLocal,           \* transport: importer to exporter
  lost               \* observed: objects whose current finalizer id reached nobody

exporter == <<localProxied, localProxyMap, running, localKilled, nextId>>
importer == <<rpcProxy, remoteWeakProxies, remoteKilled>>
vars == <<exporter, importer, toRemote, toLocal, lost>>

Init ==
  /\ nextId = 1
  /\ localProxied = [o \in Objs |-> NoEntry]
  /\ localProxyMap = [i \in Ids |-> None]
  /\ running = 0
  /\ localKilled = FALSE
  /\ rpcProxy = [r \in Proxies |-> [id |-> None, finalizerId |-> None,
                                    reach |-> "unborn", cleared |-> FALSE]]
  /\ remoteWeakProxies = [i \in Ids |-> None]
  /\ remoteKilled = FALSE
  /\ toRemote = <<>> /\ toLocal = <<>>
  /\ lost = {}

Exported(o) == localProxied[o].id # None
Usable(r) == rpcProxy[r].reach \in {"held", "method"}
-----------------------------------------------------------------------------
(* Exporter *)

\* serialize() of an object that goes by reference, in a message that is sent
\* afterwards or not. Only a new entry is put into localProxyMap.
Serialize(o, sent) ==
  LET fresh == IF o \in Clustered THEN StableId[o] ELSE nextId
      id    == IF Exported(o) THEN localProxied[o].id ELSE fresh
      fid   == IF Exported(o) THEN nextId ELSE fresh
  IN /\ nextId <= MaxIds /\ nextId' = nextId + 1
     /\ localProxied' = [localProxied EXCEPT ![o] = [id |-> id, finalizerId |-> fid]]
     /\ localProxyMap' = IF Exported(o) THEN localProxyMap
                         ELSE [localProxyMap EXCEPT ![id] = o]
     /\ IF sent
        THEN /\ Len(toRemote) < MaxQueue
             /\ toRemote' = Append(toRemote, [type |-> "ref", id |-> id, finalizerId |-> fid])
        ELSE UNCHANGED toRemote
     /\ lost' = IF sent THEN lost \ {o} ELSE lost \cup {o}

\* The program passes o as an argument of a call (RpcProxy.apply), or the other
\* peer asks for it (param). The message is not sent when a later argument
\* cannot be serialized or the transport cannot write it.
SendArgument(o) ==
  /\ ~localKilled
  /\ \E sent \in BOOLEAN : Serialize(o, sent)
  /\ UNCHANGED <<running, localKilled, importer, toLocal>>

\* An apply arrives: target and arguments are looked up before the await; a
\* missing one is answered with an error, which carries no reference.
HandleApply ==
  /\ toLocal # <<>> /\ Head(toLocal).type = "apply"
  /\ LET m == Head(toLocal)
         found == /\ localProxyMap[m.id] # None
                  /\ m.arg = None \/ localProxyMap[m.arg] # None
     IN IF localKilled \/ ~found THEN running' = running
        ELSE running < MaxRunning /\ running' = running + 1
  /\ toLocal' = Tail(toLocal)
  /\ UNCHANGED <<localProxied, localProxyMap, localKilled, nextId, importer, toRemote, lost>>

\* The awaited target returns and its value is serialized, whether the peer was
\* killed meanwhile or not, and even when nothing is sent: the call is oneway,
\* or the result cannot be written and an error is sent in its place.
FinishApply ==
  /\ running > 0 /\ running' = running - 1
  /\ \/ \E o \in Objs, sent \in BOOLEAN : Serialize(o, sent)
     \/ UNCHANGED <<nextId, localProxied, localProxyMap, toRemote, lost>>
  /\ UNCHANGED <<localKilled, importer, toLocal>>

\* The exporter's answer to a finalize message when ids must match (`check`)
\* and which of the two maps it clears.
Release(check, clearMap, clearProxied) ==
  /\ toLocal # <<>> /\ Head(toLocal).type = "finalize"
  /\ LET m == Head(toLocal)
         o == localProxyMap[m.id]
         match == /\ ~localKilled /\ o # None
                  /\ check => m.finalizerId = localProxied[o].finalizerId
     IN IF match
        THEN /\ localProxyMap' = IF clearMap THEN [localProxyMap EXCEPT ![m.id] = None]
                                 ELSE localProxyMap
             /\ localProxied' = IF clearProxied THEN [localProxied EXCEPT ![o] = NoEntry]
                                ELSE localProxied
        ELSE UNCHANGED <<localProxyMap, localProxied>>
  /\ toLocal' = Tail(toLocal)
  /\ UNCHANGED <<nextId, running, localKilled, importer, toRemote, lost>>

\* Mutants: the finalizer id is not compared; localProxied keeps its entry.
ReleaseAnyFinalizer == Release(FALSE, TRUE, TRUE)
ReleaseHalf == Release(TRUE, TRUE, FALSE)
HandleFinalize == Release(TRUE, TRUE, TRUE)

KillLocal ==
  /\ ~localKilled /\ localKilled' = TRUE
  /\ localProxied' = [o \in Objs |-> NoEntry]
  /\ localProxyMap' = [i \in Ids |-> None]
  /\ UNCHANGED <<running, nextId, importer, toRemote, toLocal, lost>>
-----------------------------------------------------------------------------
(* Importer *)

\* Mutant: deserialize() leaves the finalizer id of the entry out.
HeldWithoutFinalizer(id, finalizerId) ==
  [id |-> id, finalizerId |-> None, reach |-> "held", cleared |-> FALSE]

\* An RpcProxy the program holds, with its LocalProxiedEntry.
Held(id, finalizerId) ==
  [id |-> id, finalizerId |-> finalizerId, reach |-> "held", cleared |-> FALSE]

\* A message with a reference arrives. A proxy whose WeakRef still derefs is
\* used again, otherwise newProxy makes one; `renew` gives it the finalizer id.
Import(renew) ==
  /\ toRemote # <<>>
  /\ toRemote' = Tail(toRemote)
  /\ LET m == Head(toRemote)
         w == remoteWeakProxies[m.id]
         alive == w # None /\ ~rpcProxy[w].cleared
     IN \/ remoteKilled /\ UNCHANGED <<rpcProxy, remoteWeakProxies>>
        \/ /\ ~remoteKilled /\ alive
           /\ rpcProxy' = [rpcProxy EXCEPT ![w] =
                Held(m.id, IF renew THEN m.finalizerId ELSE rpcProxy[w].finalizerId)]
           /\ UNCHANGED remoteWeakProxies
        \/ /\ ~remoteKilled /\ ~alive
           /\ \E r \in Proxies :
                /\ rpcProxy[r].reach = "unborn"
                /\ rpcProxy' = [rpcProxy EXCEPT ![r] = Held(m.id, m.finalizerId)]
                /\ remoteWeakProxies' = [remoteWeakProxies EXCEPT ![m.id] = r]
  /\ UNCHANGED <<exporter, remoteKilled, toLocal, lost>>

\* Mutant: only a new proxy learns the finalizer id.
ImportStale == Import(FALSE)
Deserialize == Import(TRUE)

\* A message with a reference arrives that is not deserialized: the call it is
\* an argument of has no target here, or an earlier argument does not resolve.
DropReference ==
  /\ toRemote # <<>> /\ ~remoteKilled
  /\ toRemote' = Tail(toRemote)
  /\ lost' = lost \cup {o \in Objs : localProxied[o].finalizerId = Head(toRemote).finalizerId}
  /\ UNCHANGED <<exporter, importer, toLocal>>

\* The program calls a proxy or a method it took from it, maybe passing
\* another proxy of this peer back as an argument (__local_proxy_id).
CallProxy(r) ==
  /\ ~remoteKilled /\ Usable(r) /\ Len(toLocal) < MaxQueue
  /\ \E arg \in {None} \cup {rpcProxy[s].id : s \in {t \in Proxies : Usable(t)}} :
       toLocal' = Append(toLocal, [type |-> "apply", id |-> rpcProxy[r].id, arg |-> arg])
  /\ UNCHANGED <<exporter, importer, toRemote, lost>>

\* The program keeps only a method of the proxy, or nothing.
Forget(r) ==
  /\ Usable(r)
  /\ \E left \in {"method", "dropped"} : rpcProxy' = [rpcProxy EXCEPT ![r].reach = left]
  /\ UNCHANGED <<exporter, remoteWeakProxies, remoteKilled, toRemote, toLocal, lost>>

\* The collector clears the WeakRef of a Proxy the program no longer holds.
CollectProxy(r) ==
  /\ rpcProxy[r].reach \in {"method", "dropped"} /\ ~rpcProxy[r].cleared
  /\ rpcProxy' = [rpcProxy EXCEPT ![r].cleared = TRUE]
  /\ UNCHANGED <<exporter, remoteWeakProxies, remoteKilled, toRemote, toLocal, lost>>

\* The FinalizationRegistry's callback: a later turn than the collection. It
\* deletes whatever remoteWeakProxies holds under the id.
RunFinalizer(r, before, after) ==
  /\ rpcProxy[r].reach = before /\ rpcProxy[r].cleared
  /\ Len(toLocal) < MaxQueue
  /\ rpcProxy' = [rpcProxy EXCEPT ![r].reach = after]
  /\ remoteWeakProxies' = [remoteWeakProxies EXCEPT ![rpcProxy[r].id] = None]
  /\ toLocal' = Append(toLocal, [type |-> "finalize", id |-> rpcProxy[r].id,
                                 finalizerId |-> rpcProxy[r].finalizerId])
  /\ UNCHANGED <<exporter, remoteKilled, toRemote, lost>>

\* Mutant: the registry watches the Proxy, not the handler its methods share.
FinalizeProxy(r) == \/ RunFinalizer(r, "method", "method")
                    \/ RunFinalizer(r, "dropped", "finalized")
Finalize(r) == RunFinalizer(r, "dropped", "finalized")

KillRemote ==
  /\ ~remoteKilled /\ remoteKilled' = TRUE
  /\ remoteWeakProxies' = [i \in Ids |-> None]
  /\ UNCHANGED <<exporter, rpcProxy, toRemote, toLocal, lost>>
-----------------------------------------------------------------------------
Next ==
  \/ \E o \in Objs : SendArgument(o)
  \/ HandleApply \/ FinishApply \/ HandleFinalize \/ KillLocal
  \/ Deserialize \/ DropReference \/ KillRemote
  \/ \E r \in Proxies : \/ CallProxy(r) \/ Forget(r)
                        \/ CollectProxy(r) \/ Finalize(r)

Spec == Init /\ [][Next]_vars

\* The transport delivers, a handler's target returns, and the collector and
\* its callbacks run in the end (startPeriodicGarbageCollection); what the two
\* programs do, they need not do. Finalize is strongly fair only because MaxQueue
\* can block it: the code's send() never waits.
Fairness ==
  /\ WF_vars(HandleApply) /\ WF_vars(FinishApply) /\ WF_vars(HandleFinalize)
  /\ WF_vars(Deserialize)
  /\ \A r \in Proxies : WF_vars(CollectProxy(r)) /\ SF_vars(Finalize(r))

FairSpec == Spec /\ Fairness
-----------------------------------------------------------------------------
TypeOK ==
  /\ nextId \in 1..(MaxIds + 1)
  /\ localProxied \in [Objs -> Entries \cup {NoEntry}]
  /\ localProxyMap \in [Ids -> Objs \cup {None}]
  /\ running \in 0..MaxRunning
  /\ localKilled \in BOOLEAN /\ remoteKilled \in BOOLEAN
  /\ rpcProxy \in [Proxies -> Instances]
  /\ remoteWeakProxies \in [Ids -> Proxies \cup {None}]
  /\ toRemote \in Seq(References) /\ toLocal \in Seq(Requests)
  /\ lost \subseteq Objs

\* The two maps of the exporter (RpcPeer.localProxied and localProxyMap) agree:
\* no id leads to an object that was released or has another id, and an exported
\* object whose id is its own is found under it. Of objects that share the id of
\* one cluster entry (cluster-setup.ts) the map finds one at most.
MapsAgree ==
  /\ \A o \in Objs : Exported(o) /\ Unshared(o) => localProxyMap[localProxied[o].id] = o
  /\ \A i \in Ids : localProxyMap[i] # None => localProxied[localProxyMap[i]].id = i

\* A reference in flight to the importer always names an object that is still
\* exported: a finalize of an older reference that crosses it on the wire
\* cannot release the object (the finalizer id comparison in handleMessage).
InFlightExported ==
  ~localKilled =>
    \A i \in DOMAIN toRemote :
      toRemote[i].id \notin StableIds => localProxyMap[toRemote[i].id] # None

\* The current finalizer id of every exported object is in flight, or with an
\* RpcProxy that has yet to be finalized, or in a finalize message on its way
\* back: crossing, reordered collections and renewals lose none. What can lose it
\* is only that the message the object was last serialized for was never sent
\* (serialize() renews the id before) or not deserialized. The id of a cluster
\* entry that several objects share is left out.
Reclaimable ==
  ~localKilled /\ ~remoteKilled =>
    \A o \in Objs \ lost : Exported(o) /\ Unshared(o) =>
      LET e == localProxied[o]
          carries(m) == m.type # "apply" /\ m.id = e.id /\ m.finalizerId = e.finalizerId
      IN \/ \E i \in DOMAIN toRemote : carries(toRemote[i])
         \/ \E i \in DOMAIN toLocal : carries(toLocal[i])
         \/ \E r \in Proxies : /\ rpcProxy[r].reach # "finalized"
                               /\ rpcProxy[r].id = e.id
                               /\ rpcProxy[r].finalizerId = e.finalizerId

\* A proxy the importer's program can call, itself or by a method taken from
\* it, resolves at the exporter as long as it is the only RpcProxy the importer
\* ever built for that id, also when several objects share the id.
LoneProxyExported ==
  ~localKilled =>
    \A r \in Proxies :
      (Usable(r) /\ \A s \in Proxies \ {r} : rpcProxy[s].id # rpcProxy[r].id)
        => localProxyMap[rpcProxy[r].id] # None

\* What the lookup in handleMessageInternal asserts of every call it gets
\* ("proxy id ... not found" is thrown otherwise): any proxy the program can
\* still call names an exported object.
UsableProxyExported ==
  ~localKilled =>
    \A r \in Proxies : Usable(r) => localProxyMap[rpcProxy[r].id] # None

\* Objects do not leak: when the importer's program has stopped holding
\* anything of an object for good, the exporter releases it in the end, provided
\* that the message it was last serialized for was sent and deserialized.
UnusedIsReleased ==
  \A o \in Objs :
    Unshared(o) /\ <>[](/\ ~localKilled /\ ~remoteKilled /\ o \notin lost
                       /\ \A r \in Proxies : Usable(r) => rpcProxy[r].id # localProxied[o].id)
      => <>[](~Exported(o))
=============================================================================
