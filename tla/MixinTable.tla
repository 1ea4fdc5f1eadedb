----------------------------- MODULE MixinTable -----------------------------
(***************************************************************************)
(* The mixin tables of server/src/plugin/plugin-device.ts and the parts of *)
(* runtime.ts and services/plugin.ts that change them. A device's table is *)
(* a stack: the device its plugin returned (the base), wrapped by one layer*)
(* per mixin. Every entry is a promise: it asks the plugin of its mixin    *)
(* for the layer once the entry beneath it settled, while plugins are      *)
(* killed and reloaded, mixins are changed and devices removed.            *)
(*                                                                         *)
(* Mixins are named by the device that provides them. The code unshifts    *)
(* entries; here the base is the first element of `table` and the head is  *)
(* the last. What a layer implements is left out.                          *)
(***************************************************************************)
EXTENDS SequencesExt, Integers

CONSTANTS
  Devices,     \* ids, mixin providers among them
  Plugins,
  PluginOf,    \* device -> the plugin that provides it
  Stored,      \* device -> its list of mixins in the datastore at the start
  Offer,       \* device -> the lists setMixins may be called with
  MayFail,     \* devices that may answer with an error or decline to mix in
  Removable,   \* devices that may be removed
  Base,        \* undefined, the mixinProviderId of a base entry
  MaxBuilt,    \* device -> bound: entries ever built for it
  MaxInst,     \* plugin -> bound: its instances; the last one is not killed
  MaxSaving    \* device -> bound: its setMixins calls waiting for the datastore

\* Lists of mixins. setMixins makes a Set of what it is given.
Lists == {ms \in Seq(Devices) : IsInjective(ms)}

ASSUME MixinAssumption ==
  /\ PluginOf \in [Devices -> Plugins]
  /\ Stored \in [Devices -> Lists]
  /\ \A d \in Devices : Offer[d] \subseteq Lists
  /\ MayFail \subseteq Devices /\ Removable \subseteq Devices
  /\ Base \notin Devices
  /\ MaxBuilt \in [Devices -> Nat] /\ MaxInst \in [Plugins -> Nat] /\ MaxSaving \in [Devices -> Nat]

VARIABLES
  devices,   \* ids in pluginDevices
  removing,  \* removed ones whose removal from the datastore is awaited
  mixins,    \* the `mixins` property of a device
  handler,   \* device -> its mixin table, and every entry ever built
  host,      \* plugin -> number of its last instance, and whether that is up
  saving     \* device -> setMixins calls waiting for the datastore

vars == <<devices, removing, mixins, handler, host, saving>>

Of(p) == {d \in devices : PluginOf[d] = p}

\* An entry whose promise is pending. `below` is the table it was given to
\* wrap; `drops` counts the calls of releaseMixin that invalidateEntry has
\* decided on, each of which is made once the promise settled.
Entry(m, below) ==
  [of |-> m, below |-> below, is |-> "pending", error |-> FALSE, inst |-> 0, drops |-> 0]

\* invalidateEntry: it looks the provider up at once, and has nobody to tell for
\* a base, or when the provider was removed.
Leave(e) ==
  [e EXCEPT !.inst = 0, !.is = IF @ = "pending" THEN @ ELSE "gone",
            !.drops = IF e.of \in devices THEN @ + 1 ELSE @]

\* Mutant: a layer wraps everything that was ever built for the device.
BuildOnAll(h, ms) ==
  LET new(n) == [j \in 1..n |-> Len(h.built) + j]
  IN  [table |-> h.table \o new(Len(ms)),
       built |-> h.built \o [j \in 1..Len(ms) |->
                   Entry(ms[j], [i \in 1..Len(h.built) |-> i] \o new(j - 1))]]

\* The loop of ensureProxy: one entry per mixin, each on a slice of the table
\* as it is when the loop gets there.
Build(h, ms) ==
  LET new(n) == [j \in 1..n |-> Len(h.built) + j]
  IN  [table |-> h.table \o new(Len(ms)),
       built |-> h.built \o [j \in 1..Len(ms) |-> Entry(ms[j], h.table \o new(j - 1))]]

EnsureProxy(h, ms) == IF h.table = <<>> THEN Build(h, <<Base>> \o ms) ELSE h

\* Mutant: entries are taken out of the table without invalidateEntry.
KeepQuietly(h, n) == [h EXCEPT !.table = SubSeq(@, 1, n)]

\* The lowest n entries stay, the others are invalidated.
Keep(h, n) ==
  LET gone == {h.table[i] : i \in (n + 1)..Len(h.table)}
  IN  [table |-> SubSeq(h.table, 1, n),
       built |-> [i \in DOMAIN h.built |-> IF i \in gone THEN Leave(h.built[i]) ELSE h.built[i]]]

Invalidate(h) == Keep(h, 0)

\* The mixins of the table, the one next to the base first.
Layers(h) == [i \in 1..(Len(h.table) - 1) |-> h.built[h.table[i + 1]].of]

Common(s, t) ==
  Max({n \in 0..Len(s) : n <= Len(t) /\ SubSeq(s, 1, n) = SubSeq(t, 1, n)})

\* rebuildMixinTable: resume from the last layer that is still right. When
\* there is none the whole table goes, and is built again when next needed.
Rebuild(h, ms) ==
  LET n == Common(Layers(h), ms)
  IN  IF n = 0 THEN Invalidate(h) ELSE Build(Keep(h, n + 1), SubSeq(ms, n + 1, Len(ms)))

\* Everything from the lowest layer of one of these providers up goes.
Cut(h, ids) ==
  LET found == {i \in DOMAIN h.table : h.built[h.table[i]].of \in ids}
  IN  IF found = {} THEN h ELSE Keep(h, Min(found) - 1)

\* The first pass of invalidateMixins: the devices that `ids` act on, the
\* devices those act on, and so on.
Touched(hs, ids) ==
  LET acted(S) == {d \in devices : \E i \in DOMAIN hs[d].table :
                     hs[d].built[hs[d].table[i]].of \in S}
  IN  {d \in devices : \A S \in SUBSET devices : acted(ids \cup S) \subseteq S => d \in S}

InvalidateMixins(hs, ids) ==
  LET T == Touched(hs, ids)
  IN  [d \in Devices |->
        IF d \in T THEN Rebuild(Cut(hs[d], ids \cup T), mixins[d]) ELSE hs[d]]

\* hasMixinCycle: the providers a walk from the list ms visits. The list
\* itself counts as visited from the start.
Visit[todo \in Seq(Devices), visited \in SUBSET Devices] ==
  IF todo = <<>> THEN visited
  ELSE IF Last(todo) \in visited THEN Visit[Front(todo), visited]
  ELSE Visit[Front(todo) \o mixins[Last(todo)], visited \cup {Last(todo)}]

HasMixinCycle(d, ms) == d \in Visit[ms, ToSet(ms)]

Fits(hs) == \A d \in Devices : Len(hs[d].built) <= MaxBuilt[d]
-----------------------------------------------------------------------------
Init ==
  /\ devices = Devices /\ removing = {}
  /\ mixins = Stored
  /\ handler = [d \in Devices |-> [table |-> <<>>, built |-> <<>>]]
  /\ host = [p \in Plugins |-> [inst |-> 1, up |-> TRUE]]
  /\ saving = [d \in Devices |-> 0]

\* setMixins up to the write of the device.
SetMixins(d, ms) ==
  /\ d \in devices /\ saving[d] < MaxSaving[d]
  /\ ~HasMixinCycle(d, ms)
  /\ mixins' = [mixins EXCEPT ![d] = ms]
  /\ saving' = [saving EXCEPT ![d] = @ + 1]
  /\ UNCHANGED <<devices, removing, handler, host>>

\* Mutant: a table that is there is taken to be right.
SavedMixinsLazily(d) ==
  /\ saving[d] > 0
  /\ saving' = [saving EXCEPT ![d] = @ - 1]
  /\ handler' = [handler EXCEPT ![d] = IF d \in devices THEN EnsureProxy(@, mixins[d]) ELSE @]
  /\ Fits(handler') /\ UNCHANGED <<devices, removing, mixins, host>>

\* setMixins after the write: the list may have changed again meanwhile.
SavedMixins(d) ==
  /\ saving[d] > 0
  /\ saving' = [saving EXCEPT ![d] = @ - 1]
  /\ handler' = [handler EXCEPT ![d] =
       IF d \in devices THEN EnsureProxy(Rebuild(@, mixins[d]), mixins[d]) ELSE @]
  /\ Fits(handler') /\ UNCHANGED <<devices, removing, mixins, host>>

\* A call of a device (apply, probe) finds no table.
Call(d) ==
  /\ d \in devices /\ handler[d].table = <<>>
  /\ handler' = [handler EXCEPT ![d] = EnsureProxy(@, mixins[d])]
  /\ Fits(handler') /\ UNCHANGED <<devices, removing, mixins, host, saving>>

\* PluginHost.upsertDevice of a descriptor that changed.
Upserted(d) ==
  /\ d \in devices
  /\ handler' = [handler EXCEPT ![d] = Invalidate(@)]
  /\ UNCHANGED <<devices, removing, mixins, host, saving>>

\* PluginHost.kill(), by the user, a restart, or the exit of the worker. A host
\* is killed again when its exit is noticed, even after the next one loaded.
Kill(p) ==
  /\ host[p].inst < MaxInst[p]
  /\ host' = [host EXCEPT ![p].up = FALSE]
  /\ handler' = InvalidateMixins(handler, Of(p))
  /\ Fits(handler') /\ UNCHANGED <<devices, removing, mixins, saving>>

KillAgain(p) ==
  /\ host[p].inst > 1
  /\ handler' = InvalidateMixins(handler, Of(p))
  /\ Fits(handler') /\ UNCHANGED <<devices, removing, mixins, host, saving>>

\* Mutant: what was built since the old host died is kept.
LoadOnTop(p) ==
  /\ host[p].inst < MaxInst[p]
  /\ \E ok \in BOOLEAN : host' = [host EXCEPT ![p] =
       [inst |-> IF ok THEN @.inst + 1 ELSE @.inst, up |-> ok]]
  /\ handler' = [d \in Devices |->
       IF d \in Of(p) THEN EnsureProxy(Invalidate(handler[d]), mixins[d]) ELSE handler[d]]
  /\ Fits(handler') /\ UNCHANGED <<devices, removing, mixins, saving>>

\* loadPlugin and probePluginDevices, the rest of runPlugin: the old host is
\* killed again, the mixins of the plugin are invalidated again, its devices
\* are; then the new host is made (ok) or not, and the devices are probed.
Load(p) ==
  LET killed  == InvalidateMixins(InvalidateMixins(handler, Of(p)), Of(p))
      renewed == [d \in Devices |-> IF d \in Of(p) THEN Invalidate(killed[d]) ELSE killed[d]]
      probed  == [d \in Devices |->
        IF d \in Of(p) \/ (d \in devices /\ ToSet(mixins[d]) \cap Of(p) # {})
        THEN EnsureProxy(renewed[d], mixins[d]) ELSE renewed[d]]
  IN  /\ host[p].inst < MaxInst[p]
      /\ \/ /\ handler' = probed
            /\ host' = [host EXCEPT ![p] = [inst |-> @.inst + 1, up |-> TRUE]]
         \/ /\ handler' = renewed
            /\ host' = [host EXCEPT ![p].up = FALSE]
      /\ Fits(handler') /\ UNCHANGED <<devices, removing, mixins, saving>>

\* Mutant: the device is forgotten only once the datastore is done with it.
RemoveLate(d) ==
  /\ d \in devices \cap Removable
  /\ removing' = removing \cup {d}
  /\ handler' = [handler EXCEPT ![d] = Invalidate(@)]
  /\ UNCHANGED <<devices, mixins, host, saving>>

\* removeDevice up to the await of the datastore, and after it.
RemoveDevice(d) ==
  /\ d \in devices \cap Removable
  /\ devices' = devices \ {d} /\ removing' = removing \cup {d}
  /\ handler' = [handler EXCEPT ![d] = Invalidate(@)]
  /\ UNCHANGED <<mixins, host, saving>>

Removed(d) ==
  /\ d \in removing /\ removing' = removing \ {d}
  /\ handler' = InvalidateMixins(handler, {d})
  /\ Fits(handler') /\ UNCHANGED <<devices, mixins, host, saving>>
-----------------------------------------------------------------------------
(* The promises of the entries.                                            *)

Settle(d, i, is, error) ==
  LET e == handler[d].built[i]
      o == IF e.of = Base THEN d ELSE e.of
      live == i \in ToSet(handler[d].table)
  IN  handler' = [handler EXCEPT ![d].built[i] =
        [e EXCEPT !.is = IF live THEN is ELSE "gone", !.error = error,
                  !.inst = IF live THEN host[PluginOf[o]].inst ELSE 0]]

\* The entry i of d is pending and the one beneath it has settled.
Asking(d, i) ==
  LET e == handler[d].built[i]
  IN  /\ e.is = "pending"
      /\ e.below # <<>> => handler[d].built[Last(e.below)].is # "pending"

ErrorBelow(d, i) ==
  LET e == handler[d].built[i] IN e.below # <<>> /\ handler[d].built[Last(e.below)].error

\* The base: what the plugin returns for the device, or nothing. That is no
\* error to the layers above.
BaseReturns(d, i) ==
  /\ Asking(d, i) /\ handler[d].built[i].of = Base
  /\ \/ host[PluginOf[d]].up /\ Settle(d, i, "layer", FALSE)
     \/ (host[PluginOf[d]].up => d \in MayFail) /\ Settle(d, i, "failed", FALSE)
  /\ UNCHANGED <<devices, removing, mixins, host, saving>>

\* rebuildEntry: canMixin and getMixin both succeed, or something throws.
MixinReturns(d, i) ==
  LET m == handler[d].built[i].of
  IN  /\ Asking(d, i) /\ m \in devices
      /\ \/ host[PluginOf[m]].up /\ Settle(d, i, "layer", ErrorBelow(d, i))
         \/ (host[PluginOf[m]].up => m \in MayFail) /\ Settle(d, i, "failed", TRUE)
      /\ UNCHANGED <<devices, removing, mixins, host, saving>>

\* The provider is gone, or says that it cannot mix in: unless there was an
\* error beneath, it is taken out of the list as well.
Declines(d, i) ==
  LET m == handler[d].built[i].of
  IN  /\ Asking(d, i) /\ m # Base
      /\ m \in devices => host[PluginOf[m]].up /\ m \in MayFail
      /\ Settle(d, i, "through", ErrorBelow(d, i))
      /\ mixins' = [mixins EXCEPT ![d] =
           IF ErrorBelow(d, i) \/ d \notin devices THEN @ ELSE RemoveFirst(@, m)]
      /\ UNCHANGED <<devices, removing, host, saving>>

\* The provider is, for now, no MixinProvider: it stays in the list.
PassesThrough(d, i) ==
  LET m == handler[d].built[i].of
  IN  /\ Asking(d, i) /\ m \in devices /\ m \in MayFail
      /\ Settle(d, i, "through", ErrorBelow(d, i))
      /\ UNCHANGED <<devices, removing, mixins, host, saving>>

Next ==
  \/ \E d \in Devices : \/ \E ms \in Offer[d] : SetMixins(d, ms)
                        \/ SavedMixins(d)
                        \/ Call(d)
                        \/ Upserted(d)
                        \/ RemoveDevice(d)
                        \/ Removed(d)
  \/ \E p \in Plugins : Kill(p) \/ KillAgain(p) \/ Load(p)
  \/ \E d \in Devices : \E i \in DOMAIN handler[d].built :
       \/ BaseReturns(d, i)
       \/ MixinReturns(d, i)
       \/ Declines(d, i)
       \/ PassesThrough(d, i)

Spec == Init /\ [][Next]_vars
-----------------------------------------------------------------------------
EntryType ==
  [of : Devices \cup {Base}, below : Seq(Nat), is : {"pending", "layer", "through", "failed", "gone"},
   error : BOOLEAN, inst : Nat, drops : Nat]

TypeOK ==
  /\ devices \subseteq Devices /\ removing \subseteq Devices \ devices
  /\ mixins \in [Devices -> Lists]
  /\ handler \in [Devices -> [table : Seq(Nat), built : Seq(EntryType)]]
  /\ host \in [Plugins -> [inst : Nat, up : BOOLEAN]]
  /\ saving \in [Devices -> Nat]

\* The layers of a live table wrap each other: every entry was given exactly
\* what lies beneath it now, whatever was cut, rebuilt or invalidated since,
\* and only the lowest is a base. A call that enters at the head goes down
\* the stack and never into a layer of an earlier table.
ChainIntact ==
  \A d \in Devices : LET h == handler[d] IN
    \A i \in DOMAIN h.table :
      /\ h.table[i] \in DOMAIN h.built
      /\ h.built[h.table[i]].below = SubSeq(h.table, 1, i - 1)
      /\ (h.built[h.table[i]].of = Base) = (i = 1)

\* A mixin is not released while it is called through, and never twice; and one
\* that left the table, by whichever way, was released, unless its provider is
\* removed: removeDevice forgets the device before it takes the mixin out of the
\* tables, so that a removed provider is mostly not told.
ReleasedOnce ==
  \A d \in Devices : \A i \in DOMAIN handler[d].built :
    LET e == handler[d].built[i]
    IN  e.of # Base =>
          IF i \in ToSet(handler[d].table) THEN e.drops = 0
          ELSE e.drops <= 1 /\ (e.of \in devices => e.drops = 1)

\* No live table holds a layer, or the failure to get one, from an earlier
\* instance of a plugin that is up again, nor a layer of a removed provider.
\* What was built between the death of the one host and the load of the next
\* is the hard case.
NoStaleLayer ==
  \A d \in devices : \A i \in ToSet(handler[d].table) :
    LET e == handler[d].built[i]
        o == IF e.of = Base THEN d ELSE e.of
    IN  e.is # "pending" =>
          IF o \in devices THEN host[PluginOf[o]].up => e.inst = host[PluginOf[o]].inst
          ELSE e.is = "layer" => o \in removing

\* ls has what ms has, each once and in the order of ms.
Follows(ls, ms) ==
  /\ IsInjective(ls) /\ ToSet(ms) \subseteq ToSet(ls)
  /\ \A i, j \in DOMAIN ms : \A k, l \in DOMAIN ls :
       ls[k] = ms[i] /\ ls[l] = ms[j] /\ i < j => k < l

\* When no setMixins is under way, a table has one layer for every mixin that is
\* listed, in the order of the list. (The converse fails: a mixin that declines
\* leaves the list at once and the table when it is next rebuilt.)
ListedIsLayered ==
  \A d \in devices : saving[d] = 0 /\ handler[d].table # <<>> =>
    Follows(Layers(handler[d]), mixins[d])

\* No mixin acts, through others, on itself: what hasMixinCycle is for. A set
\* of devices each of which lists another one of the set is a cycle.
NoMixinCycle ==
  \A S \in SUBSET devices \ {{}} : \E d \in S : ToSet(mixins[d]) \cap S = {}
=============================================================================
