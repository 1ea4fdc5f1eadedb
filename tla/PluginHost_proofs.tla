-------------------------- MODULE PluginHost_proofs --------------------------
(***************************************************************************)
(* Proofs about PluginHost: its type invariant, that at most one host is   *)
(* not killed, that a plugin that was removed stays down, and that an      *)
(* installed one is up or something is under way that will bring it up.    *)
(***************************************************************************)
EXTENDS PluginHost, DataLemmas
-----------------------------------------------------------------------------
(* Bags of tasks *)

\* A task that is started joins those under way.
LEMMA StartFacts ==
  ASSUME NEW b, NEW e, IsABag(b)
  PROVE  /\ IsABag(b (+) SetToBag({e}))
         /\ BagToSet(b (+) SetToBag({e})) = BagToSet(b) \cup {e}
BY DEF IsABag, BagToSet, SetToBag, (+)

\* When one ends every other is still under way.
LEMMA EndFacts ==
  ASSUME NEW b, NEW e, IsABag(b)
  PROVE  /\ IsABag(b (-) SetToBag({e}))
         /\ BagToSet(b (-) SetToBag({e})) \subseteq BagToSet(b)
         /\ BagToSet(b) \ {e} \subseteq BagToSet(b (-) SetToBag({e}))
BY DEF IsABag, BagToSet, SetToBag, (-)

-----------------------------------------------------------------------------
(* Hosts *)

\* The hosts of gs are those of hs, and none came back to life.
Kept(hs, gs) ==
  /\ gs \in Seq(LoadType) /\ Len(gs) = Len(hs)
  /\ \A i \in 1..Len(hs) : gs[i].made = hs[i].made /\ (hs[i].killed => gs[i].killed)

\* Changing one host, and not to a living one, keeps them.
LEMMA ExceptKept ==
  ASSUME NEW hs \in Seq(LoadType), NEW n, NEW h \in LoadType,
         n \in 1..Len(hs) => h.made = hs[n].made /\ (hs[n].killed => h.killed)
  PROVE  Kept(hs, [hs EXCEPT ![n] = h])
<1>1. CASE n \in 1..Len(hs)
  BY <1>1, ExceptSeq DEF Kept
<1>2. CASE n \notin 1..Len(hs)
  <2>1. [hs EXCEPT ![n] = h] = hs
    BY <1>2, LenProperties
  <2> QED
    BY <2>1 DEF Kept
<1> QED
  BY <1>1, <1>2

\* Keeping is transitive.
LEMMA KeptTwice ==
  ASSUME NEW hs \in Seq(LoadType), NEW gs, NEW fs, Kept(hs, gs), Kept(gs, fs)
  PROVE  Kept(hs, fs)
BY LenProperties DEF Kept

\* Killing a host keeps them all and leaves it killed.
LEMMA KillKeeps ==
  ASSUME NEW hs \in Seq(LoadType), NEW n \in 0..Len(hs)
  PROVE  /\ Kept(hs, Kill(hs, n))
         /\ n # 0 => Kill(hs, n)[n].killed
<1>1. CASE n = 0
  BY <1>1 DEF Kill, Kept
<1>2. CASE n # 0
  <2>1. n \in 1..Len(hs) /\ hs[n] \in LoadType
    BY <1>2, LenProperties, ElementOfSeq
  <2> DEFINE h == [hs[n] EXCEPT !.killed = TRUE]
  <2>2. h \in LoadType /\ h.killed /\ h.made = hs[n].made
    BY <2>1 DEF LoadType
  <2>3. Kill(hs, n) = [hs EXCEPT ![n] = h]
    BY <1>2, <2>1 DEF Kill
  <2> HIDE DEF h
  <2>4. Kept(hs, [hs EXCEPT ![n] = h]) /\ [hs EXCEPT ![n] = h][n] = h
    BY <2>1, <2>2, ExceptKept, ExceptSeq
  <2> QED
    BY <2>2, <2>3, <2>4
<1> QED
  BY <1>1, <1>2

\* Killing the current host leaves none alive.
LEMMA KillAll ==
  ASSUME loads \in Seq(LoadType), current \in 0..Len(loads), OneLiveHost
  PROVE  \A i \in 1..Len(loads) : Kill(loads, current)[i].killed
BY KillKeeps, LenProperties DEF OneLiveHost, Kept

\* A restart that is scheduled only kills.
LEMMA RestartKeeps ==
  ASSUME NEW hs \in Seq(LoadType), NEW n \in 0..Len(hs)
  PROVE  Kept(hs, Restart(hs, n))
<1>0. Kept(hs, hs)
  BY DEF Kept
<1>1. CASE hs[n].timer # "off"
  BY <1>0, <1>1 DEF Restart
<1>2. CASE n = 0
  <2>1. [hs EXCEPT ![0].timer = "set"] = hs
    BY LenProperties
  <2> QED
    BY <1>0, <1>2, <2>1 DEF Restart, Kill
<1>3. CASE n # 0 /\ hs[n].timer = "off"
  <2> DEFINE gs == Kill(hs, n)
             h == [gs[n] EXCEPT !.timer = "set"]
  <2>1. Kept(hs, gs)
    BY KillKeeps
  <2>2. gs \in Seq(LoadType) /\ n \in 1..Len(gs) /\ gs[n] \in LoadType
    BY <1>3, <2>1, LenProperties, ElementOfSeq DEF Kept
  <2>3. Restart(hs, n) = [gs EXCEPT ![n] = h]
    BY <1>3, <2>2 DEF Restart
  <2> HIDE DEF gs
  <2>4. h \in LoadType /\ h.made = gs[n].made /\ h.killed = gs[n].killed
    BY <2>2 DEF LoadType
  <2> HIDE DEF h
  <2>5. Kept(gs, [gs EXCEPT ![n] = h])
    BY <2>2, <2>4, ExceptKept
  <2> QED
    BY <2>1, <2>3, <2>5, KeptTwice
<1> QED
  BY <1>1, <1>2, <1>3

\* And so does one whose run failed.
LEMMA FailedKeeps ==
  ASSUME NEW hs \in Seq(LoadType), NEW t, t.of \in 0..Len(hs)
  PROVE  Kept(hs, Failed(hs, t))
BY RestartKeeps DEF Failed, Kept

\* The part of the type invariant that is about hosts.
HostsOK ==
  /\ loads \in Seq(LoadType) /\ Len(loads) <= MaxLoads
  /\ current \in 0..Len(loads) /\ (current # 0 => loads[current].made)

\* What a step does to the hosts: their type is kept, none is forgotten, and at
\* most one stays alive.
Sound == HostsOK' /\ Len(loads) <= Len(loads') /\ (OneLiveHost => OneLiveHost')

\* A step that keeps the hosts and the one that is current.
LEMMA SameHosts ==
  ASSUME HostsOK, Kept(loads, loads'), current' = current
  PROVE  Sound /\ (Live' => Live)
BY LenProperties DEF HostsOK, Kept, Sound, OneLiveHost, Live

\* A step that kills the current host, and makes none.
LEMMA KilledHosts ==
  ASSUME HostsOK, Kept(Kill(loads, current), loads'), current' \in {current, 0}
  PROVE  Sound /\ ~Live'
<1>1. Kept(loads, loads') /\ (current # 0 => loads'[current].killed)
  <2>1. Kept(loads, Kill(loads, current)) /\ (current # 0 => Kill(loads, current)[current].killed)
    BY KillKeeps DEF HostsOK
  <2>2. Kept(loads, loads')
    BY <2>1, KeptTwice DEF HostsOK
  <2> QED
    BY <2>1, <2>2 DEF HostsOK, Kept
<1>2. HostsOK' /\ Len(loads') = Len(loads) /\ ~Live'
  BY <1>1 DEF HostsOK, Kept, Live
<1>3. OneLiveHost => OneLiveHost'
  BY <1>1, LenProperties DEF OneLiveHost, HostsOK, Kept
<1> QED
  BY <1>2, <1>3 DEF Sound, HostsOK

\* loadPlugin: it kills before it makes the next host, however it ends.
LEMMA LoadSound ==
  ASSUME HostsOK, NEW t, t.of \in 0..Len(loads), NEW there, Load(t, there)
  PROVE  Sound /\ (Live' => there)
<1> DEFINE killed == Kill(loads, current)
<1>1. /\ killed \in Seq(LoadType) /\ Len(killed) = Len(loads) /\ Len(loads) \in Nat
      /\ OneLiveHost => \A i \in 1..Len(loads) : killed[i].killed
  BY KillKeeps, KillAll DEF HostsOK, Kept
<1>2. Host \in LoadType /\ Retry \in LoadType /\ Host.made /\ Retry.killed
  BY DEF Host, Retry, LoadType
<1>3. ASSUME NEW h \in LoadType
      PROVE  /\ Append(killed, h) \in Seq(LoadType)
             /\ Len(Append(killed, h)) = Len(loads) + 1
             /\ Append(killed, h)[Len(loads) + 1] = h
             /\ \A i \in 1..Len(loads) : Append(killed, h)[i] = killed[i]
  BY <1>1, AppendProperties
<1> HIDE DEF killed
<1>4. CASE /\ there /\ Len(loads) < MaxLoads
           /\ loads' = Append(killed, Host) /\ current' = Len(loads) + 1
  <2>1. HostsOK' /\ Len(loads') = Len(loads) + 1
    BY <1>1, <1>2, <1>3, <1>4, HostAssumption DEF HostsOK
  <2>2. OneLiveHost => OneLiveHost'
    BY <1>1, <1>2, <1>3, <1>4, <2>1, LenProperties DEF OneLiveHost, HostsOK
  <2> QED
    BY <1>1, <1>4, <2>1, <2>2 DEF Sound
<1>5. CASE /\ there /\ Len(loads) < MaxLoads
           /\ loads' = Failed(Append(killed, Retry), t) /\ current' = 0
  <2>1. Kept(Append(killed, Retry), loads')
    <3>1. Append(killed, Retry) \in Seq(LoadType) /\ t.of \in 0..Len(Append(killed, Retry))
      BY <1>1, <1>2, <1>3
    <3> QED
      BY <1>5, <3>1, FailedKeeps
  <2>2. HostsOK' /\ Len(loads') = Len(loads) + 1
    BY <1>1, <1>2, <1>3, <1>5, <2>1, HostAssumption DEF HostsOK, Kept
  <2>3. OneLiveHost => \A i \in 1..(Len(loads) + 1) : loads'[i].killed
    BY <1>1, <1>2, <1>3, <2>1 DEF Kept
  <2>4. OneLiveHost => OneLiveHost'
    BY <2>2, <2>3, LenProperties DEF OneLiveHost, HostsOK
  <2> QED
    BY <1>1, <1>5, <2>2, <2>4 DEF Sound
<1>6. CASE loads' = Failed(killed, t) /\ current' = 0
  <2>1. Kept(killed, loads')
    BY <1>1, <1>6, FailedKeeps
  <2> QED
    BY <1>6, <2>1, KilledHosts DEF killed, Live
<1> QED
  BY <1>4, <1>5, <1>6 DEF Load, killed

\* runPlugin up to its await.
LEMMA RunSound ==
  ASSUME HostsOK, NEW t, t.of \in 0..Len(loads), NEW there, Run(t, there)
  PROVE  Sound /\ (Live' => there)
<1>1. CASE loads' = Kill(loads, current) /\ current' = current
  <2>1. Kept(Kill(loads, current), loads')
    BY <1>1, KillKeeps DEF HostsOK, Kept
  <2> QED
    BY <1>1, <2>1, KilledHosts
<1>2. CASE Load(t, there)
  BY <1>2, LoadSound
<1> QED
  BY <1>1, <1>2 DEF Run

\* An event or a timer of one host changes that host only.
LEMMA EventSound ==
  ASSUME HostsOK, NEW n \in DOMAIN loads,
         WorkerExits(n) \/ Ask(n) \/ DebounceFires(n) \/ TimerFires(n)
  PROVE  Sound /\ (Live' => Live)
<1>1. n \in 1..Len(loads) /\ loads[n] \in LoadType
  BY LenProperties, ElementOfSeq DEF HostsOK
<1>2. ASSUME NEW h \in LoadType, h.made = loads[n].made, h.killed = loads[n].killed,
             loads' = [loads EXCEPT ![n] = h]
      PROVE  Kept(loads, loads')
  BY <1>2, ExceptKept DEF HostsOK
<1>3. ASSUME WorkerExits(n) PROVE Kept(loads, loads')
  <2> DEFINE h == [loads[n] EXCEPT !.up = FALSE]
  <2>1. loads' = Restart([loads EXCEPT ![n] = h], n)
    BY <1>3 DEF WorkerExits
  <2>2. h \in LoadType /\ h.made = loads[n].made /\ h.killed = loads[n].killed
    BY <1>1 DEF LoadType
  <2> HIDE DEF h
  <2> DEFINE gs == [loads EXCEPT ![n] = h]
  <2>3. Kept(loads, gs)
    BY <2>2, ExceptKept DEF HostsOK
  <2>4. loads' = Restart(gs, n)
    BY <2>1
  <2> HIDE DEF gs
  <2>5. gs \in Seq(LoadType) /\ n \in 0..Len(gs)
    BY <1>1, <2>3 DEF Kept
  <2>6. Kept(gs, loads')
    BY <2>4, <2>5, RestartKeeps
  <2> QED
    BY <2>3, <2>6, KeptTwice DEF HostsOK
<1>4. ASSUME Ask(n) PROVE Kept(loads, loads')
  BY <1>1, <1>2, <1>4 DEF Ask, LoadType
<1>5. ASSUME DebounceFires(n) PROVE Kept(loads, loads')
  BY <1>1, <1>2, <1>5 DEF DebounceFires, LoadType
<1>6. ASSUME TimerFires(n) PROVE Kept(loads, loads')
  BY <1>1, <1>2, <1>6 DEF TimerFires, LoadType
<1>7. current' = current
  BY DEF WorkerExits, Ask, DebounceFires, TimerFires
<1> QED
  BY <1>3, <1>4, <1>5, <1>6, <1>7, SameHosts

\* The passing of time only makes timers ripe.
LEMMA TimeSound ==
  ASSUME HostsOK, TimePasses
  PROVE  Sound /\ (Live' => Live)
<1> DEFINE Aged(h) == [h EXCEPT !.timer = IF @ = "set" THEN "ripe" ELSE @,
                                !.asks = IF @ = "due" THEN "ripe" ELSE @]
<1>1. ASSUME NEW h \in LoadType
      PROVE  Aged(h) \in LoadType /\ Aged(h).made = h.made /\ Aged(h).killed = h.killed
  BY DEF LoadType
<1>2. loads' = [n \in 1..Len(loads) |-> Aged(loads[n])] /\ current' = current
  BY LenProperties DEF TimePasses, HostsOK
<1> HIDE DEF Aged
<1>3. \A n \in 1..Len(loads) : loads[n] \in LoadType
  BY ElementOfSeq DEF HostsOK
<1>4. loads' \in Seq(LoadType) /\ Len(loads') = Len(loads)
  <2>1. Len(loads) \in Nat
    BY LenProperties DEF HostsOK
  <2>2. loads' \in [1..Len(loads) -> LoadType]
    BY <1>1, <1>2, <1>3
  <2>3. loads' \in Seq(LoadType)
    BY <2>1, <2>2, SeqDef
  <2> QED
    BY <2>1, <2>2, <2>3, LenProperties
<1>5. Kept(loads, loads')
  BY <1>1, <1>2, <1>3, <1>4 DEF Kept
<1> QED
  BY <1>2, <1>5, SameHosts

\* What a suspended request does when it goes on.
LEMMA ContinueSound ==
  ASSUME TypeOK, NEW t \in BagToSet(tasks),
         Got(t) \/ Installed(t) \/ WaitOver(t) \/ RemoveKills(t) \/ Removed(t)
  PROVE  Sound /\ (Live' => Live \/ device')
<1>1. HostsOK /\ t.of \in 0..Len(loads)
  BY DEF TypeOK, HostsOK, TaskType
<1>2. ASSUME NEW there, Run(t, there) \/ Load(t, there) PROVE Sound /\ (Live' => there)
  BY <1>1, <1>2, RunSound, LoadSound
<1>3. ASSUME UNCHANGED <<current, loads>> PROVE Sound /\ (Live' => Live)
  BY <1>1, <1>3, SameHosts DEF Kept, HostsOK
<1>4. CASE Got(t)
  <2>1. CASE Run(t, device) /\ UNCHANGED device
    BY <1>2, <2>1
  <2>2. CASE UNCHANGED <<current, loads>>
    BY <1>3, <2>2
  <2> QED
    BY <1>4, <2>1, <2>2 DEF Got
<1>5. CASE Installed(t)
  BY <1>2, <1>5 DEF Installed
<1>6. CASE WaitOver(t)
  BY <1>2, <1>6 DEF WaitOver
<1>7. CASE RemoveKills(t)
  <2>1. Kept(Kill(loads, current), loads')
    BY <1>1, <1>7, KillKeeps DEF RemoveKills, HostsOK, Kept
  <2> QED
    BY <1>1, <1>7, <2>1, KilledHosts DEF RemoveKills
<1>8. CASE Removed(t)
  BY <1>3, <1>8 DEF Removed
<1> QED
  BY <1>4, <1>5, <1>6, <1>7, <1>8

\* Every step, by the user's requests too, is sound for the hosts.
LEMMA HostStep == TypeOK /\ [Next]_vars => Sound
<1> SUFFICES ASSUME TypeOK, [Next]_vars PROVE Sound
  OBVIOUS
<1>1. HostsOK
  BY DEF TypeOK, HostsOK
<1>2. ASSUME current' = current, loads' = loads PROVE Sound
  BY <1>1, <1>2, SameHosts DEF Kept, HostsOK
<1>3. CASE Reload \/ Install \/ RemoveDevice
  <2>1. current' = current /\ loads' = loads
    BY <1>3 DEF Reload, Install, RemoveDevice
  <2> QED
    BY <1>2, <2>1
<1>4. CASE KillService
  <2>1. Kept(Kill(loads, current), loads') /\ current' = current
    BY <1>1, <1>4, KillKeeps DEF KillService, HostsOK, Kept
  <2> QED
    BY <1>1, <2>1, KilledHosts
<1>5. CASE Continue
  BY <1>5, ContinueSound DEF Continue
<1>6. CASE TimePasses
  BY <1>1, <1>6, TimeSound
<1>7. ASSUME NEW n \in DOMAIN loads,
             WorkerExits(n) \/ Ask(n) \/ DebounceFires(n) \/ TimerFires(n)
      PROVE  Sound
  BY <1>1, <1>7, EventSound
<1>8. CASE UNCHANGED vars
  BY <1>2, <1>8 DEF vars
<1> QED
  BY <1>3, <1>4, <1>5, <1>6, <1>7, <1>8 DEF Next
-----------------------------------------------------------------------------
(* Types *)

\* The part of the type invariant that is about requests.
TasksOK == IsABag(tasks) /\ BagToSet(tasks) \subseteq TaskType

\* A request that begins, ends or goes on keeps the types of all.
LEMMA TasksKept ==
  ASSUME TypeOK, Sound
  PROVE  /\ TaskType \subseteq TaskType'
         /\ tasks' = tasks => TasksOK'
         /\ \A t \in TaskType' : Started(t) => TasksOK'
         /\ \A t \in TaskType :
              /\ Ended(t) => TasksOK'
              /\ \A at \in {"exit", "forget"} : Moved(t, at) => TasksOK'
<1>1. TaskType \subseteq TaskType'
  BY DEF TaskType, TypeOK, Sound, HostsOK
<1>2. IsABag(tasks) /\ BagToSet(tasks) \subseteq TaskType'
  BY <1>1 DEF TypeOK
<1>3. ASSUME NEW t \in TaskType', Started(t) PROVE TasksOK'
  <2> DEFINE more == tasks (+) SetToBag({t})
  <2>1. IsABag(more) /\ BagToSet(more) \subseteq TaskType'
    <3>1. IsABag(more) /\ BagToSet(more) = BagToSet(tasks) \cup {t}
      BY <1>2, StartFacts, Zenon
    <3> QED
      BY <1>2, <1>3, <3>1
  <2>2. tasks' = more
    BY <1>3 DEF Started
  <2> HIDE DEF more
  <2> QED
    BY <2>1, <2>2 DEF TasksOK
<1>4. ASSUME NEW t \in TaskType, Ended(t) PROVE TasksOK'
  BY <1>2, <1>4, EndFacts DEF Ended, TasksOK
<1>5. ASSUME NEW t \in TaskType, NEW at \in {"exit", "forget"}, Moved(t, at) PROVE TasksOK'
  <2> DEFINE rest == tasks (-) SetToBag({t})
             moved == [t EXCEPT !.at = at]
  <2>1. moved \in TaskType'
    BY <1>1 DEF TaskType
  <2>2. IsABag(rest) /\ BagToSet(rest) \subseteq TaskType'
    BY <1>2, EndFacts
  <2> DEFINE more == rest (+) SetToBag({moved})
  <2>3. tasks' = more
    BY <1>5 DEF Moved
  <2> HIDE DEF rest, moved
  <2>4. IsABag(more) /\ BagToSet(more) \subseteq TaskType'
    <3>1. IsABag(more) /\ BagToSet(more) = BagToSet(rest) \cup {moved}
      BY <2>2, StartFacts, Zenon
    <3> QED
      BY <2>1, <2>2, <3>1
  <2> HIDE DEF more
  <2> QED
    BY <2>3, <2>4 DEF TasksOK
<1> QED
  BY <1>1, <1>2, <1>3, <1>4, <1>5 DEF TasksOK

\* Every step keeps the types of the requests.
LEMMA TasksStep == TypeOK /\ [Next]_vars => TasksOK'
<1> SUFFICES ASSUME TypeOK, [Next]_vars PROVE TasksOK'
  OBVIOUS
<1>1. Sound /\ TypeOK
  BY HostStep
<1>2. ASSUME NEW by \in {"user", "timer", "health"}, NEW n \in 0..Len(loads),
             NEW at \in {"get", "exit", "install", "remove", "forget"}
      PROVE  /\ Task(at, by, n) \in TaskType'
             /\ [Task(at, by, n) EXCEPT !.found = TRUE] \in TaskType'
  BY <1>1, TasksKept DEF Task, TaskType, TypeOK
<1>3. 0 \in 0..Len(loads) /\ DOMAIN loads \subseteq 0..Len(loads)
  BY LenProperties DEF TypeOK
<1>4. CASE tasks' = tasks
  BY <1>1, <1>4, TasksKept
<1>5. CASE Reload
  BY <1>1, <1>2, <1>3, <1>5, TasksKept DEF Reload
<1>6. CASE Install
  BY <1>1, <1>2, <1>3, <1>6, TasksKept DEF Install
<1>7. CASE RemoveDevice
  BY <1>1, <1>2, <1>3, <1>7, TasksKept DEF RemoveDevice
<1>8. CASE Continue
  <2> PICK t \in BagToSet(tasks) :
        Got(t) \/ Installed(t) \/ WaitOver(t) \/ RemoveKills(t) \/ Removed(t)
    BY <1>8 DEF Continue
  <2>1. t \in TaskType
    BY DEF TypeOK
  <2>2. Ended(t) \/ Moved(t, "exit") \/ Moved(t, "forget")
    BY DEF Got, Installed, WaitOver, RemoveKills, Removed, Run, Load
  <2> QED
    BY <1>1, <2>1, <2>2, TasksKept
<1>9. ASSUME NEW n \in DOMAIN loads, DebounceFires(n) \/ TimerFires(n) PROVE TasksOK'
  BY <1>1, <1>2, <1>3, <1>9, TasksKept DEF DebounceFires, TimerFires
<1>10. ASSUME NEW n \in DOMAIN loads, WorkerExits(n) \/ Ask(n) PROVE TasksOK'
  BY <1>4, <1>10 DEF WorkerExits, Ask
<1>11. CASE KillService \/ TimePasses \/ UNCHANGED vars
  BY <1>4, <1>11 DEF KillService, TimePasses, vars
<1> QED
  BY <1>5, <1>6, <1>7, <1>8, <1>9, <1>10, <1>11 DEF Next

\* What the user and the faults may still do is never overspent.
LeftType == [requests : 0..MaxRequests, faults : 0..MaxFaults, events : 0..MaxEvents]

\* Every step keeps the budgets and the flags.
LEMMA RestStep ==
  TypeOK /\ [Next]_vars
    => left' \in LeftType /\ stored' \in BOOLEAN /\ device' \in BOOLEAN /\ refused' \in BOOLEAN
<1> SUFFICES ASSUME TypeOK, [Next]_vars
    PROVE left' \in LeftType /\ stored' \in BOOLEAN /\ device' \in BOOLEAN /\ refused' \in BOOLEAN
  OBVIOUS
<1>1. left \in LeftType /\ stored \in BOOLEAN /\ device \in BOOLEAN /\ refused \in BOOLEAN
  BY DEF TypeOK, LeftType
<1>2. Spend("requests") \/ Spend("faults") => left' \in LeftType
  <2>1. /\ left = [requests |-> left.requests, faults |-> left.faults, events |-> left.events]
        /\ left.requests \in 0..MaxRequests /\ left.faults \in 0..MaxFaults
        /\ left.events \in 0..MaxEvents
    BY <1>1 DEF LeftType
  <2>2. ASSUME Spend("requests") PROVE left' \in LeftType
    <3>1. left' = [left EXCEPT !.requests = left.requests - 1, !.events = left.events - 1]
      BY <2>2 DEF Spend
    <3>2. left' = [requests |-> left.requests - 1, faults |-> left.faults, events |-> left.events - 1]
      BY <2>1, <3>1
    <3>3. left.requests > 0 /\ left.events > 0
      BY <2>2, Zenon DEF Spend
    <3>4. left.requests - 1 \in 0..MaxRequests /\ left.events - 1 \in 0..MaxEvents
      BY <2>1, <3>3, HostAssumption
    <3> QED
      BY <2>1, <3>2, <3>4 DEF LeftType
  <2>3. ASSUME Spend("faults") PROVE left' \in LeftType
    <3>1. left' = [left EXCEPT !.faults = left.faults - 1, !.events = left.events - 1]
      BY <2>3 DEF Spend
    <3>2. left' = [requests |-> left.requests, faults |-> left.faults - 1, events |-> left.events - 1]
      BY <2>1, <3>1
    <3>3. left.faults > 0 /\ left.events > 0
      BY <2>3, Zenon DEF Spend
    <3>4. left.faults - 1 \in 0..MaxFaults /\ left.events - 1 \in 0..MaxEvents
      BY <2>1, <3>3, HostAssumption
    <3> QED
      BY <2>1, <3>2, <3>4 DEF LeftType
  <2> QED
    BY <2>2, <2>3
<1>3. CASE Reload \/ KillService \/ Install \/ RemoveDevice \/ TimePasses
  BY <1>1, <1>2, <1>3 DEF Reload, KillService, Install, RemoveDevice, TimePasses
<1>4. CASE Continue
  BY <1>1, <1>2, <1>4
     DEF Continue, Got, Installed, WaitOver, RemoveKills, Removed, Run, Load
<1>5. ASSUME NEW n \in DOMAIN loads,
             WorkerExits(n) \/ Ask(n) \/ DebounceFires(n) \/ TimerFires(n)
      PROVE left' \in LeftType /\ stored' \in BOOLEAN /\ device' \in BOOLEAN /\ refused' \in BOOLEAN
  BY <1>1, <1>2, <1>5 DEF WorkerExits, Ask, DebounceFires, TimerFires
<1>6. CASE UNCHANGED vars
  BY <1>1, <1>6 DEF vars
<1> QED
  BY <1>3, <1>4, <1>5, <1>6 DEF Next

\* The initial state has the types, whether the first load failed or not.
LEMMA TypeInit == Init => TypeOK
<1> SUFFICES ASSUME Init PROVE TypeOK
  OBVIOUS
<1>1. Host \in LoadType /\ Retry \in LoadType /\ Host.made
  BY DEF Host, Retry, LoadType
<1>2. HostsOK
  <2>1. ASSUME NEW h \in LoadType PROVE <<h>> \in Seq(LoadType) /\ Len(<<h>>) = 1 /\ <<h>>[1] = h
    OBVIOUS
  <2>2. CASE loads = <<Host>> /\ current = 1
    BY <1>1, <2>1, <2>2, HostAssumption DEF HostsOK
  <2>3. CASE loads = <<Retry>> /\ current = 0
    BY <1>1, <2>1, <2>3, HostAssumption DEF HostsOK
  <2>4. CASE loads = <<>> /\ current = 0
    BY <2>4, EmptySeq, HostAssumption DEF HostsOK
  <2> QED
    BY <2>2, <2>3, <2>4 DEF Init
<1>3. IsABag(tasks) /\ BagToSet(tasks) \subseteq TaskType
  BY DEF Init, EmptyBag, SetToBag, IsABag, BagToSet
<1>4. left \in LeftType
  <2>1. PICK failed \in {0, 1} :
          left = [requests |-> MaxRequests, faults |-> MaxFaults - failed, events |-> MaxEvents - failed]
    BY DEF Init
  <2>2. /\ MaxRequests \in 0..MaxRequests /\ MaxFaults - failed \in 0..MaxFaults
        /\ MaxEvents - failed \in 0..MaxEvents
    BY HostAssumption
  <2> QED
    BY <2>1, <2>2 DEF LeftType
<1>5. stored \in BOOLEAN /\ device \in BOOLEAN /\ refused \in BOOLEAN
  BY DEF Init
<1> QED
  BY <1>2, <1>3, <1>4, <1>5 DEF TypeOK, HostsOK, LeftType

\* Theorem: every variable keeps its type, for all bounds: plugins[pluginId] is
\* empty or a host that was made, and a timer is one of a host's.
THEOREM TypeCorrect == Spec => []TypeOK
<1>1. Init => TypeOK
  BY TypeInit
<1>2. TypeOK /\ [Next]_vars => TypeOK'
  BY HostStep, TasksStep, RestStep DEF TypeOK, Sound, HostsOK, TasksOK, LeftType
<1> QED
  BY <1>1, <1>2, PTL DEF Spec
-----------------------------------------------------------------------------
(* The host that is alive *)

\* Theorem: however many reloads, restarts, installs and removals overlap, and
\* whichever of them fail, at most one host is not killed, and plugins[pluginId]
\* names it: loadPlugin kills what it finds when it makes the next one, and not
\* what runPlugin found before its await.
THEOREM OneHostCorrect == Spec => []OneLiveHost
<1>1. Init => OneLiveHost
  BY LenProperties, EmptySeq DEF Init, OneLiveHost, Host, Retry
<1>2. TypeOK /\ OneLiveHost /\ [Next]_vars => OneLiveHost'
  BY HostStep DEF Sound
<1> QED
  BY <1>1, <1>2, TypeCorrect, PTL DEF Spec
-----------------------------------------------------------------------------
(* A plugin that was removed *)

\* A removal that is waiting to kill goes on waiting while others end.
LEMMA RemovalWaits ==
  ASSUME TypeOK, NEW t, t.at # "remove", Ended(t) \/ \E at \in {"exit", "forget"} : Moved(t, at)
  PROVE  \A u \in BagToSet(tasks) : u.at = "remove" => u \in BagToSet(tasks)'
<1>1. IsABag(tasks)
  BY DEF TypeOK
<1>2. TAKE u \in BagToSet(tasks)
<1>3. HAVE u.at = "remove"
<1> DEFINE rest == tasks (-) SetToBag({t})
<1>4. IsABag(rest) /\ u \in BagToSet(rest)
  BY <1>1, <1>3, EndFacts
<1>5. tasks' = rest \/ \E v : tasks' = rest (+) SetToBag({v})
  BY DEF Ended, Moved
<1> HIDE DEF rest
<1>6. ASSUME NEW v PROVE u \in BagToSet(rest (+) SetToBag({v}))
  BY <1>4, StartFacts
<1> QED
  BY <1>4, <1>5, <1>6

\* No step brings a removed plugin to life: a restart that is under way finds
\* no device, and fails after it killed.
LEMMA RemovedStep == TypeOK /\ RemovedStaysDown /\ [Next]_vars => RemovedStaysDown'
<1> SUFFICES ASSUME TypeOK, RemovedStaysDown, [Next]_vars, ~device', Live'
             PROVE  \E u \in BagToSet(tasks)' : u.at = "remove"
  BY DEF RemovedStaysDown
<1>1. HostsOK /\ IsABag(tasks)
  BY DEF TypeOK, HostsOK
<1>2. ASSUME ~device, Live, BagToSet(tasks) \subseteq BagToSet(tasks)'
      PROVE  \E u \in BagToSet(tasks)' : u.at = "remove"
  BY <1>2 DEF RemovedStaysDown
<1>3. ASSUME NEW t, Started(t) PROVE BagToSet(tasks)' = BagToSet(tasks) \cup {t}
  BY <1>1, <1>3, StartFacts DEF Started
<1>4. CASE Reload \/ Install
  <2>1. UNCHANGED <<device, current, loads>> /\ \E t : Started(t)
    BY <1>4 DEF Reload, Install
  <2> QED
    BY <1>2, <1>3, <2>1 DEF Live
<1>5. CASE RemoveDevice
  <2> DEFINE t == [Task("remove", "user", 0) EXCEPT !.found = TRUE]
  <2>1. Started(t) /\ t.at = "remove"
    BY <1>5 DEF RemoveDevice, Task
  <2> QED
    BY <1>3, <2>1
<1>6. CASE KillService
  <2>1. Kept(Kill(loads, current), loads') /\ current' = current
    BY <1>1, <1>6, KillKeeps DEF KillService, HostsOK, Kept
  <2> QED
    BY <1>1, <2>1, KilledHosts
<1>7. CASE Continue
  <2> PICK t \in BagToSet(tasks) :
        Got(t) \/ Installed(t) \/ WaitOver(t) \/ RemoveKills(t) \/ Removed(t)
    BY <1>7 DEF Continue
  <2>1. Live
    BY ContinueSound
  <2>2. ~RemoveKills(t)
    BY DEF RemoveKills, Live
  <2>3. t.at # "remove" /\ UNCHANGED device
    BY <2>2 DEF Got, Installed, WaitOver, Removed
  <2>4. Ended(t) \/ Moved(t, "exit")
    BY <2>2 DEF Got, Installed, WaitOver, Removed, Run, Load
  <2>5. PICK u \in BagToSet(tasks) : u.at = "remove"
    BY <2>1, <2>3 DEF RemovedStaysDown
  <2> QED
    BY <2>3, <2>4, <2>5, RemovalWaits
<1>8. CASE TimePasses
  BY <1>1, <1>2, <1>8, TimeSound DEF TimePasses
<1>9. ASSUME NEW n \in DOMAIN loads,
             WorkerExits(n) \/ Ask(n) \/ DebounceFires(n) \/ TimerFires(n)
      PROVE  \E u \in BagToSet(tasks)' : u.at = "remove"
  <2>1. Live /\ UNCHANGED device
    BY <1>1, <1>9, EventSound DEF WorkerExits, Ask, DebounceFires, TimerFires
  <2>2. tasks' = tasks \/ \E t : Started(t)
    BY <1>9 DEF WorkerExits, Ask, DebounceFires, TimerFires
  <2> QED
    BY <1>2, <1>3, <2>1, <2>2
<1>10. CASE UNCHANGED vars
  BY <1>2, <1>10 DEF vars, Live
<1> QED
  BY <1>4, <1>5, <1>6, <1>7, <1>8, <1>9, <1>10 DEF Next

\* Theorem: a plugin whose device was removed has no live host once the removal
\* got to killing it, whatever restarts were under way or come later.
THEOREM RemovedCorrect == Spec => []RemovedStaysDown
<1>1. Init => RemovedStaysDown
  BY DEF Init, RemovedStaysDown
<1>2. TypeOK /\ RemovedStaysDown /\ [Next]_vars => RemovedStaysDown'
  BY RemovedStep
<1> QED
  BY <1>1, <1>2, TypeCorrect, PTL DEF Spec
-----------------------------------------------------------------------------
(* A plugin that is never left down *)

\* A worker that is gone, and a host whose timer runs, were killed.
Guarded(hs) ==
  \A n \in DOMAIN hs : (hs[n].timer # "off" => hs[n].killed) /\ (~hs[n].up => hs[n].killed)

\* A timer runs, or a killed worker will set one when it exits.
Pending(hs) == \E n \in DOMAIN hs : hs[n].timer # "off" \/ (hs[n].killed /\ hs[n].up)

\* A request that will run the plugin: what it found when it began was there.
WillRun(t) == t.at \in {"exit", "install"} \/ (t.at = "get" /\ t.by # "health" /\ t.found)

\* The inductive invariant: NeverStranded, where a request counts only if what it
\* found lets it run the plugin.
Attended == Live \/ Pending(loads) \/ \E t \in BagToSet(tasks) : WillRun(t)

Supervised == Guarded(loads) /\ (device /\ stored /\ ~refused => Attended)

\* What happens to one host takes nothing away if the host stays as guarded and
\* as pending as it was.
LEMMA ExceptPending ==
  ASSUME NEW hs \in Seq(LoadType), Guarded(hs), NEW n \in 1..Len(hs), NEW h \in LoadType,
         h.timer # "off" => h.killed, ~h.up => h.killed,
         hs[n].timer # "off" \/ (hs[n].killed /\ hs[n].up) => h.timer # "off" \/ (h.killed /\ h.up)
  PROVE  /\ Guarded([hs EXCEPT ![n] = h])
         /\ Pending(hs) => Pending([hs EXCEPT ![n] = h])
         /\ h.timer # "off" \/ (h.killed /\ h.up) => Pending([hs EXCEPT ![n] = h])
<1> DEFINE gs == [hs EXCEPT ![n] = h]
<1>1. n \in DOMAIN hs /\ DOMAIN gs = DOMAIN hs /\ gs[n] = h
  BY LenProperties
<1>2. \A i \in DOMAIN hs : i # n => gs[i] = hs[i]
  OBVIOUS
<1> HIDE DEF gs
<1>3. Guarded(gs)
  BY <1>1, <1>2 DEF Guarded
<1>4. Pending(hs) => Pending(gs)
  BY <1>1, <1>2 DEF Pending
<1>5. h.timer # "off" \/ (h.killed /\ h.up) => Pending(gs)
  BY <1>1 DEF Pending
<1> QED
  BY <1>3, <1>4, <1>5 DEF gs

\* kill(): the host that was alive had a worker, whose exit will be heard.
LEMMA KillPending ==
  ASSUME NEW hs \in Seq(LoadType), Guarded(hs), NEW n \in 0..Len(hs)
  PROVE  /\ Guarded(Kill(hs, n))
         /\ Pending(hs) => Pending(Kill(hs, n))
         /\ n # 0 /\ ~hs[n].killed => Pending(Kill(hs, n))
<1>1. CASE n = 0
  BY <1>1 DEF Kill
<1>2. CASE n # 0
  <2>1. n \in 1..Len(hs) /\ n \in DOMAIN hs /\ hs[n] \in LoadType
    BY <1>2, LenProperties, ElementOfSeq
  <2> DEFINE h == [hs[n] EXCEPT !.killed = TRUE]
  <2>2. h \in LoadType /\ h.killed /\ h.up = hs[n].up /\ h.timer = hs[n].timer
    BY <2>1 DEF LoadType
  <2>3. Kill(hs, n) = [hs EXCEPT ![n] = h]
    BY <1>2, <2>1 DEF Kill
  <2> HIDE DEF h
  <2>4. /\ Guarded([hs EXCEPT ![n] = h])
        /\ Pending(hs) => Pending([hs EXCEPT ![n] = h])
        /\ h.timer # "off" \/ (h.killed /\ h.up) => Pending([hs EXCEPT ![n] = h])
    BY <2>1, <2>2, ExceptPending
  <2>5. ~hs[n].killed => hs[n].up
    BY <2>1 DEF Guarded, LoadType
  <2> QED
    BY <2>2, <2>3, <2>4, <2>5
<1> QED
  BY <1>1, <1>2

\* `restart`: its host has a timer now.
LEMMA RestartPending ==
  ASSUME NEW hs \in Seq(LoadType), Guarded(hs), NEW n \in 0..Len(hs)
  PROVE  /\ Guarded(Restart(hs, n))
         /\ Pending(hs) => Pending(Restart(hs, n))
         /\ n # 0 => Pending(Restart(hs, n))
<1>1. n # 0 => n \in 1..Len(hs) /\ n \in DOMAIN hs
  BY LenProperties
<1>2. CASE hs[n].timer # "off"
  BY <1>1, <1>2 DEF Restart, Pending
<1>3. CASE n = 0
  <2>1. [hs EXCEPT ![0].timer = "set"] = hs
    BY LenProperties
  <2> QED
    BY <1>3, <2>1 DEF Restart, Kill
<1>4. CASE n # 0 /\ hs[n].timer = "off"
  <2> DEFINE gs == Kill(hs, n)
             h == [gs[n] EXCEPT !.timer = "set"]
  <2>1. Kept(hs, gs) /\ gs[n].killed /\ Guarded(gs) /\ (Pending(hs) => Pending(gs))
    BY <1>4, KillKeeps, KillPending
  <2>2. gs \in Seq(LoadType) /\ n \in 1..Len(gs) /\ gs[n] \in LoadType
    BY <1>4, <2>1, LenProperties, ElementOfSeq DEF Kept
  <2>3. Restart(hs, n) = [gs EXCEPT ![n] = h]
    BY <1>4, <2>2 DEF Restart
  <2> HIDE DEF gs
  <2>4. h \in LoadType /\ h.timer = "set" /\ h.killed
    BY <2>1, <2>2 DEF LoadType
  <2> HIDE DEF h
  <2>5. /\ Guarded([gs EXCEPT ![n] = h]) /\ Pending([gs EXCEPT ![n] = h])
    BY <2>1, <2>2, <2>4, ExceptPending
  <2> QED
    BY <2>3, <2>5
<1> QED
  BY <1>2, <1>3, <1>4

\* A failed run takes nothing away that will bring the plugin up.
LEMMA FailedPending ==
  ASSUME NEW hs \in Seq(LoadType), Guarded(hs), NEW t, t.of \in 0..Len(hs)
  PROVE  Guarded(Failed(hs, t)) /\ (Pending(hs) => Pending(Failed(hs, t)))
BY RestartPending DEF Failed

\* A host that is made, or failed to be made.
LEMMA AppendPending ==
  ASSUME NEW hs \in Seq(LoadType), Guarded(hs), NEW h \in {Host, Retry}
  PROVE  /\ Append(hs, h) \in Seq(LoadType) /\ Len(Append(hs, h)) = Len(hs) + 1
         /\ Guarded(Append(hs, h))
         /\ h = Retry => Pending(Append(hs, h))
<1>1. /\ h \in LoadType /\ (h.timer # "off" => h.killed) /\ (~h.up => h.killed)
      /\ h = Retry => h.timer = "set"
  <2>1. CASE h = Host
    <3>1. h # Retry
      BY <2>1 DEF Host, Retry
    <3> QED
      BY <2>1, <3>1 DEF Host, LoadType
  <2>2. CASE h = Retry
    BY <2>2 DEF Retry, LoadType
  <2> QED
    BY <2>1, <2>2
<1> DEFINE gs == Append(hs, h)
           n == Len(hs) + 1
<1>2. gs \in Seq(LoadType) /\ Len(gs) = n /\ gs[n] = h
  BY <1>1, AppendProperties
<1>3. DOMAIN gs = 1..n /\ DOMAIN hs = 1..(n - 1) /\ n \in Nat \ {0}
  BY <1>2, LenProperties
<1>4. \A i \in DOMAIN gs : (i \in DOMAIN hs /\ gs[i] = hs[i]) \/ i = n
  BY <1>1, <1>3, AppendProperties
<1>5. n \in DOMAIN gs
  BY <1>3
<1> HIDE DEF gs, n
<1>6. Guarded(gs)
  BY <1>1, <1>2, <1>4 DEF Guarded
<1>7. h = Retry => Pending(gs)
  BY <1>1, <1>2, <1>5 DEF Pending
<1> QED
  BY <1>2, <1>6, <1>7 DEF gs, n

\* loadPlugin: a host that is alive, or the timer that will try again, unless
\* the runtime is not supported.
LEMMA LoadSupervised ==
  ASSUME HostsOK, Guarded(loads), NEW t, t.of \in 0..Len(loads), NEW there, Load(t, there)
  PROVE  Guarded(loads') /\ (there => refused' \/ Live' \/ Pending(loads'))
<1> DEFINE killed == Kill(loads, current)
<1>1. killed \in Seq(LoadType) /\ Len(killed) = Len(loads) /\ Len(loads) \in Nat /\ Guarded(killed)
  BY KillKeeps, KillPending DEF HostsOK, Kept
<1> HIDE DEF killed
<1>2. CASE loads' = Append(killed, Host) /\ current' = Len(loads) + 1
  <2>1. Guarded(loads')
    BY <1>1, <1>2, AppendPending
  <2>2. loads'[current'] = Host /\ current' # 0
    BY <1>1, <1>2, AppendProperties DEF Host, LoadType
  <2>3. Live'
    BY <2>2 DEF Live, Host
  <2> QED
    BY <2>1, <2>3
<1>3. CASE loads' = Failed(Append(killed, Retry), t)
  <2>1. /\ Append(killed, Retry) \in Seq(LoadType) /\ t.of \in 0..Len(Append(killed, Retry))
        /\ Guarded(Append(killed, Retry)) /\ Pending(Append(killed, Retry))
    BY <1>1, AppendPending
  <2> QED
    BY <1>3, <2>1, FailedPending
<1>4. CASE loads' = Failed(killed, t) /\ (there => refused')
  BY <1>1, <1>4, FailedPending
<1> QED
  BY <1>2, <1>3, <1>4 DEF Load, killed

\* runPlugin up to its await goes on by itself after it.
LEMMA RunSupervised ==
  ASSUME HostsOK, IsABag(tasks), Guarded(loads), NEW t \in TaskType, NEW there, Run(t, there)
  PROVE  Guarded(loads') /\ (there => refused' \/ Attended')
<1>1. t.of \in 0..Len(loads)
  BY DEF TaskType
<1>2. CASE Moved(t, "exit") /\ loads' = Kill(loads, current)
  <2> DEFINE rest == tasks (-) SetToBag({t})
             moved == [t EXCEPT !.at = "exit"]
  <2>1. Guarded(loads')
    BY <1>2, KillPending DEF HostsOK
  <2>2. IsABag(rest) /\ tasks' = rest (+) SetToBag({moved})
    BY <1>2, EndFacts DEF Moved
  <2>3. WillRun(moved)
    BY DEF WillRun, TaskType
  <2> HIDE DEF rest, moved
  <2>4. moved \in BagToSet(tasks)'
    BY <2>2, StartFacts
  <2> QED
    BY <2>1, <2>3, <2>4 DEF Attended
<1>3. CASE Load(t, there)
  BY <1>1, <1>3, LoadSupervised DEF Attended
<1> QED
  BY <1>2, <1>3 DEF Run

\* What another request does lets one that will run the plugin go on.
LEMMA RunnersWait ==
  ASSUME IsABag(tasks), NEW t, Ended(t) \/ \E at \in {"exit", "forget"} : Moved(t, at)
  PROVE  BagToSet(tasks) \ {t} \subseteq BagToSet(tasks)'
<1> SUFFICES ASSUME NEW u \in BagToSet(tasks), u # t PROVE u \in BagToSet(tasks)'
  OBVIOUS
<1> DEFINE rest == tasks (-) SetToBag({t})
<1>1. IsABag(rest) /\ u \in BagToSet(rest)
  BY EndFacts
<1>2. tasks' = rest \/ \E v : tasks' = rest (+) SetToBag({v})
  BY DEF Ended, Moved
<1> HIDE DEF rest
<1>3. ASSUME NEW v PROVE u \in BagToSet(rest (+) SetToBag({v}))
  BY <1>1, StartFacts
<1> QED
  BY <1>1, <1>2, <1>3

\* The current host is killed, none is made: its exit will be heard.
LEMMA KilledSupervised ==
  ASSUME HostsOK, Supervised, loads' = Kill(loads, current),
         \A u \in BagToSet(tasks) : WillRun(u) => u \in BagToSet(tasks)',
         device' = device, stored' = stored, refused' = refused
  PROVE  Supervised'
<1>1. /\ Guarded(loads')
      /\ Pending(loads) => Pending(loads')
      /\ Live => Pending(loads')
  BY KillPending DEF HostsOK, Supervised, Live
<1> QED
  BY <1>1 DEF Supervised, Attended

\* The hosts stay, and so does every request.
LEMMA SameSupervised ==
  ASSUME Supervised, current' = current,
         /\ Guarded(loads') /\ (Pending(loads) => Pending(loads'))
         /\ Live => Live' \/ Pending(loads'),
         BagToSet(tasks) \subseteq BagToSet(tasks)',
         device' /\ stored' /\ ~refused' => device /\ stored /\ ~refused
  PROVE  Supervised'
BY DEF Supervised, Attended

\* What a suspended request does when it goes on: it ends without running the
\* plugin only if another host is alive.
LEMMA ContinueSupervised ==
  ASSUME TypeOK, Supervised, NEW t \in BagToSet(tasks),
         Got(t) \/ Installed(t) \/ WaitOver(t) \/ RemoveKills(t) \/ Removed(t)
  PROVE  Supervised'
<1>1. HostsOK /\ IsABag(tasks) /\ t \in TaskType /\ t.of \in 0..Len(loads)
  BY DEF TypeOK, HostsOK, TaskType
<1>2. Guarded(loads) /\ (device /\ stored /\ ~refused => Attended)
  BY DEF Supervised
<1>3. ASSUME NEW there, Run(t, there) \/ Load(t, there), device' => there
      PROVE  Supervised'
  BY <1>1, <1>2, <1>3, RunSupervised, LoadSupervised DEF Supervised, Attended
<1>4. CASE Got(t)
  <2>1. CASE Run(t, device) /\ UNCHANGED device
    BY <1>3, <2>1
  <2>2. CASE \E found \in {t.found, stored} :
               ~Wanted(t, found) /\ Ended(t) /\ UNCHANGED <<stored, device, current, loads, refused, left>>
    <3>1. PICK found \in {t.found, stored} : ~Wanted(t, found)
      BY <2>2
    <3>2. Ended(t) /\ UNCHANGED <<stored, device, current, loads, refused>> /\ t.at = "get"
      BY <1>4, <2>2 DEF Got
    <3>3. BagToSet(tasks) \ {t} \subseteq BagToSet(tasks)'
      BY <1>1, <3>2, RunnersWait
    <3>4. CASE ~WillRun(t)
      BY <1>2, <3>2, <3>3, <3>4 DEF Supervised, Attended, Live
    <3>5. CASE WillRun(t) /\ stored
      <4>1. found /\ t.by # "health"
        BY <3>1, <3>2, <3>5 DEF WillRun
      <4>2. t.by = "timer" /\ Superseded(t.of)
        BY <3>1, <4>1 DEF Wanted
      <4>3. Live'
        BY <3>2, <4>2 DEF Superseded, Live
      <4> QED
        BY <1>2, <3>2, <4>3 DEF Supervised, Attended
    <3>6. CASE ~stored
      BY <1>2, <3>2, <3>6 DEF Supervised
    <3> QED
      BY <3>4, <3>5, <3>6
  <2> QED
    BY <1>4, <2>1, <2>2 DEF Got
<1>5. CASE Installed(t)
  BY <1>3, <1>5 DEF Installed
<1>6. CASE WaitOver(t)
  BY <1>3, <1>6 DEF WaitOver
<1>7. CASE RemoveKills(t)
  <2>1. BagToSet(tasks) \ {t} \subseteq BagToSet(tasks)'
    BY <1>1, <1>7, RunnersWait DEF RemoveKills
  <2>2. ~WillRun(t)
    BY <1>7 DEF RemoveKills, WillRun
  <2> QED
    BY <1>1, <1>7, <2>1, <2>2, KilledSupervised DEF RemoveKills
<1>8. CASE Removed(t)
  BY <1>2, <1>8 DEF Removed, Supervised
<1> QED
  BY <1>4, <1>5, <1>6, <1>7, <1>8

\* An exit sets the timer of its host, if it is not set.
LEMMA ExitPending ==
  ASSUME loads \in Seq(LoadType), Guarded(loads), NEW n \in 1..Len(loads), WorkerExits(n)
  PROVE  Guarded(loads') /\ Pending(loads')
<1>1. n \in DOMAIN loads /\ loads[n] \in LoadType
  BY LenProperties, ElementOfSeq
<1> DEFINE gone == [loads[n] EXCEPT !.up = FALSE]
           gs == [loads EXCEPT ![n] = gone]
<1>2. gone \in LoadType /\ gone.timer = loads[n].timer /\ gone.killed = loads[n].killed
  BY <1>1 DEF LoadType
<1>3. loads' = Restart(gs, n) /\ gs[n] = gone
  BY <1>1 DEF WorkerExits
<1>4. \E h \in LoadType : loads' = [loads EXCEPT ![n] = h] /\ h.killed /\ h.timer # "off"
  <2>1. CASE gone.timer # "off"
    <3>1. gone.killed
      BY <1>1, <1>2, <2>1 DEF Guarded
    <3>2. loads' = gs
      BY <1>3, <2>1 DEF Restart
    <3> QED
      BY <1>2, <2>1, <3>1, <3>2
  <2>2. CASE gone.timer = "off"
    <3> DEFINE h == [gone EXCEPT !.killed = TRUE, !.timer = "set"]
    <3>1. h \in LoadType /\ h.killed /\ h.timer # "off"
      BY <1>2 DEF LoadType
    <3>2. loads' = [Kill(gs, n) EXCEPT ![n].timer = "set"]
      BY <1>3, <2>2 DEF Restart
    <3>3. Kill(gs, n) = [gs EXCEPT ![n].killed = TRUE]
      BY DEF Kill
    <3>4. loads' = [loads EXCEPT ![n] = h]
      BY <1>1, <3>2, <3>3
    <3> QED
      BY <3>1, <3>4
  <2> QED
    BY <2>1, <2>2
<1> HIDE DEF gs, gone
<1>5. PICK h \in LoadType : loads' = [loads EXCEPT ![n] = h] /\ h.killed /\ h.timer # "off"
  BY <1>4
<1> QED
  BY <1>5, ExceptPending

\* An event or a timer of one host: an exit sets its timer, and a timer that
\* fires looks for the plugin, which is stored.
LEMMA EventSupervised ==
  ASSUME TypeOK, Supervised, NEW n \in DOMAIN loads,
         WorkerExits(n) \/ Ask(n) \/ DebounceFires(n) \/ TimerFires(n)
  PROVE  Supervised'
<1>1. /\ n \in 1..Len(loads) /\ loads[n] \in LoadType /\ loads \in Seq(LoadType) /\ Guarded(loads)
      /\ loads[n].timer # "off" => loads[n].killed
      /\ ~loads[n].up => loads[n].killed
  BY LenProperties, ElementOfSeq DEF TypeOK, Supervised, Guarded
<1>2. current' = current /\ device' = device /\ stored' = stored /\ refused' = refused
  BY DEF WorkerExits, Ask, DebounceFires, TimerFires
<1>3. ASSUME NEW s, Started(s) PROVE BagToSet(tasks)' = BagToSet(tasks) \cup {s}
  BY <1>3, StartFacts DEF Started, TypeOK
<1>4. CASE WorkerExits(n)
  BY <1>1, <1>4, ExitPending DEF Supervised, Attended
<1>5. ASSUME NEW asks \in {"can", "due", "ripe", "did"}, loads' = [loads EXCEPT ![n].asks = asks]
      PROVE  /\ Guarded(loads') /\ (Pending(loads) => Pending(loads'))
             /\ Live => Live'
  <2> DEFINE h == [loads[n] EXCEPT !.asks = asks]
  <2>1. /\ h \in LoadType /\ h.made = loads[n].made /\ h.killed = loads[n].killed
        /\ h.timer = loads[n].timer /\ h.up = loads[n].up
    BY <1>1 DEF LoadType
  <2>2. loads' = [loads EXCEPT ![n] = h]
    BY <1>5
  <2> HIDE DEF h
  <2>3. Live => Live'
    BY <1>1, <1>2, <2>1, <2>2 DEF Live
  <2> QED
    BY <1>1, <2>1, <2>2, <2>3, ExceptPending
<1>6. CASE Ask(n)
  <2>1. loads' = [loads EXCEPT ![n].asks = "due"] /\ tasks' = tasks
    BY <1>6 DEF Ask
  <2> QED
    BY <1>2, <1>5, <2>1, SameSupervised
<1>7. CASE DebounceFires(n)
  <2>1. loads' = [loads EXCEPT ![n].asks = "did"] /\ \E s : Started(s)
    BY <1>7 DEF DebounceFires
  <2> QED
    BY <1>2, <1>3, <1>5, <2>1, SameSupervised
<1>8. CASE TimerFires(n)
  <2> DEFINE h == [loads[n] EXCEPT !.timer = "off"]
             s == Task("get", "timer", n)
  <2>1. h \in LoadType /\ h.killed /\ h.timer = "off"
    BY <1>1, <1>8 DEF LoadType, TimerFires
  <2>2. loads' = [loads EXCEPT ![n] = h]
    BY <1>8 DEF TimerFires
  <2>3. s \in BagToSet(tasks)' /\ (stored => WillRun(s))
    BY <1>3, <1>8 DEF TimerFires, Task, WillRun
  <2> HIDE DEF h, s
  <2>4. Guarded(loads')
    BY <1>1, <2>1, <2>2 DEF Guarded
  <2> QED
    BY <1>2, <2>3, <2>4 DEF Supervised, Attended
<1> QED
  BY <1>4, <1>6, <1>7, <1>8

\* The passing of time stops no timer and kills no host.
LEMMA TimeSupervised ==
  ASSUME TypeOK, Supervised, TimePasses
  PROVE  Supervised'
<1> DEFINE Aged(h) == [h EXCEPT !.timer = IF @ = "set" THEN "ripe" ELSE @,
                                !.asks = IF @ = "due" THEN "ripe" ELSE @]
<1>1. ASSUME NEW h \in LoadType
      PROVE  /\ Aged(h).killed = h.killed /\ Aged(h).up = h.up
             /\ Aged(h).timer # "off" <=> h.timer # "off"
  BY DEF LoadType
<1>2. loads' = [n \in DOMAIN loads |-> Aged(loads[n])]
  BY DEF TimePasses
<1> HIDE DEF Aged
<1>3. \A n \in DOMAIN loads : loads[n] \in LoadType
  BY ElementOfSeq, LenProperties DEF TypeOK
<1>4. \A n \in DOMAIN loads :
        /\ loads'[n].killed = loads[n].killed /\ loads'[n].up = loads[n].up
        /\ loads'[n].timer # "off" <=> loads[n].timer # "off"
  BY <1>1, <1>2, <1>3
<1>5. DOMAIN loads' = DOMAIN loads
  BY <1>2
<1>6. current # 0 => current \in DOMAIN loads
  BY LenProperties DEF TypeOK
<1>7. UNCHANGED <<stored, device, current, tasks, refused>>
  BY DEF TimePasses
<1>8. Guarded(loads') /\ (Pending(loads) => Pending(loads'))
  BY <1>4, <1>5 DEF Supervised, Guarded, Pending
<1>9. Live => Live'
  BY <1>4, <1>6, <1>7 DEF Live
<1> QED
  BY <1>7, <1>8, <1>9, SameSupervised

\* No step leaves an installed plugin down with nothing on its way.
LEMMA SupervisedStep == TypeOK /\ Supervised /\ [Next]_vars => Supervised'
<1> SUFFICES ASSUME TypeOK, Supervised, [Next]_vars PROVE Supervised'
  OBVIOUS
<1>1. HostsOK /\ IsABag(tasks) /\ Guarded(loads)
  BY DEF TypeOK, HostsOK, Supervised
<1>2. ASSUME NEW s, Started(s) PROVE BagToSet(tasks)' = BagToSet(tasks) \cup {s}
  BY <1>1, <1>2, StartFacts DEF Started
<1>3. CASE Reload
  <2>1. UNCHANGED <<stored, device, current, loads, refused>> /\ \E s : Started(s)
    BY <1>3 DEF Reload
  <2> QED
    BY <1>1, <1>2, <2>1, SameSupervised DEF Live
<1>4. CASE Install
  <2> DEFINE s == [Task("install", "user", 0) EXCEPT !.found = TRUE]
  <2>1. Started(s) /\ loads' = loads
    BY <1>4 DEF Install
  <2>2. WillRun(s)
    BY DEF WillRun, Task
  <2>3. s \in BagToSet(tasks)'
    BY <1>2, <2>1
  <2> HIDE DEF s
  <2> QED
    BY <1>1, <2>1, <2>2, <2>3 DEF Supervised, Attended
<1>5. CASE RemoveDevice
  BY <1>1, <1>5 DEF RemoveDevice, Supervised
<1>6. CASE KillService
  BY <1>1, <1>6, KilledSupervised DEF KillService
<1>7. CASE Continue
  BY <1>7, ContinueSupervised DEF Continue
<1>8. CASE TimePasses
  BY <1>8, TimeSupervised
<1>9. ASSUME NEW n \in DOMAIN loads,
             WorkerExits(n) \/ Ask(n) \/ DebounceFires(n) \/ TimerFires(n)
      PROVE  Supervised'
  BY <1>9, EventSupervised
<1>10. CASE UNCHANGED vars
  BY <1>1, <1>10, SameSupervised DEF vars, Live
<1> QED
  BY <1>3, <1>4, <1>5, <1>6, <1>7, <1>8, <1>9, <1>10 DEF Next

\* Theorem: a plugin that is installed and whose runtime is supported has a live
\* host whose exit will be heard, or its next run is on its way: a request that
\* gives way (to a newer host, or because it found no plugin) leaves one behind.
THEOREM NeverDownCorrect == Spec => []NeverStranded
<1>1. Init => Supervised
  <2> SUFFICES ASSUME Init PROVE Supervised
    OBVIOUS
  <2>1. CASE loads = <<Host>> /\ current = 1
    BY <2>1 DEF Supervised, Guarded, Attended, Live, Host
  <2>2. CASE loads = <<Retry>>
    BY <2>2 DEF Supervised, Guarded, Attended, Pending, Retry
  <2>3. CASE loads = <<>> /\ refused
    BY <2>3 DEF Supervised, Guarded
  <2> QED
    BY <2>1, <2>2, <2>3 DEF Init
<1>2. TypeOK /\ Supervised => NeverStranded
  <2> SUFFICES ASSUME TypeOK, Supervised, device, stored, ~refused
               PROVE  (Live /\ loads[current].up) \/ Coming
    BY DEF NeverStranded
  <2>1. CASE Live
    <3>1. current \in DOMAIN loads
      BY <2>1, LenProperties DEF TypeOK, Live
    <3> QED
      BY <2>1, <3>1 DEF Supervised, Guarded, Live
  <2>2. CASE Pending(loads) \/ \E t \in BagToSet(tasks) : WillRun(t)
    BY <2>2 DEF Pending, WillRun, Coming
  <2> QED
    BY <2>1, <2>2 DEF Supervised, Attended
<1> QED
  BY <1>1, <1>2, SupervisedStep, TypeCorrect, PTL DEF Spec
=============================================================================
