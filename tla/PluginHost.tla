----------------------------- MODULE PluginHost -----------------------------
(***************************************************************************)
(* The hosts of one plugin: loadPlugin, runPlugin, killPlugin and          *)
(* setupPluginHostAutoRestart of server/src/runtime.ts, with the requests  *)
(* that reach them: the user's (reload, kill, install, remove), a host's   *)
(* own (plugin-host-api.ts, when its ping fails), and the timers of every  *)
(* earlier host. Several of them are under way at once, each suspended at  *)
(* an await, and each then goes on with whatever host it finds.            *)
(***************************************************************************)
EXTENDS Sequences, Integers, Bags

CONSTANTS
  MaxLoads,      \* bound: hosts made, and failures to make one
  MaxRequests,   \* bound: requests of the user
  MaxFaults,     \* bound: faults of workers, and hosts that fail to load
  MaxEvents      \* bound: both together

ASSUME HostAssumption ==
  /\ MaxLoads \in Nat \ {0} /\ MaxFaults \in Nat \ {0}
  /\ MaxRequests \in Nat /\ MaxEvents \in Nat \ {0}

VARIABLES
  stored,    \* the Plugin is in the datastore
  device,    \* its PluginDevice is in pluginDevices
  current,   \* plugins[pluginId]: a host, or 0
  loads,     \* every host, and every failure that will be retried, with its `restart`
  tasks,     \* the suspended requests
  refused,   \* the last host to be loaded had an unsupported runtime
  left       \* requests and faults to come

vars == <<stored, device, current, loads, tasks, refused, left>>

\* `made` unless the constructor threw; `up` until its worker exits or reports
\* an error; `timer` is `timeout`; `asks` is `restartDebounced`: the host can still
\* ask for a restart, has asked, or was heard. A timer that is set may fire once
\* it is ripe.
Host  == [made |-> TRUE, killed |-> FALSE, up |-> TRUE, timer |-> "off", asks |-> "can"]
Retry == [made |-> FALSE, killed |-> TRUE, up |-> FALSE, timer |-> "set", asks |-> "did"]

Live == current # 0 /\ ~loads[current].killed

\* A request awaits the datastore ("get", "install", "remove", "forget") or the
\* exit of a worker. A "get" may find what was stored when it began.
Task(at, by, of) == [at |-> at, by |-> by, of |-> of, found |-> stored]

Started(t) == tasks' = tasks (+) SetToBag({t})
Ended(t)   == tasks' = tasks (-) SetToBag({t})
Moved(t, at) == tasks' = (tasks (-) SetToBag({t})) (+) SetToBag({[t EXCEPT !.at = at]})

Kill(hs, n) == IF n = 0 THEN hs ELSE [hs EXCEPT ![n].killed = TRUE]

\* Mutant: a host that was killed is not restarted.
RestartCrashed(hs, n) == IF hs[n].killed THEN hs ELSE [hs EXCEPT ![n].timer = "set", ![n].killed = TRUE]

\* `restart` of setupPluginHostAutoRestart.
Restart(hs, n) == IF hs[n].timer # "off" THEN hs ELSE [Kill(hs, n) EXCEPT ![n].timer = "set"]

Spend(what) ==
  /\ left[what] > 0 /\ left.events > 0
  /\ left' = [left EXCEPT ![what] = @ - 1, !.events = @ - 1]

\* After start(), whose loadPlugin may have failed.
Init ==
  /\ stored = TRUE /\ device = TRUE /\ tasks = EmptyBag
  /\ \E failed \in {0, 1} :
       /\ left = [requests |-> MaxRequests, faults |-> MaxFaults - failed, events |-> MaxEvents - failed]
       /\ \/ failed = 0 /\ loads = <<Host>> /\ current = 1 /\ refused = FALSE
          \/ failed = 1 /\ loads = <<Retry>> /\ current = 0 /\ refused = FALSE
          \/ failed = 1 /\ loads = <<>> /\ current = 0 /\ refused = TRUE
-----------------------------------------------------------------------------
\* A run of a timer that throws is scheduled again.
Failed(hs, t) == IF t.by = "timer" THEN Restart(hs, t.of) ELSE hs

\* Mutant: loadPlugin leaves the killing to runPlugin.
LoadOver(t, there) ==
  /\ Ended(t) /\ there /\ Len(loads) < MaxLoads
  /\ loads' = Append(loads, Host) /\ current' = Len(loads) + 1 /\ refused' = FALSE
  /\ UNCHANGED <<stored, left>>

\* Mutant: the constructor does without the device.
LoadAnyway(t, there) ==
  /\ Ended(t) /\ Len(loads) < MaxLoads
  /\ loads' = Append(Kill(loads, current), Host) /\ current' = Len(loads) + 1 /\ refused' = FALSE
  /\ UNCHANGED <<stored, left>>

\* Mutant: the host is registered before it is made.
LoadEarly(t, there) ==
  /\ Ended(t) /\ there /\ Len(loads) < MaxLoads /\ Spend("faults")
  /\ loads' = Failed(Append(Kill(loads, current), Retry), t) /\ current' = Len(loads) + 1
  /\ refused' = FALSE /\ UNCHANGED stored

\* loadPlugin: kill and forget the current host, make a new one. The
\* constructor throws if the device is not there (and so does the handler of
\* that error), if the runtime is not supported, or for any other reason.
Load(t, there) ==
  LET killed == Kill(loads, current)
  IN  /\ Ended(t) /\ UNCHANGED stored
      /\ \/ /\ there /\ Len(loads) < MaxLoads
            /\ loads' = Append(killed, Host) /\ current' = Len(loads) + 1
            /\ refused' = FALSE /\ UNCHANGED left
         \/ /\ there /\ Len(loads) < MaxLoads /\ Spend("faults")
            /\ loads' = Failed(Append(killed, Retry), t) /\ current' = 0 /\ refused' = FALSE
         \/ /\ there /\ Spend("faults")
            /\ loads' = Failed(killed, t) /\ current' = 0 /\ refused' = TRUE
         \/ /\ ~there
            /\ loads' = Failed(killed, t) /\ current' = 0 /\ UNCHANGED <<refused, left>>

\* runPlugin up to its await, if there is a host to wait for.
Run(t, there) ==
  \/ /\ current # 0 /\ Moved(t, "exit")
     /\ loads' = Kill(loads, current)
     /\ UNCHANGED <<stored, current, refused, left>>
  \/ current = 0 /\ Load(t, there)

\* The worker exited, or did not within 5 s.
WaitOver(t) == t.at = "exit" /\ Load(t, device) /\ UNCHANGED device
-----------------------------------------------------------------------------
(* The requests.                                                           *)

Reload == Spend("requests") /\ Started(Task("get", "user", 0)) /\ UNCHANGED <<stored, device, current, loads, refused>>

KillService ==
  /\ current # 0 /\ Spend("requests") /\ loads' = Kill(loads, current)
  /\ UNCHANGED <<stored, device, current, tasks, refused>>

\* installNpm up to the write of the plugin, and installPlugin.
Install ==
  /\ Spend("requests") /\ stored' = TRUE /\ Started([Task("install", "user", 0) EXCEPT !.found = TRUE])
  /\ UNCHANGED <<device, current, loads, refused>>

\* installPlugin: upsertDevice makes the device if there is none.
Installed(t) == t.at = "install" /\ device' = TRUE /\ Run(t, TRUE)

\* removeDevice up to its first await, to its second, and the rest.
RemoveDevice ==
  /\ device /\ Spend("requests") /\ device' = FALSE /\ Started([Task("remove", "user", 0) EXCEPT !.found = TRUE])
  /\ UNCHANGED <<stored, current, loads, refused>>

RemoveKills(t) ==
  /\ t.at = "remove" /\ Moved(t, "forget")
  /\ loads' = Kill(loads, current) /\ current' = 0
  /\ UNCHANGED <<stored, device, refused, left>>

Removed(t) ==
  /\ t.at = "forget" /\ Ended(t) /\ stored' = FALSE
  /\ UNCHANGED <<device, current, loads, refused, left>>

\* The worker reports an error or exits: the first of the two that is heard sets
\* the timer. Of one that was not killed that is a fault.
WorkerExits(n) ==
  /\ loads[n].up
  /\ IF loads[n].killed THEN UNCHANGED left ELSE Spend("faults")
  /\ loads' = Restart([loads EXCEPT ![n].up = FALSE], n)
  /\ UNCHANGED <<stored, device, current, tasks, refused>>

\* requestRestart, by the ping that fails, which it also does when the peer is
\* killed, or by the plugin.
Ask(n) ==
  /\ loads[n].asks = "can" /\ n = current
  /\ IF loads[n].killed THEN UNCHANGED left ELSE Spend("faults")
  /\ loads' = [loads EXCEPT ![n].asks = "due"]
  /\ UNCHANGED <<stored, device, current, tasks, refused>>

\* Timers are longer than anything else: the 15 s and 60 s pass only when what
\* awaits (5 s at most) is over and killed workers are gone (SIGKILL after 1 s).
TimePasses ==
  /\ tasks = EmptyBag
  /\ \A n \in DOMAIN loads : loads[n].killed => ~loads[n].up
  /\ \E n \in DOMAIN loads : loads[n].timer = "set" \/ loads[n].asks = "due"
  /\ loads' = [n \in DOMAIN loads |->
       [loads[n] EXCEPT !.timer = IF @ = "set" THEN "ripe" ELSE @,
                        !.asks = IF @ = "due" THEN "ripe" ELSE @]]
  /\ UNCHANGED <<stored, device, current, tasks, refused, left>>

DebounceFires(n) ==
  /\ loads[n].asks = "ripe" /\ loads' = [loads EXCEPT ![n].asks = "did"]
  /\ Started(Task("get", "health", n))
  /\ UNCHANGED <<stored, device, current, refused, left>>

TimerFires(n) ==
  /\ loads[n].timer = "ripe" /\ loads' = [loads EXCEPT ![n].timer = "off"]
  /\ Started(Task("get", "timer", n))
  /\ UNCHANGED <<stored, device, current, refused, left>>

\* "restarted by user": only a timer that has a host can tell.
Superseded(n) == Live /\ loads[n].made /\ current # n

\* What each does with what it found.
Wanted(t, found) ==
  /\ found
  /\ t.by = "timer" => ~Superseded(t.of)
  /\ t.by = "health" => current = t.of

Got(t) ==
  /\ t.at = "get"
  /\ \E found \in {t.found, stored} :
       \/ Wanted(t, found) /\ Run(t, device) /\ UNCHANGED device
       \/ ~Wanted(t, found) /\ Ended(t) /\ UNCHANGED <<stored, device, current, loads, refused, left>>

Continue == \E t \in BagToSet(tasks) :
  Got(t) \/ Installed(t) \/ WaitOver(t) \/ RemoveKills(t) \/ Removed(t)

Next ==
  \/ Reload \/ KillService \/ Install \/ RemoveDevice \/ Continue \/ TimePasses
  \/ \E n \in DOMAIN loads : \/ WorkerExits(n) \/ Ask(n)
                             \/ DebounceFires(n) \/ TimerFires(n)

\* Awaits and timers end, and a worker that was killed exits (SIGKILL).
Fairness ==
  /\ WF_vars(Continue) /\ WF_vars(TimePasses)
  /\ WF_vars(\E n \in DOMAIN loads : TimerFires(n))
  /\ WF_vars(\E n \in DOMAIN loads : DebounceFires(n))
  /\ WF_vars(\E n \in DOMAIN loads : loads[n].killed /\ WorkerExits(n))

Spec == Init /\ [][Next]_vars /\ Fairness
-----------------------------------------------------------------------------
LoadType == [made : BOOLEAN, killed : BOOLEAN, up : BOOLEAN,
             timer : {"off", "set", "ripe"}, asks : {"can", "due", "ripe", "did"}]

TaskType == [at : {"get", "exit", "install", "remove", "forget"}, by : {"user", "timer", "health"},
             of : 0..Len(loads), found : BOOLEAN]

TypeOK ==
  /\ stored \in BOOLEAN /\ device \in BOOLEAN /\ refused \in BOOLEAN
  /\ loads \in Seq(LoadType) /\ Len(loads) <= MaxLoads
  /\ current \in 0..Len(loads) /\ (current # 0 => loads[current].made)
  /\ IsABag(tasks) /\ BagToSet(tasks) \subseteq TaskType
  /\ left \in [requests : 0..MaxRequests, faults : 0..MaxFaults, events : 0..MaxEvents]

\* However many reloads, restarts and installs overlap, at most one host is
\* not killed, and that is the one `plugins` names: no worker goes on that
\* nobody could stop any more.
OneLiveHost == \A n \in DOMAIN loads : ~loads[n].killed => n = current

\* What will run the plugin again, or go on to.
Coming ==
  \/ \E n \in DOMAIN loads : loads[n].timer # "off" \/ (loads[n].killed /\ loads[n].up)
  \/ \E t \in BagToSet(tasks) : t.at \in {"exit", "install"} \/ (t.at = "get" /\ t.by # "health")

\* A plugin that is installed, and whose runtime is supported, has a live host
\* whose exit will be noticed, or a restart is on its way: no failure and no
\* overlap of requests leaves it down for good.
NeverStranded ==
  device /\ stored /\ ~refused => (Live /\ loads[current].up) \/ Coming

\* A plugin whose device was removed has no live host once the removal got to
\* killing it, whatever restart was under way then.
RemovedStaysDown == ~device /\ Live => \E t \in BagToSet(tasks) : t.at = "remove"

\* When no more events come, the timers of earlier hosts, the restarts they
\* begin and the exits those cause die down, and a plugin that is installed
\* has a live host.
ComesBack == <>[](/\ tasks = EmptyBag /\ \A n \in DOMAIN loads : loads[n].timer = "off"
                  /\ device /\ stored /\ ~refused => Live)
=============================================================================
