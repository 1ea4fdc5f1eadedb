---------------------------- MODULE DoorbellCast ----------------------------
(***************************************************************************)
(* DoorbellCastOrchestrator of common/src/doorbell-cast.ts: a doorbell     *)
(* press opens a session that asks every display for an overlay, each with *)
(* its own retries (connectWithRetry of common/src/ingest.ts), sets a timer*)
(* per display to take it down again, and can be dismissed at any time.    *)
(*                                                                         *)
(* The displays and the onCastSuccess hook are external. showPip may fail  *)
(* or hang, before or after the overlay is up; dismissPip takes down       *)
(* whatever overlay the display shows, or fails; the hook may throw.       *)
(***************************************************************************)
EXTENDS Naturals

CONSTANTS
  Events,      \* ids of doorbell events with a live stream
  Targets,     \* displays
  Flaky,       \* those whose showPip may fail
  Hung,        \* those whose showPip may never return
  MaxAttempts, \* retry.maxAttempts
  MaxSessions, \* bound: sessions that handle() opens
  None         \* undefined

ASSUME CastAssumption ==
  /\ Flaky \subseteq Targets /\ Hung \subseteq Targets
  /\ MaxAttempts \in Nat \ {0} /\ MaxSessions \in Nat
  /\ None \notin Events \cup Nat

Sessions == 1..MaxSessions

VARIABLES
  opened,         \* sessions opened so far
  event,          \* session -> the event it is for
  activeSessions, \* event -> its session
  cast,           \* session, display -> state of castToTarget
  attempts,       \* session, display -> attempt, the counter of the retry loop
  dismissTimers,  \* session -> displays with a pending timer
  dismissing,     \* calls of dismissPip that have not returned
  pip,            \* display -> session whose overlay it shows
  stuck,          \* displays that failed to take down what they show (history)
  dismissed       \* sessions that dismiss() ended (history)

timers == <<dismissTimers, dismissing>>
display == <<pip, stuck>>
vars == <<opened, event, activeSessions, cast, attempts, timers, display, dismissed>>

\* "showing": showPip put the overlay up and has not returned.
CastStates == {"idle", "calling", "showing", "backoff", "shown", "failed"}
Calling(s, t) == cast[s][t] \in {"calling", "showing"}

Init ==
  /\ opened = 0
  /\ event = [s \in Sessions |-> None]
  /\ activeSessions = [e \in Events |-> None]
  /\ cast = [s \in Sessions |-> [t \in Targets |-> "idle"]]
  /\ attempts = [s \in Sessions |-> [t \in Targets |-> 0]]
  /\ dismissTimers = [s \in Sessions |-> {}]
  /\ dismissing = {}
  /\ pip = [t \in Targets |-> None]
  /\ stuck = {} /\ dismissed = {}
-----------------------------------------------------------------------------
\* handle(): an event with an active session is a duplicate and ignored.
Handle(e) ==
  /\ activeSessions[e] = None /\ opened < MaxSessions
  /\ opened' = opened + 1
  /\ event' = [event EXCEPT ![opened'] = e]
  /\ activeSessions' = [activeSessions EXCEPT ![e] = opened']
  /\ cast' = [cast EXCEPT ![opened'] = [t \in Targets |-> "calling"]]
  /\ UNCHANGED <<attempts, timers, display, dismissed>>

\* The display puts the overlay up. A call of showPip that returns has done so; one
\* that fails or hangs may have.
Shows(s, t) ==
  /\ cast[s][t] = "calling"
  /\ cast' = [cast EXCEPT ![s][t] = "showing"]
  /\ pip' = [pip EXCEPT ![t] = s] /\ stuck' = stuck \ {t}
  /\ UNCHANGED <<opened, event, activeSessions, attempts, timers, dismissed>>

\* Mutant: a session that was dismissed meanwhile gets no timer.
ShowUntimed(s, t) ==
  /\ cast[s][t] = "showing"
  /\ cast' = [cast EXCEPT ![s][t] = "shown"]
  /\ attempts' = [attempts EXCEPT ![s][t] = 0]
  /\ dismissTimers' = [dismissTimers EXCEPT ![s] =
                         IF activeSessions[event[s]] = s THEN @ \cup {t} ELSE @]
  /\ UNCHANGED <<opened, event, activeSessions, dismissing, display, dismissed>>

\* showPip returns and so does the hook: the timer is set, whatever happened to
\* the session and to the overlay meanwhile.
ShowReturns(s, t) ==
  /\ cast[s][t] = "showing"
  /\ cast' = [cast EXCEPT ![s][t] = "shown"]
  /\ attempts' = [attempts EXCEPT ![s][t] = 0]
  /\ dismissTimers' = [dismissTimers EXCEPT ![s] = @ \cup {t}]
  /\ UNCHANGED <<opened, event, activeSessions, dismissing, display, dismissed>>

\* showPip returns and onCastSuccess throws: the cast is taken for a failed one,
\* and the overlay gets no timer.
HookThrows(s, t) ==
  /\ cast[s][t] = "showing"
  /\ cast' = [cast EXCEPT ![s][t] = "failed"]
  /\ attempts' = [attempts EXCEPT ![s][t] = 0]
  /\ UNCHANGED <<opened, event, activeSessions, timers, display, dismissed>>

\* Mutant: the last attempt is not recognised as such.
ShowFailsLate(s, t) ==
  /\ t \in Flaky /\ Calling(s, t)
  /\ LET last == attempts[s][t] = MaxAttempts
     IN /\ attempts' = [attempts EXCEPT ![s][t] = IF last THEN 0 ELSE @ + 1]
        /\ cast' = [cast EXCEPT ![s][t] = IF last THEN "failed" ELSE "backoff"]
  /\ UNCHANGED <<opened, event, activeSessions, timers, display, dismissed>>

\* showPip throws, whether the overlay is up or not: connectWithRetry sleeps, or
\* gives up after the last attempt, and no timer is set.
ShowFails(s, t) ==
  /\ t \in Flaky /\ Calling(s, t)
  /\ LET last == attempts[s][t] = MaxAttempts - 1
     IN /\ attempts' = [attempts EXCEPT ![s][t] = IF last THEN 0 ELSE @ + 1]
        /\ cast' = [cast EXCEPT ![s][t] = IF last THEN "failed" ELSE "backoff"]
  /\ UNCHANGED <<opened, event, activeSessions, timers, display, dismissed>>

\* Mutant: a round of retries begins when every display has answered.
RetryTogether(s, t) ==
  /\ cast[s][t] = "backoff" /\ \A u \in Targets : ~Calling(s, u)
  /\ cast' = [cast EXCEPT ![s] =
                [u \in Targets |-> IF @[u] = "backoff" THEN "calling" ELSE @[u]]]
  /\ UNCHANGED <<opened, event, activeSessions, attempts, timers, display, dismissed>>

\* The sleep ends, and the next attempt begins.
Retry(s, t) ==
  /\ cast[s][t] = "backoff"
  /\ cast' = [cast EXCEPT ![s][t] = "calling"]
  /\ UNCHANGED <<opened, event, activeSessions, attempts, timers, display, dismissed>>

\* The timer of one display ends the session for all of them, and any later
\* session of the same event too.
TimerFires(s, t) ==
  /\ t \in dismissTimers[s]
  /\ dismissTimers' = [dismissTimers EXCEPT ![s] = @ \ {t}]
  /\ activeSessions' = [activeSessions EXCEPT ![event[s]] = None]
  /\ dismissing' = dismissing \cup {<<s, t>>}
  /\ UNCHANGED <<opened, event, cast, attempts, display, dismissed>>

\* Mutant: dismiss() clears the timers, and dismissPip is called for none.
DismissQuietly(e) ==
  LET s == activeSessions[e]
  IN /\ s # None
     /\ activeSessions' = [activeSessions EXCEPT ![e] = None]
     /\ dismissTimers' = [dismissTimers EXCEPT ![s] = {}]
     /\ dismissed' = dismissed \cup {s}
     /\ UNCHANGED <<opened, event, cast, attempts, dismissing, display>>

\* dismiss(): every display is told, whether it shows anything or not; the
\* casts that are still being tried go on.
Dismiss(e) ==
  LET s == activeSessions[e]
  IN /\ s # None
     /\ activeSessions' = [activeSessions EXCEPT ![e] = None]
     /\ dismissTimers' = [dismissTimers EXCEPT ![s] = {}]
     /\ dismissing' = dismissing \cup ({s} \X Targets)
     /\ dismissed' = dismissed \cup {s}
     /\ UNCHANGED <<opened, event, cast, attempts, display>>

\* A display carries out dismissPip, or fails to: the error is swallowed.
Dismissed(s, t) ==
  /\ <<s, t>> \in dismissing
  /\ dismissing' = dismissing \ {<<s, t>>}
  /\ \/ pip' = [pip EXCEPT ![t] = None] /\ stuck' = stuck \ {t}
     \/ pip[t] # None /\ stuck' = stuck \cup {t} /\ UNCHANGED pip
  /\ UNCHANGED <<opened, event, activeSessions, cast, attempts, dismissTimers, dismissed>>

Next ==
  \/ \E e \in Events : Handle(e) \/ Dismiss(e)
  \/ \E s \in Sessions, t \in Targets :
       \/ Shows(s, t) \/ ShowReturns(s, t) \/ HookThrows(s, t)
       \/ ShowFails(s, t) \/ Retry(s, t)
       \/ TimerFires(s, t) \/ Dismissed(s, t)

Spec == Init /\ [][Next]_vars

\* Timers fire, sleeps end, and displays answer, but for showPip of a hung one.
Answers(s, t) == Shows(s, t) \/ ShowReturns(s, t) \/ HookThrows(s, t) \/ ShowFails(s, t)

Fairness ==
  \A s \in Sessions, t \in Targets :
    /\ WF_vars(Retry(s, t)) /\ WF_vars(TimerFires(s, t)) /\ WF_vars(Dismissed(s, t))
    /\ t \notin Hung => WF_vars(Answers(s, t))

FairSpec == Spec /\ Fairness
-----------------------------------------------------------------------------
TypeOK ==
  /\ opened \in 0..MaxSessions
  /\ event \in [Sessions -> Events \cup {None}]
  /\ \A s \in Sessions : event[s] = None <=> s > opened
  /\ activeSessions \in [Events -> 1..opened \cup {None}]
  /\ cast \in [Sessions -> [Targets -> CastStates]]
  /\ attempts \in [Sessions -> [Targets -> 0..MaxAttempts - 1]]
  /\ dismissTimers \in [Sessions -> SUBSET Targets]
  /\ dismissing \subseteq Sessions \X Targets /\ stuck \subseteq Targets
  /\ pip \in [Targets -> Sessions \cup {None}]
  /\ dismissed \subseteq Sessions

\* No overlay that was cast is left up with nobody to take it down: its own
\* timer is pending, or a dismissPip is on its way, or the display refused one.
\* This holds for the overlay of a session that was dismissed or replaced while
\* it was being cast. The overlays it does not cover are those of a cast that is
\* still trying, and of one that failed with the overlay up: showPip rejected or
\* the hook threw after the display showed it, and then no timer is set.
OverlayHasEnd ==
  \A t \in Targets : pip[t] # None /\ cast[pip[t]][t] = "shown" =>
    \/ t \in dismissTimers[pip[t]]
    \/ \E s \in Sessions : <<s, t>> \in dismissing
    \/ t \in stuck

\* A display that shows an overlay comes to show none in the end, whichever
\* session's it is by then, unless it refused to take it down, the cast of it
\* failed although it was up, or the display never answered showPip.
OverlayEnds ==
  \A t \in Targets :
    pip[t] # None ~> \/ pip[t] = None \/ t \in stuck
                     \/ cast[pip[t]][t] = "failed"
                     \/ t \in Hung /\ cast[pip[t]][t] # "shown"

\* "Failures on one target do not block others": the cast to a display that
\* answers is decided in the end, whatever the other displays do.
CastSettles ==
  \A s \in Sessions : \A t \in Targets \ Hung :
    cast[s][t] # "idle" ~> cast[s][t] \in {"shown", "failed"}

\* "Explicitly dismiss all active PiP sessions for a given event ID": once the
\* displays carried the dismissal out, none shows an overlay of that session.
DismissedStaysDown ==
  \A t \in Targets : pip[t] \in dismissed =>
    \/ t \in stuck
    \/ \E s \in Sessions : <<s, t>> \in dismissing
=============================================================================
