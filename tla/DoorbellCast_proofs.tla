------------------------- MODULE DoorbellCast_proofs -------------------------
(***************************************************************************)
(* Proofs about DoorbellCast: its type invariant, and that no overlay is   *)
(* left up with nobody to take it down.                                    *)
(***************************************************************************)
EXTENDS DoorbellCast, TLAPS
-----------------------------------------------------------------------------
(* Types *)

\* The initial state has the types.
LEMMA TypeInit == Init => TypeOK
BY CastAssumption DEF Init, TypeOK, Sessions, CastStates

\* A step of one cast keeps the casts and the attempts typed.
LEMMA CastChanges ==
  ASSUME cast \in [Sessions -> [Targets -> CastStates]],
         NEW s \in Sessions, NEW t \in Targets, NEW c \in CastStates
  PROVE  [cast EXCEPT ![s][t] = c] \in [Sessions -> [Targets -> CastStates]]
OBVIOUS

\* A step of one cast keeps the attempts typed.
LEMMA AttemptsChange ==
  ASSUME attempts \in [Sessions -> [Targets -> 0..MaxAttempts - 1]],
         NEW s \in Sessions, NEW t \in Targets, NEW n \in 0..MaxAttempts - 1
  PROVE  [attempts EXCEPT ![s][t] = n] \in [Sessions -> [Targets -> 0..MaxAttempts - 1]]
OBVIOUS

\* Every step keeps the types.
LEMMA TypeStep == TypeOK /\ [Next]_vars => TypeOK'
<1> SUFFICES ASSUME TypeOK, [Next]_vars PROVE TypeOK'
  OBVIOUS
<1> USE CastAssumption DEF TypeOK, Sessions, CastStates
<1>1. ASSUME NEW e \in Events, Handle(e) PROVE TypeOK'
  <2>1. opened' = opened + 1 /\ opened' \in Sessions /\ opened \in Nat
    BY <1>1 DEF Handle
  <2>2. event' \in [Sessions -> Events \cup {None}]
        /\ \A s \in Sessions : event'[s] = None <=> s > opened'
    BY <1>1, <2>1 DEF Handle
  <2>3. activeSessions' \in [Events -> 1..opened' \cup {None}]
    BY <1>1, <2>1 DEF Handle
  <2>4. cast' \in [Sessions -> [Targets -> CastStates]]
    BY <1>1, <2>1 DEF Handle
  <2> QED
    BY <1>1, <2>1, <2>2, <2>3, <2>4 DEF Handle, timers, display
<1>2. ASSUME NEW e \in Events, Dismiss(e) PROVE TypeOK'
  <2>1. activeSessions[e] \in Sessions /\ activeSessions' \in [Events -> 1..opened \cup {None}]
    BY <1>2 DEF Dismiss
  <2>2. /\ dismissTimers' \in [Sessions -> SUBSET Targets]
        /\ dismissing' \subseteq Sessions \X Targets /\ dismissed' \subseteq Sessions
    BY <1>2, <2>1 DEF Dismiss
  <2> QED
    BY <1>2, <2>1, <2>2 DEF Dismiss, display
<1>3. ASSUME NEW s \in Sessions, NEW t \in Targets, Shows(s, t) PROVE TypeOK'
  <2>1. cast' \in [Sessions -> [Targets -> CastStates]]
    BY <1>3, CastChanges DEF Shows
  <2>2. pip' \in [Targets -> Sessions \cup {None}] /\ stuck' \subseteq Targets
    BY <1>3 DEF Shows
  <2> QED
    BY <1>3, <2>1, <2>2 DEF Shows, timers
<1>4. ASSUME NEW s \in Sessions, NEW t \in Targets, ShowReturns(s, t) PROVE TypeOK'
  <2>1. cast' \in [Sessions -> [Targets -> CastStates]]
    BY <1>4, CastChanges DEF ShowReturns
  <2>2. attempts' \in [Sessions -> [Targets -> 0..MaxAttempts - 1]]
    BY <1>4, AttemptsChange DEF ShowReturns
  <2>3. dismissTimers' \in [Sessions -> SUBSET Targets]
    BY <1>4 DEF ShowReturns
  <2> QED
    BY <1>4, <2>1, <2>2, <2>3 DEF ShowReturns, display
<1>5. ASSUME NEW s \in Sessions, NEW t \in Targets, HookThrows(s, t) PROVE TypeOK'
  <2>1. cast' \in [Sessions -> [Targets -> CastStates]]
    BY <1>5, CastChanges DEF HookThrows
  <2>2. attempts' \in [Sessions -> [Targets -> 0..MaxAttempts - 1]]
    BY <1>5, AttemptsChange DEF HookThrows
  <2> QED
    BY <1>5, <2>1, <2>2 DEF HookThrows, timers, display
<1>6. ASSUME NEW s \in Sessions, NEW t \in Targets, ShowFails(s, t) PROVE TypeOK'
  <2> DEFINE last == attempts[s][t] = MaxAttempts - 1
             n == IF last THEN 0 ELSE attempts[s][t] + 1
             c == IF last THEN "failed" ELSE "backoff"
  <2>1. n \in 0..MaxAttempts - 1
    <3>1. attempts[s][t] \in 0..MaxAttempts - 1
      OBVIOUS
    <3> QED
      BY <3>1
  <2>2. attempts' = [attempts EXCEPT ![s][t] = n] /\ cast' = [cast EXCEPT ![s][t] = c]
    BY <1>6 DEF ShowFails
  <2>3. c \in CastStates
    OBVIOUS
  <2> HIDE DEF n, c
  <2>4. attempts' \in [Sessions -> [Targets -> 0..MaxAttempts - 1]]
    BY <2>1, <2>2, AttemptsChange
  <2>5. cast' \in [Sessions -> [Targets -> CastStates]]
    BY <2>2, <2>3, CastChanges
  <2> QED
    BY <1>6, <2>4, <2>5 DEF ShowFails, timers, display
<1>7. ASSUME NEW s \in Sessions, NEW t \in Targets, Retry(s, t) PROVE TypeOK'
  <2>1. cast' \in [Sessions -> [Targets -> CastStates]]
    BY <1>7, CastChanges DEF Retry
  <2> QED
    BY <1>7, <2>1 DEF Retry, timers, display
<1>8. ASSUME NEW s \in Sessions, NEW t \in Targets, TimerFires(s, t) PROVE TypeOK'
  <2>1. dismissTimers' \in [Sessions -> SUBSET Targets]
    BY <1>8 DEF TimerFires
  <2>2. activeSessions' \in [Events -> 1..opened \cup {None}]
    BY <1>8 DEF TimerFires
  <2>3. dismissing' \subseteq Sessions \X Targets
    BY <1>8 DEF TimerFires
  <2>4. UNCHANGED <<opened, event, cast, attempts, pip, stuck, dismissed>>
    BY <1>8 DEF TimerFires, display
  <2> QED
    BY <2>1, <2>2, <2>3, <2>4
<1>9. ASSUME NEW s \in Sessions, NEW t \in Targets, Dismissed(s, t) PROVE TypeOK'
  BY <1>9 DEF Dismissed
<1>10. CASE UNCHANGED vars
  BY <1>10 DEF vars, timers, display
<1> QED
  BY <1>1, <1>2, <1>3, <1>4, <1>5, <1>6, <1>7, <1>8, <1>9, <1>10 DEF Next

\* Theorem: every variable keeps its type, for all events, displays and bounds;
\* in particular showPip is never tried again after attempt retry.maxAttempts.
THEOREM TypeCorrect == Spec => []TypeOK
BY TypeInit, TypeStep, PTL DEF Spec
-----------------------------------------------------------------------------
(* The end of an overlay *)

\* What the invariant says of one display.
HasEnd(t) ==
  pip[t] # None /\ cast[pip[t]][t] = "shown" =>
    \/ t \in dismissTimers[pip[t]]
    \/ \E s \in Sessions : <<s, t>> \in dismissing
    \/ t \in stuck

\* Every step passes the responsibility for an overlay on: showPip to its
\* timer, the timer and dismiss() to a call of dismissPip, and that to the
\* display.
LEMMA OverlayStep == TypeOK /\ OverlayHasEnd /\ [Next]_vars => OverlayHasEnd'
<1> SUFFICES ASSUME TypeOK, [Next]_vars, NEW t \in Targets, HasEnd(t) PROVE HasEnd(t)'
  BY DEF OverlayHasEnd, HasEnd
<1> USE CastAssumption DEF TypeOK, HasEnd
<1>1. ASSUME NEW e \in Events, Handle(e) PROVE HasEnd(t)'
  BY <1>1 DEF Handle, timers, display
<1>2. ASSUME NEW e \in Events, Dismiss(e) PROVE HasEnd(t)'
  <2>1. activeSessions[e] \in Sessions
    BY <1>2 DEF Dismiss, Sessions
  <2>2. <<activeSessions[e], t>> \in dismissing'
    BY <1>2 DEF Dismiss
  <2> QED
    BY <2>1, <2>2
<1>3. ASSUME NEW s \in Sessions, NEW u \in Targets, Shows(s, u) PROVE HasEnd(t)'
  BY <1>3 DEF Shows, timers
<1>4. ASSUME NEW s \in Sessions, NEW u \in Targets, ShowReturns(s, u) PROVE HasEnd(t)'
  BY <1>4 DEF ShowReturns, display
<1>5. ASSUME NEW s \in Sessions, NEW u \in Targets,
             HookThrows(s, u) \/ ShowFails(s, u) \/ Retry(s, u)
      PROVE  HasEnd(t)'
  <2>1. UNCHANGED <<dismissTimers, dismissing, pip, stuck>>
    BY <1>5 DEF HookThrows, ShowFails, Retry, timers, display
  <2>2. PICK c \in CastStates : c # "shown" /\ cast' = [cast EXCEPT ![s][u] = c]
    BY <1>5 DEF HookThrows, ShowFails, Retry, CastStates
  <2> QED
    BY <2>1, <2>2
<1>6. ASSUME NEW s \in Sessions, NEW u \in Targets, TimerFires(s, u) PROVE HasEnd(t)'
  BY <1>6 DEF TimerFires, display
<1>7. ASSUME NEW s \in Sessions, NEW u \in Targets, Dismissed(s, u) PROVE HasEnd(t)'
  BY <1>7 DEF Dismissed
<1>8. CASE UNCHANGED vars
  BY <1>8 DEF vars, timers, display
<1> QED
  BY <1>1, <1>2, <1>3, <1>4, <1>5, <1>6, <1>7, <1>8 DEF Next

\* Theorem: however sessions of an event overlap, retry, are replaced or are
\* dismissed while displays are still being asked, an overlay whose cast succeeded
\* has its own timer or a dismissPip on its way, or the display refused to take it
\* down. The theorem promises nothing of an overlay whose cast failed: showPip
\* that rejects after its effect and a hook that throws leave it without a timer.
THEOREM OverlayCorrect == Spec => []OverlayHasEnd
<1>1. Init => OverlayHasEnd
  BY DEF Init, OverlayHasEnd
<1>2. TypeOK /\ OverlayHasEnd /\ [Next]_vars => OverlayHasEnd'
  BY OverlayStep
<1> QED
  BY <1>1, <1>2, TypeCorrect, PTL DEF Spec
=============================================================================
