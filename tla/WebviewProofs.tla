---------------------------- MODULE WebviewProofs ----------------------------
(***************************************************************************)
(* Proofs about the two stateful parts of the webview.                     *)
(*                                                                         *)
(* The connection hook (AutoReconnect), for every retry budget and any     *)
(* number of Reconnect presses and sleeps: the attempts of the             *)
(* auto-reconnect session are sound, one at a time, within the budget and  *)
(* never announced when none is made.                                      *)
(*                                                                         *)
(* The resource table (TableView), for every set of pairs, uids and rows,  *)
(* every cap and any number of batches on the wire: no pair's sync ends    *)
(* before its list, and no cached row is missed between the snapshot and   *)
(* the deltas.                                                             *)
(***************************************************************************)
EXTENDS AutoReconnect, TableView, TLAPS

-----------------------------------------------------------------------------
(* The controller by itself: what every operator on it keeps.  A back-off  *)
(* is only set while the budget lasts, and only a session shows as busy.   *)
Sound(c) ==
  /\ c \in Controls
  /\ ~(c.backoff /\ c.inFlight)
  /\ c.backoff => c.used < MaxAuto
  /\ c.busy => c.session

(* Nothing the controller does leaves it busy with no retry under way,     *)
(* given what the retry is (r): a back-off of its own, or one it was told. *)
Announced(c, r) == c.busy => c.backoff \/ r

LEMMA EndSessionFacts ==
  ASSUME NEW c \in Controls, NEW reset \in BOOLEAN
  PROVE  LET d == endSession(c, reset)
         IN Sound(d) /\ ~d.busy /\ ~d.backoff /\ ~d.inFlight
<1> DEFINE d == endSession(c, reset)
<1>1. /\ d.used = IF reset THEN 0 ELSE c.used
      /\ d.session = FALSE /\ d.inFlight = FALSE /\ d.backoff = FALSE
      /\ d.dwell = FALSE /\ d.busy = FALSE
  BY DEF endSession, Controls
<1>2. d.used \in 0..MaxAuto
  BY <1>1, MaxAutoAssumption DEF Controls
<1>4. d \in Controls
  <2>1. CASE reset = TRUE
    <3>1. d = [c EXCEPT !.backoff = FALSE, !.dwell = FALSE, !.session = FALSE,
                        !.inFlight = FALSE, !.busy = FALSE, !.used = 0]
      BY <2>1 DEF endSession
    <3>2. 0 \in 0..MaxAuto
      BY MaxAutoAssumption
    <3> HIDE DEF d
    <3> QED
      BY <3>1, <3>2 DEF Controls
  <2>2. CASE reset = FALSE
    BY <2>2, MaxAutoAssumption DEF endSession, Controls
  <2> QED
    BY <2>1, <2>2
<1> QED
  BY <1>1, <1>4 DEF Sound

LEMMA ScheduleFacts ==
  ASSUME NEW c, Sound(c)
  PROVE  LET d == scheduleNext(c)
         IN /\ Sound(d)
            /\ ~c.inFlight => Announced(d, FALSE)
            /\ \A r \in BOOLEAN : Announced(c, r) => Announced(d, r)
<1> USE DEF Sound, Announced
<1>1. CASE Dedupe(c)
  BY <1>1 DEF scheduleNext, Dedupe, Controls
<1>2. CASE ~Dedupe(c) /\ Exhausted(c)
  <2>1. scheduleNext(c) = endSession(c, FALSE)
    BY <1>2 DEF scheduleNext
  <2> QED
    BY <2>1, EndSessionFacts
<1>3. CASE ~Dedupe(c) /\ ~Exhausted(c)
  <2>1. scheduleNext(c) = [c EXCEPT !.session = TRUE, !.busy = TRUE, !.backoff = TRUE]
    BY <1>3 DEF scheduleNext
  <2>2. scheduleNext(c) \in Controls
    BY <2>1 DEF Controls
  <2>3. c.used < MaxAuto /\ ~c.inFlight
    BY <1>3, MaxAutoAssumption DEF Dedupe, Exhausted, Controls
  <2> QED
    BY <2>1, <2>2, <2>3 DEF Controls
<1> QED
  BY <1>1, <1>2, <1>3

(* An unavailable event, and a resume, keep a retry that is announced. *)
LEMMA UnavailableFacts ==
  ASSUME NEW c, Sound(c), NEW permanent \in BOOLEAN, NEW r \in BOOLEAN, Announced(c, r)
  PROVE  Sound(onUnavailable(c, permanent)) /\ Announced(onUnavailable(c, permanent), r)
<1> DEFINE d == [c EXCEPT !.dwell = FALSE]
<1>1. d \in Controls
  BY DEF Sound, Controls
<1>2. Sound(d) /\ Announced(d, r)
  BY <1>1 DEF Sound, Announced, Controls
<1>3. CASE permanent
  <2>1. onUnavailable(c, permanent) = endSession(d, TRUE)
    BY <1>3 DEF onUnavailable
  <2> QED
    BY <1>1, <2>1, EndSessionFacts DEF Announced
<1>4. CASE ~permanent
  <2>1. onUnavailable(c, permanent) = scheduleNext(d)
    BY <1>4 DEF onUnavailable
  <2> HIDE DEF d
  <2> QED
    BY <1>2, <2>1, ScheduleFacts
<1> QED
  BY <1>3, <1>4

LEMMA ResumedFacts ==
  ASSUME NEW c, Sound(c)
  PROVE  Sound(onResumed(c)) /\ Announced(onResumed(c), FALSE)
<1> DEFINE d == endSession(c, TRUE)
<1>1. Sound(d) /\ ~d.inFlight
  BY EndSessionFacts DEF Sound
<1> HIDE DEF d
<1>2. onResumed(c) = scheduleNext(d)
  BY DEF onResumed, d
<1> QED
  BY <1>1, <1>2, ScheduleFacts

(* Whatever an attempt came to, what is announced from then on is a        *)
(* back-off.                                                               *)
LEMMA ResolvedFacts ==
  ASSUME NEW c, Sound(c), NEW ok \in BOOLEAN, NEW permanent \in BOOLEAN
  PROVE  LET e == onConnectResolved(c, ok, permanent) IN Sound(e) /\ Announced(e, FALSE)
<1> DEFINE d == [c EXCEPT !.inFlight = FALSE]
           e == onConnectResolved(c, ok, permanent)
<1>1. d \in Controls
  BY DEF Sound, Controls
<1>2. Sound(d) /\ d.inFlight = FALSE
  BY <1>1 DEF Sound, Controls
<1>3. e = CASE ~d.session -> d
            [] d.session /\ ok -> Connected(d)
            [] d.session /\ ~ok /\ permanent -> endSession(d, TRUE)
            [] d.session /\ ~ok /\ ~permanent -> Failed(d)
  BY DEF onConnectResolved
<1>4. d.session \in BOOLEAN
  BY <1>1 DEF Controls
<1> HIDE DEF d
<1>5. CASE ~d.session
  <2>1. e = d
    BY <1>3, <1>5
  <2> QED
    BY <1>2, <1>5, <2>1 DEF Sound, Announced
<1>6. CASE d.session /\ ok
  <2>1. e = [d EXCEPT !.busy = FALSE, !.dwell = TRUE]
    BY <1>3, <1>6 DEF Connected
  <2>2. e \in Controls
    BY <1>1, <2>1 DEF Controls
  <2> QED
    BY <1>1, <1>2, <2>1, <2>2 DEF Sound, Announced, Controls
<1>7. CASE d.session /\ ~ok /\ permanent
  <2>1. e = endSession(d, TRUE)
    BY <1>3, <1>7
  <2> QED
    BY <1>1, <2>1, EndSessionFacts DEF Announced
<1>8. CASE d.session /\ ~ok /\ ~permanent
  <2>1. e = scheduleNext(d)
    BY <1>3, <1>8 DEF Failed
  <2> QED
    BY <1>2, <2>1, ScheduleFacts
<1> QED
  BY <1>5, <1>6, <1>7, <1>8

-----------------------------------------------------------------------------
(* The inductive invariant: the controller is sound, and the operator's    *)
(* calls under way are no more than the presses.                           *)
IInv == TypeOK /\ Sound(ctl) /\ BusyMeansRetrying /\ calls.manual <= presses

LEMMA InitIInv == Init => IInv
<1> SUFFICES ASSUME Init PROVE IInv
  OBVIOUS
<1>1. ctl \in Controls
  BY MaxAutoAssumption DEF Init, Controls
<1>2. TypeOK
  <2>1. 0 \in 0..MaxPresses /\ 0 \in 0..MaxResumes
    BY OperatorAssumption
  <2>2. calls \in [auto : Nat, manual : 0..MaxPresses]
    BY <2>1 DEF Init
  <2>3. ref \in [health : Healths, active : BOOLEAN, seen : 0..MaxResumes, deferred : BOOLEAN]
    BY <2>1 DEF Init, Healths
  <2>4. shown \in Healths \X BOOLEAN \X States \X BOOLEAN \X (0..MaxResumes)
    BY <2>1 DEF Init, Healths, States
  <2> QED
    BY <1>1, <2>1, <2>2, <2>3, <2>4 DEF Init, TypeOK, Reuse, States, Healths
<1> QED
  BY <1>1, <1>2, OperatorAssumption DEF Init, IInv, Sound, BusyMeansRetrying

-----------------------------------------------------------------------------
(* A step that sets no field of the controller, and takes no retry away    *)
(* that it announces.                                                      *)
LEMMA SessionFrame ==
  ASSUME IInv, TypeOK', UNCHANGED <<ctl, calls, conn, presses>>,
         st = "cancelled" => st' = "cancelled"
  PROVE  IInv'
  BY DEF IInv, BusyMeansRetrying, Sound

(* A new state of the controller with its retry. *)
LEMMA SessionStep ==
  ASSUME TypeOK', Sound(ctl'), NEW r \in BOOLEAN, Announced(ctl', r),
         r => (calls'.auto > 0 \/ conn' # "none" \/ st' = "cancelled"),
         calls'.manual <= presses'
  PROVE  IInv'
  BY DEF IInv, BusyMeansRetrying, Announced

(* The session's own steps and the Reconnect button. *)
LEMMA ControllerStep ==
  ASSUME IInv, runAttempt \/ DwellOver \/ reconnect
  PROVE  IInv'
<1>1. TypeOK /\ Sound(ctl) /\ ctl \in Controls
  BY DEF IInv, Sound
<1>2. /\ calls \in [auto : Nat, manual : 0..MaxPresses] /\ presses \in 0..MaxPresses
      /\ calls.manual <= presses
  BY DEF IInv, TypeOK
<1>3. CASE runAttempt
  <2>1. /\ ctl' = [ctl EXCEPT !.backoff = FALSE, !.used = @ + 1, !.inFlight = TRUE]
        /\ calls' = [calls EXCEPT !.auto = @ + 1] /\ ctl.backoff
    BY <1>3 DEF runAttempt
  <2>2. ctl.used + 1 \in 0..MaxAuto
    BY <1>1, <2>1, MaxAutoAssumption DEF Sound, Controls
  <2>3. ctl' \in Controls
    BY <1>1, <2>1, <2>2 DEF Controls
  <2>4. Sound(ctl')
    BY <1>1, <2>1, <2>3 DEF Sound, Controls
  <2>5. calls' \in [auto : Nat, manual : 0..MaxPresses] /\ calls'.auto > 0
        /\ calls'.manual = calls.manual
    BY <1>2, <2>1
  <2>6. TypeOK' /\ presses' = presses
    <3>1. UNCHANGED <<alive, entry, st, conn, health, perm, hydrate, tab, epoch, ref, shown, presses>>
      BY <1>3 DEF runAttempt
    <3> QED
      BY <1>1, <2>3, <2>5, <3>1 DEF TypeOK
  <2> QED
    BY <1>2, <2>4, <2>5, <2>6, SessionStep DEF Announced
<1>4. CASE DwellOver
  <2>1. ctl' = endSession(ctl, TRUE) /\ calls' = calls /\ presses' = presses
    BY <1>4 DEF DwellOver
  <2>2. Sound(ctl') /\ ~ctl'.busy
    BY <1>1, <2>1, EndSessionFacts
  <2>3. TypeOK'
    <3>1. UNCHANGED <<alive, entry, st, conn, calls, health, perm, hydrate, tab, epoch, ref, shown, presses>>
      BY <1>4 DEF DwellOver
    <3>2. ctl' \in Controls
      BY <2>2 DEF Sound
    <3> QED
      BY <1>1, <3>1, <3>2 DEF TypeOK
  <2> QED
    BY <1>2, <2>1, <2>2, <2>3, SessionStep DEF Announced
<1>5. CASE reconnect
  <2>1. /\ ctl' = endSession(ctl, TRUE) /\ presses < MaxPresses /\ presses' = presses + 1
        /\ calls' = [calls EXCEPT !.manual = @ + 1]
    BY <1>5 DEF reconnect
  <2>2. Sound(ctl') /\ ~ctl'.busy
    BY <1>1, <2>1, EndSessionFacts
  <2>3. /\ calls' \in [auto : Nat, manual : 0..MaxPresses] /\ presses' \in 0..MaxPresses
        /\ calls'.manual <= presses'
    BY <1>2, <2>1, OperatorAssumption
  <2>4. TypeOK'
    <3>1. UNCHANGED <<alive, entry, st, conn, health, perm, hydrate, tab, epoch, ref, shown>>
      BY <1>5 DEF reconnect
    <3>2. ctl' \in Controls
      BY <2>2 DEF Sound
    <3> QED
      BY <1>1, <2>3, <3>1, <3>2 DEF TypeOK
  <2> QED
    BY <2>2, <2>3, <2>4, SessionStep DEF Announced
<1> QED
  BY <1>3, <1>4, <1>5

LEMMA ReconnectedStep ==
  ASSUME IInv, NEW who \in {"auto", "manual"}, Reconnected(who)
  PROVE  IInv'
<1>1. TypeOK /\ Sound(ctl)
  BY DEF IInv
<1>2. /\ calls \in [auto : Nat, manual : 0..MaxPresses]
      /\ presses \in 0..MaxPresses /\ calls.manual <= presses
  BY DEF IInv, TypeOK
<1>3. /\ calls[who] > 0 /\ calls' = [calls EXCEPT ![who] = @ - 1]
      /\ conn' = "reuse" /\ st' = "connecting" /\ presses' = presses /\ ctl' = ctl
  BY DEF Reconnected, Reuse
<1>4. calls' \in [auto : Nat, manual : 0..MaxPresses] /\ calls'.manual <= presses'
  <2>1. CASE who = "auto"
    BY <1>2, <1>3, <2>1
  <2>2. CASE who = "manual"
    BY <1>2, <1>3, <2>2, OperatorAssumption
  <2> QED
    BY <2>1, <2>2
<1>5. TypeOK'
  <2>1. UNCHANGED <<alive, tab, epoch, ctl, ref, shown, presses>>
    BY DEF Reconnected
  <2>2. /\ entry' = "none" /\ health' \in Healths /\ perm' = FALSE /\ hydrate' = FALSE
        /\ st' \in States
    BY DEF Reconnected, Healths, States
  <2> QED
    BY <1>1, <1>3, <1>4, <2>1, <2>2 DEF TypeOK
<1> QED
  BY <1>1, <1>3, <1>4, <1>5, SessionStep DEF Announced

(* The answer of a connect. *)
LEMMA ConnectStep ==
  ASSUME IInv, Connect
  PROVE  IInv'
<1>1. TypeOK /\ Sound(ctl) /\ calls.manual <= presses
  BY DEF IInv
<1>2. ASSUME NEW ok \in BOOLEAN, NEW permanent \in BOOLEAN,
             ctl' = onConnectResolved(ctl, ok, permanent), TypeOK', UNCHANGED <<calls, presses>>
      PROVE  IInv'
  <2>1. Sound(ctl') /\ Announced(ctl', FALSE)
    BY <1>1, <1>2, ResolvedFacts
  <2> QED
    BY <1>1, <1>2, <2>1, SessionStep
<1>3. ASSUME NEW ok \in BOOLEAN, NEW permanent \in BOOLEAN
      PROVE  onConnectResolved(ctl, ok, permanent) \in Controls
  BY <1>1, ResolvedFacts DEF Sound
<1>4. CASE ConnectOk
  <2>1. ctl' = onConnectResolved(ctl, TRUE, FALSE) /\ UNCHANGED <<calls, presses>>
    BY <1>4 DEF ConnectOk
  <2>2. TypeOK'
    BY <1>1, <1>3, <1>4, <2>1 DEF ConnectOk, TypeOK, States
  <2> QED
    BY <1>2, <2>1, <2>2
<1>5. CASE ConnectError
  <2>1. PICK permanent \in Reasons : ctl' = onConnectResolved(ctl, FALSE, permanent)
    BY <1>5 DEF ConnectError
  <2>2. permanent \in BOOLEAN
    BY <2>1 DEF Reasons
  <2>3. TypeOK' /\ UNCHANGED <<calls, presses>>
    <3>1. UNCHANGED <<alive, entry, calls, health, perm, hydrate, tab, epoch, ref, shown, presses>>
      BY <1>5 DEF ConnectError
    <3>2. conn' = "none" /\ st' \in States
      BY <1>5 DEF ConnectError, States
    <3>3. ctl' \in Controls
      BY <1>3, <2>1, <2>2
    <3> QED
      BY <1>1, <3>1, <3>2, <3>3 DEF TypeOK
  <2> QED
    BY <1>2, <2>1, <2>2, <2>3
<1>6. CASE ConnectCancelled
  <2>1. TypeOK'
    BY <1>1, <1>6 DEF ConnectCancelled, TypeOK
  <2>2. UNCHANGED <<ctl, calls, presses>> /\ st' = "cancelled"
    BY <1>6 DEF ConnectCancelled
  <2> QED
    BY <1>1, <2>1, <2>2, SessionStep DEF Announced
<1> QED
  BY <1>4, <1>5, <1>6 DEF Connect

(* Cancel, and what the cluster, the backend and the store do by           *)
(* themselves: nothing the session announced is taken away.                *)
LEMMA SurroundingsStep ==
  ASSUME IInv, \/ cancel \/ Flip \/ LazyEntry \/ Wedge \/ Resume
               \/ pullHealth \/ SubscribeRefused \/ SwitchTab
  PROVE  IInv'
<1>1. TypeOK
  BY DEF IInv
<1>2. Reasons \subseteq BOOLEAN
  BY DEF Reasons
<1>3. CASE cancel
  BY <1>1, <1>3, SessionFrame DEF cancel, TypeOK, States
<1>4. CASE Flip
  BY <1>1, <1>4, SessionFrame DEF Flip, TypeOK
<1>5. CASE LazyEntry
  BY <1>1, <1>5, SessionFrame DEF LazyEntry, TypeOK
<1>6. CASE Wedge
  <2>1. health' \in Healths /\ perm' \in BOOLEAN
    BY <1>1, <1>2, <1>6 DEF Wedge, TypeOK, Healths
  <2>2. TypeOK'
    BY <1>1, <1>6, <2>1 DEF Wedge, TypeOK
  <2> QED
    BY <1>6, <2>2, SessionFrame DEF Wedge
<1>7. CASE Resume
  <2>1. health' \in Healths /\ perm' \in BOOLEAN
    BY <1>1, <1>7 DEF Resume, TypeOK, Healths
  <2>2. epoch' \in 0..MaxResumes
    BY <1>1, <1>7, OperatorAssumption DEF Resume, TypeOK
  <2>3. TypeOK'
    BY <1>1, <1>7, <2>1, <2>2 DEF Resume, TypeOK
  <2> QED
    BY <1>7, <2>3, SessionFrame DEF Resume
<1>8. CASE pullHealth
  <2>1. health' \in Healths /\ perm' \in BOOLEAN /\ hydrate' \in BOOLEAN
    BY <1>8 DEF pullHealth, Healths
  <2>2. TypeOK'
    BY <1>1, <1>8, <2>1 DEF pullHealth, TypeOK
  <2> QED
    BY <1>8, <2>2, SessionFrame DEF pullHealth
<1>9. CASE SubscribeRefused
  <2>1. health' \in Healths /\ perm' \in BOOLEAN
    BY <1>9 DEF SubscribeRefused, Healths
  <2>2. TypeOK'
    BY <1>1, <1>9, <2>1 DEF SubscribeRefused, TypeOK
  <2> QED
    BY <1>9, <2>2, SessionFrame DEF SubscribeRefused
<1>10. CASE SwitchTab
  BY <1>1, <1>10, SessionFrame DEF SwitchTab, TypeOK
<1> QED
  BY <1>3, <1>4, <1>5, <1>6, <1>7, <1>8, <1>9, <1>10

(* One run of the watcher effects: the transition into unavailable first,  *)
(* then the resume, on the controller the first one left.                  *)
LEMMA EffectsStep ==
  ASSUME IInv, Effects
  PROVE  IInv'
<1> DEFINE c == IF tab /\ health = "unavailable" /\ Transition
                THEN onUnavailable(ctl, perm) ELSE ctl
           resumed == tab /\ ref.seen # epoch
           restart == resumed /\ st \in {"ok", "error"} /\ ~(ref.deferred /\ st = "ok")
           r == calls.auto > 0 \/ conn # "none" \/ st = "cancelled"
<1>1. TypeOK /\ Sound(ctl) /\ calls.manual <= presses /\ perm \in BOOLEAN
  BY DEF IInv, TypeOK
<1>2. r \in BOOLEAN /\ Announced(ctl, r)
  BY DEF IInv, BusyMeansRetrying, Announced
<1>3. Sound(c) /\ Announced(c, r)
  <2>1. Sound(onUnavailable(ctl, perm)) /\ Announced(onUnavailable(ctl, perm), r)
    <3> HIDE DEF r
    <3> QED
      BY <1>1, <1>2, UnavailableFacts
  <2> QED
    BY <1>1, <1>2, <2>1
<1>4. ctl' = IF restart THEN onResumed(c) ELSE c
  BY DEF Effects
<1>5. /\ ref' = [health |-> health, active |-> tab,
                 seen |-> IF resumed /\ st # "connecting" THEN epoch ELSE ref.seen,
                 deferred |-> IF resumed THEN st = "connecting" ELSE ref.deferred]
      /\ shown' = <<health, perm, st, tab, epoch>>
      /\ UNCHANGED <<alive, entry, st, conn, calls, health, perm, hydrate, tab, epoch, presses>>
  BY DEF Effects
<1> HIDE DEF c
<1>6. Sound(ctl') /\ Announced(ctl', r)
  <2>1. Sound(onResumed(c)) /\ Announced(onResumed(c), r)
    BY <1>3, ResumedFacts DEF Announced
  <2> QED
    BY <1>3, <1>4, <2>1
<1>7. TypeOK'
  <2>1. (IF resumed /\ st # "connecting" THEN epoch ELSE ref.seen) \in 0..MaxResumes
    BY <1>1 DEF TypeOK
  <2>2. (IF resumed THEN st = "connecting" ELSE ref.deferred) \in BOOLEAN
    BY <1>1 DEF TypeOK
  <2>3. ref' \in [health : Healths, active : BOOLEAN, seen : 0..MaxResumes, deferred : BOOLEAN]
    BY <1>1, <1>5, <2>1, <2>2 DEF TypeOK
  <2>4. shown' \in Healths \X BOOLEAN \X States \X BOOLEAN \X (0..MaxResumes)
    BY <1>1, <1>5 DEF TypeOK
  <2> QED
    BY <1>1, <1>5, <1>6, <2>3, <2>4 DEF TypeOK, Sound
<1> QED
  BY <1>1, <1>2, <1>5, <1>6, <1>7, SessionStep

LEMMA NextIInv == IInv /\ [Next]_vars => IInv'
<1> SUFFICES ASSUME IInv, [Next]_vars PROVE IInv'
  OBVIOUS
<1>1. CASE runAttempt \/ DwellOver \/ reconnect
  BY <1>1, ControllerStep
<1>2. CASE Reconnected("auto") \/ Reconnected("manual")
  BY <1>2, ReconnectedStep
<1>3. CASE Connect
  BY <1>3, ConnectStep
<1>4. CASE \/ cancel \/ Flip \/ LazyEntry \/ Wedge \/ Resume
           \/ pullHealth \/ SubscribeRefused \/ SwitchTab
  BY <1>4, SurroundingsStep
<1>5. CASE Effects
  BY <1>5, EffectsStep
<1>6. CASE UNCHANGED vars
  BY <1>6 DEF IInv, TypeOK, Sound, BusyMeansRetrying, vars
<1> QED
  BY <1>1, <1>2, <1>3, <1>4, <1>5, <1>6 DEF Next

(* In every state the attempts of the auto-reconnect session are sound: a  *)
(* retry is waiting or under way, never both, the counter stays within     *)
(* MAX_AUTO, and the panel is grayed as reconnecting only while a retry is *)
(* waiting or being made (or after Cancel): useClusterConnection.ts's      *)
(* scheduleNext, runAttempt and onConnectResolved under every interleaving *)
(* of events, timers, buttons and answers.                                 *)
THEOREM Attempts == Spec => []AttemptsAreSound
<1>1. IInv => AttemptsAreSound
  <2>1. ASSUME IInv PROVE ctl.used <= MaxAuto
    BY <2>1, MaxAutoAssumption DEF IInv, Sound, Controls
  <2> QED
    BY <2>1 DEF IInv, Sound, AttemptsAreSound, OneAttemptAtATime
<1> QED
  BY <1>1, InitIInv, NextIInv, PTL DEF Spec

-----------------------------------------------------------------------------
(* The resource table.  The channel's operators keep its type, and what    *)
(* drain_capped returns is part of what is pending.                        *)

LEMMA TableEmptyType == Empty \in Tables
  BY DEF Empty, Tables, Maybe

LEMMA TableChannelTypes ==
  ASSUME NEW c \in Channels, NEW u \in Uids, NEW r \in Maybe
  PROVE  /\ record_upsert(c, u, r) \in Channels
         /\ record_delete(c, u) \in Channels
         /\ mark_init_done(c) \in Channels
  BY DEF Channels, Tables, Maybe, record_upsert, record_delete,
         mark_init_done

LEMMA TableDrainFacts ==
  ASSUME NEW c \in Channels, NEW b \in drain_capped(c)
  PROVE  /\ b \in Batches
         /\ \A u \in Uids : b.upserts[u] \in {NoRow, c.changed[u]}
         /\ b.deletes \subseteq c.deleted
         /\ b.init => c.init
<1>1. CASE Fits(c)
  BY <1>1 DEF drain_capped, TakeAll, Channels, Batches
<1>2. CASE ~Fits(c)
  <2>1. b \in Capped(c)
    BY <1>2 DEF drain_capped
  <2>2. PICK U \in SUBSET Keys(c.changed) :
          b.upserts = [u \in Uids |-> IF u \in U THEN c.changed[u] ELSE NoRow]
    BY <2>1 DEF Capped
  <2>3. /\ b.deletes \in SUBSET c.deleted /\ b.init = FALSE
        /\ b = [upserts |-> b.upserts, deletes |-> b.deletes, init |-> b.init]
    BY <2>1 DEF Capped, HeldBack
  <2>4. b.upserts \in Tables
    BY <2>2 DEF Tables, Maybe, Channels
  <2> QED
    BY <2>2, <2>3, <2>4 DEF Batches, Channels
<1> QED
  BY <1>1, <1>2

LEMMA TableRemainderType ==
  ASSUME NEW c \in Channels, NEW b \in Batches
  PROVE  Remainder(c, b) \in Channels
  BY DEF Remainder, Channels, Batches, Tables, Maybe

LEMMA TableApplyType ==
  ASSUME NEW t \in Tables, NEW b \in Batches
  PROVE  Apply(t, b) \in Tables
  BY DEF Apply, Batches, Tables, Maybe

(* One entry of a function changes, and keeps its set. *)
LEMMA OneEntry ==
  ASSUME NEW D, NEW S, NEW f \in [D -> S], NEW x \in D, NEW y \in S
  PROVE  /\ [f EXCEPT ![x] = y] \in [D -> S]
         /\ [f EXCEPT ![x] = y][x] = y
         /\ \A z \in D : z # x => [f EXCEPT ![x] = y][z] = f[z]
  OBVIOUS

-----------------------------------------------------------------------------
(* Where the news of a uid is.  The batches of a wire that mention it,     *)
(* and what the last of them says.                                         *)
Said(w, u) == {i \in 1..Len(w) : Mentions(w[i], u)}
Value(b, u) == IF u \in b.deletes THEN NoRow ELSE b.upserts[u]
Tells(w, u, row) ==
  \E i \in Said(w, u) : (\A j \in Said(w, u) : j <= i) /\ Value(w[i], u) = row

(* The channel has news of u. *)
Pends(c, u) == c.changed[u] # NoRow \/ u \in c.deleted

(* What the table holds of u when nothing is on its way: before the merge  *)
(* nothing or the cached row; once the snapshot is read, the cached row,   *)
(* or the snapshot that is still to be merged has it.                      *)
Holds(row, e, r, t, u) ==
  /\ e # "merged" => t[u] \in {NoRow, row}
  /\ r.at \in {"rows", "ok"} /\ row # NoRow =>
       t[u] = row \/ (e # "merged" /\ t[u] = NoRow /\ r.rows[u] = row)

(* The newest news of u is its cached row, wherever it is. *)
Tracked(row, c, w, e, r, t, u) ==
  IF Pends(c, u) THEN c.changed[u] = row
  ELSE Tells(w, u, row) \/ (Said(w, u) = {} /\ Holds(row, e, r, t, u))

(* A batch put on the wire. *)
LEMMA SaidAppend ==
  ASSUME NEW w \in Seq(Batches), NEW b \in Batches, NEW u \in Uids
  PROVE  Said(Append(w, b), u) =
           Said(w, u) \cup (IF Mentions(b, u) THEN {Len(w) + 1} ELSE {})
<1> DEFINE z == Append(w, b)
<1>1. /\ Len(z) = Len(w) + 1 /\ Len(w) \in Nat /\ z[Len(w) + 1] = b
      /\ \A i \in 1..Len(w) : z[i] = w[i]
  OBVIOUS
<1>2. 1..Len(z) = (1..Len(w)) \cup {Len(w) + 1}
  BY <1>1
<1> HIDE DEF z
<1>3. \A i \in 1..Len(w) : Mentions(z[i], u) <=> Mentions(w[i], u)
  BY <1>1
<1>4. Len(w) + 1 \notin 1..Len(w)
  BY <1>1
<1>5. Said(z, u) = Said(w, u) \cup (IF Mentions(b, u) THEN {Len(w) + 1} ELSE {})
  BY <1>1, <1>2, <1>3, <1>4 DEF Said
<1> QED
  BY <1>5 DEF z

LEMMA TellsAppend ==
  ASSUME NEW w \in Seq(Batches), NEW b \in Batches, NEW u \in Uids, NEW row
  PROVE  /\ Mentions(b, u) /\ Value(b, u) = row => Tells(Append(w, b), u, row)
         /\ ~Mentions(b, u) /\ Tells(w, u, row) => Tells(Append(w, b), u, row)
         /\ ~Mentions(b, u) => Said(Append(w, b), u) = Said(w, u)
<1> DEFINE z == Append(w, b)
<1>1. /\ Len(w) \in Nat /\ z[Len(w) + 1] = b
      /\ \A i \in 1..Len(w) : z[i] = w[i]
  OBVIOUS
<1>2. Said(z, u) = Said(w, u) \cup (IF Mentions(b, u) THEN {Len(w) + 1} ELSE {})
  BY SaidAppend
<1>3. Said(w, u) \subseteq 1..Len(w)
  BY DEF Said
<1> HIDE DEF z
<1>4. ASSUME Mentions(b, u), Value(b, u) = row
      PROVE  Tells(z, u, row)
  <2>1. Len(w) + 1 \in Said(z, u) /\ Value(z[Len(w) + 1], u) = row
    BY <1>1, <1>2, <1>4
  <2>2. \A j \in Said(z, u) : j <= Len(w) + 1
    BY <1>1, <1>2, <1>3, <1>4
  <2> QED
    BY <2>1, <2>2 DEF Tells
<1>5. ASSUME ~Mentions(b, u)
      PROVE  Said(z, u) = Said(w, u) /\ (Tells(w, u, row) => Tells(z, u, row))
  <2>1. Said(z, u) = Said(w, u)
    BY <1>2, <1>5
  <2>2. ASSUME Tells(w, u, row) PROVE Tells(z, u, row)
    <3>1. PICK i \in Said(w, u) : (\A j \in Said(w, u) : j <= i) /\ Value(w[i], u) = row
      BY <2>2 DEF Tells
    <3>2. z[i] = w[i]
      BY <1>1, <1>3
    <3> QED
      BY <2>1, <3>1, <3>2 DEF Tells
  <2> QED
    BY <2>1, <2>2
<1> QED
  BY <1>4, <1>5 DEF z

(* The first batch leaves the wire. *)
LEMMA SaidTail ==
  ASSUME NEW w \in Seq(Batches), w # <<>>, NEW u \in Uids, NEW i \in Nat
  PROVE  /\ i + 1 \in Said(w, u) /\ i >= 1 => i \in Said(Tail(w), u)
         /\ i \in Said(Tail(w), u) => i + 1 \in Said(w, u)
<1> DEFINE z == Tail(w)
<1>1. /\ Len(z) = Len(w) - 1 /\ Len(w) \in Nat \ {0}
      /\ \A j \in 1..Len(z) : z[j] = w[j + 1]
  OBVIOUS
<1> HIDE DEF z
<1>2. /\ i + 1 \in Said(w, u) /\ i >= 1 => i \in Said(z, u)
      /\ i \in Said(z, u) => i + 1 \in Said(w, u)
  BY <1>1 DEF Said
<1> QED
  BY <1>2 DEF z

LEMMA TellsTail ==
  ASSUME NEW w \in Seq(Batches), w # <<>>, NEW u \in Uids, NEW row, Tells(w, u, row)
  PROVE  \/ Tells(Tail(w), u, row)
         \/ Said(Tail(w), u) = {} /\ Mentions(Head(w), u) /\ Value(Head(w), u) = row
<1> DEFINE z == Tail(w)
<1>1. /\ Len(z) = Len(w) - 1 /\ Len(w) \in Nat \ {0} /\ Head(w) = w[1]
      /\ \A j \in 1..Len(z) : z[j] = w[j + 1]
  OBVIOUS
<1>2. Said(z, u) \subseteq 1..Len(z) /\ Said(w, u) \subseteq 1..Len(w)
  BY DEF Said
<1>3. \A k \in Nat : /\ k + 1 \in Said(w, u) /\ k >= 1 => k \in Said(z, u)
                     /\ k \in Said(z, u) => k + 1 \in Said(w, u)
  BY SaidTail
<1> HIDE DEF z
<1>4. PICK i \in Said(w, u) : (\A j \in Said(w, u) : j <= i) /\ Value(w[i], u) = row
  BY DEF Tells
<1>5. i \in 1..Len(w)
  BY <1>2
<1>6. \A j \in Said(z, u) : j \in Nat /\ j >= 1 /\ j + 1 <= i
  <2> SUFFICES ASSUME NEW j \in Said(z, u) PROVE j \in Nat /\ j >= 1 /\ j + 1 <= i
    OBVIOUS
  <2>1. j \in Nat /\ j >= 1
    BY <1>1, <1>2
  <2> QED
    BY <1>3, <1>4, <2>1
<1>7. CASE i = 1
  <2>0. ASSUME NEW j \in Said(z, u) PROVE FALSE
    <3>1. j \in Nat /\ j >= 1 /\ j + 1 <= 1
      BY <1>6, <1>7
    <3> QED
      BY <3>1
  <2>1. Said(z, u) = {}
    BY <2>0
  <2>2. Mentions(w[1], u)
    BY <1>4, <1>7 DEF Said
  <2> QED
    BY <1>1, <1>4, <1>7, <2>1, <2>2 DEF z
<1>8. CASE i # 1
  <2>1. i - 1 \in Nat /\ i - 1 >= 1 /\ (i - 1) + 1 = i /\ i - 1 \in 1..Len(z)
    BY <1>1, <1>5, <1>8
  <2>2. i - 1 \in Said(z, u)
    BY <1>3, <2>1
  <2>3. z[i - 1] = w[i]
    BY <1>1, <2>1
  <2>4. \A j \in Said(z, u) : j <= i - 1
    BY <1>5, <1>6
  <2>5. Tells(z, u, row)
    BY <1>4, <2>2, <2>3, <2>4 DEF Tells
  <2> QED
    BY <2>5 DEF z
<1> QED
  BY <1>7, <1>8

-----------------------------------------------------------------------------
(* What each step does to the news of one uid.                             *)

(* Recording u puts its cached row into the channel, and leaves the others. *)
LEMMA RecordTracked ==
  ASSUME NEW c \in Channels, ~c.closed, NEW u \in Uids, NEW row \in Maybe,
         NEW d, d = IF row = NoRow THEN record_delete(c, u) ELSE record_upsert(c, u, row)
  PROVE  /\ Pends(d, u) /\ d.changed[u] = row /\ ~(d.changed[u] # NoRow /\ u \in d.deleted)
         /\ \A v \in Uids : v # u =>
              d.changed[v] = c.changed[v] /\ (v \in d.deleted <=> v \in c.deleted)
         /\ d.init = c.init /\ d.closed = c.closed
<1>1. CASE row = NoRow
  <2>1. d = [c EXCEPT !.changed[u] = NoRow, !.deleted = @ \cup {u}]
    BY <1>1 DEF record_delete
  <2>2. d.changed = [c.changed EXCEPT ![u] = NoRow] /\ d.deleted = c.deleted \cup {u}
    BY <2>1 DEF Channels
  <2>3. d.init = c.init /\ d.closed = c.closed
    BY <2>1 DEF Channels
  <2>4. c.changed \in Tables
    BY DEF Channels
  <2> QED
    BY <1>1, <2>2, <2>3, <2>4 DEF Pends, Tables
<1>2. CASE row # NoRow
  <2>1. d = [c EXCEPT !.deleted = @ \ {u}, !.changed[u] = row]
    BY <1>2 DEF record_upsert
  <2>2. d.changed = [c.changed EXCEPT ![u] = row] /\ d.deleted = c.deleted \ {u}
    BY <2>1 DEF Channels
  <2>3. d.init = c.init /\ d.closed = c.closed
    BY <2>1 DEF Channels
  <2>4. c.changed \in Tables
    BY DEF Channels
  <2> QED
    BY <1>2, <2>2, <2>3, <2>4 DEF Pends, Tables
<1> QED
  BY <1>1, <1>2

(* What a drain leaves, and what it takes. *)
LEMMA DrainOne ==
  ASSUME NEW c \in Channels, NEW b \in drain_capped(c), NEW u \in Uids,
         ~(c.changed[u] # NoRow /\ u \in c.deleted)
  PROVE  LET d == Remainder(c, b)
         IN /\ Mentions(b, u) => Pends(c, u) /\ ~Pends(d, u) /\ Value(b, u) = c.changed[u]
            /\ ~Mentions(b, u) => d.changed[u] = c.changed[u]
                                    /\ (u \in d.deleted <=> u \in c.deleted)
            /\ ~(d.changed[u] # NoRow /\ u \in d.deleted)
            /\ d.closed = c.closed /\ (d.init => c.init)
<1> DEFINE d == Remainder(c, b)
<1>1. /\ b \in Batches
      /\ b.upserts[u] \in {NoRow, c.changed[u]}
      /\ b.deletes \subseteq c.deleted
  BY TableDrainFacts
<1>2. /\ d.changed[u] = IF b.upserts[u] # NoRow THEN NoRow ELSE c.changed[u]
      /\ d.deleted = c.deleted \ b.deletes
      /\ d.init = (c.init /\ ~b.init) /\ d.closed = c.closed
  BY DEF Remainder, Channels
<1> HIDE DEF d
<1>3. /\ Mentions(b, u) => Pends(c, u) /\ ~Pends(d, u) /\ Value(b, u) = c.changed[u]
      /\ ~Mentions(b, u) => d.changed[u] = c.changed[u]
                              /\ (u \in d.deleted <=> u \in c.deleted)
      /\ ~(d.changed[u] # NoRow /\ u \in d.deleted)
  BY <1>1, <1>2 DEF Mentions, Pends, Value
<1> QED
  BY <1>2, <1>3 DEF d

(* The forwarder emits to a registered listener: the news moves from the   *)
(* channel to the wire.                                                    *)
LEMMA EmitTracked ==
  ASSUME NEW c \in Channels, NEW b \in drain_capped(c), NEW u \in Uids,
         ~(c.changed[u] # NoRow /\ u \in c.deleted),
         NEW w \in Seq(Batches), NEW row, NEW e, NEW r, NEW t,
         Tracked(row, c, w, e, r, t, u)
  PROVE  Tracked(row, Remainder(c, b), Append(w, b), e, r, t, u)
<1> DEFINE d == Remainder(c, b)
<1>1. /\ Mentions(b, u) => Pends(c, u) /\ ~Pends(d, u) /\ Value(b, u) = c.changed[u]
      /\ ~Mentions(b, u) => d.changed[u] = c.changed[u]
                              /\ (u \in d.deleted <=> u \in c.deleted)
  BY DrainOne
<1>2. b \in Batches
  BY TableDrainFacts
<1> HIDE DEF d
<1>3. CASE Mentions(b, u)
  <2>1. Value(b, u) = row
    BY <1>1, <1>3 DEF Tracked
  <2>2. Tells(Append(w, b), u, row)
    BY <1>2, <1>3, <2>1, TellsAppend
  <2>3. Tracked(row, d, Append(w, b), e, r, t, u)
    BY <1>1, <1>3, <2>2 DEF Tracked
  <2> QED
    BY <2>3 DEF d
<1>4. CASE ~Mentions(b, u)
  <2>1. Pends(d, u) <=> Pends(c, u)
    BY <1>1, <1>4 DEF Pends
  <2>2. /\ Tells(w, u, row) => Tells(Append(w, b), u, row)
        /\ Said(Append(w, b), u) = Said(w, u)
    BY <1>2, <1>4, TellsAppend
  <2>3. Tracked(row, d, Append(w, b), e, r, t, u)
    BY <1>1, <1>4, <2>1, <2>2 DEF Tracked
  <2> QED
    BY <2>3 DEF d
<1> QED
  BY <1>3, <1>4

(* Nobody listens yet: the news is gone, and the table holds nothing. *)
LEMMA LostTracked ==
  ASSUME NEW c, NEW row, NEW e, NEW r, NEW u \in Uids, r.at = "none",
         Pends(c, u) => c.changed[u] = row
  PROVE  Tracked(row, c, <<>>, e, r, Empty, u)
<1>1. Said(<<>>, u) = {}
  BY DEF Said
<1>2. Empty[u] = NoRow
  BY DEF Empty
<1>3. Holds(row, e, r, Empty, u)
  BY <1>2 DEF Holds
<1> QED
  BY <1>1, <1>3 DEF Tracked

(* The listener handles the first batch of the wire. *)
LEMMA DeliverTracked ==
  ASSUME NEW c, NEW w \in Seq(Batches), w # <<>>, NEW u \in Uids, NEW row, NEW e,
         NEW r, NEW t, Tracked(row, c, w, e, r, t, u)
  PROVE  Tracked(row, c, Tail(w), e, r, Apply(t, Head(w)), u)
<1> DEFINE l == Apply(t, Head(w))
<1>1. l[u] = IF Mentions(Head(w), u) THEN Value(Head(w), u) ELSE t[u]
  BY DEF Apply, Mentions, Value
<1> HIDE DEF l
<1>2. CASE Pends(c, u)
  BY <1>2 DEF Tracked, l
<1>3. CASE ~Pends(c, u) /\ Tells(w, u, row)
  <2>1. CASE Tells(Tail(w), u, row)
    BY <1>3, <2>1 DEF Tracked, l
  <2>2. CASE Said(Tail(w), u) = {} /\ Mentions(Head(w), u) /\ Value(Head(w), u) = row
    <3>1. l[u] = row
      BY <1>1, <2>2
    <3>2. Holds(row, e, r, l, u)
      BY <3>1 DEF Holds
    <3> QED
      BY <1>3, <2>2, <3>2 DEF Tracked, l
  <2> QED
    BY <1>3, <2>1, <2>2, TellsTail
<1>4. CASE ~Pends(c, u) /\ Said(w, u) = {} /\ Holds(row, e, r, t, u)
  <2>1. ~Mentions(Head(w), u)
    <3>1. 1 \in 1..Len(w) /\ Head(w) = w[1]
      OBVIOUS
    <3> QED
      BY <1>4, <3>1 DEF Said
  <2>2. Said(Tail(w), u) \subseteq Nat
    BY DEF Said
  <2>3. Said(Tail(w), u) = {}
    BY <1>4, <2>2, SaidTail
  <2>4. Holds(row, e, r, l, u)
    BY <1>1, <1>4, <2>1 DEF Holds
  <2> QED
    BY <1>4, <2>3, <2>4 DEF Tracked, l
<1> QED
  BY <1>2, <1>3, <1>4 DEF Tracked

(* The effect moves on: what the table holds only has to be accounted for  *)
(* where nothing is on its way.                                            *)
LEMMA HoldsTracked ==
  ASSUME NEW c, NEW w, NEW u, NEW row, NEW e, NEW r, NEW t, NEW f, NEW s, NEW l,
         Tracked(row, c, w, e, r, t, u),
         Holds(row, e, r, t, u) => Holds(row, f, s, l, u)
  PROVE  Tracked(row, c, w, f, s, l, u)
  BY DEF Tracked

-----------------------------------------------------------------------------
(* Type correctness of the table.                                          *)

USE DEF watcher, view

LEMMA TableTypeInit == TableInit => TableTypeOK
<1> SUFFICES ASSUME TableInit PROVE TableTypeOK
  OBVIOUS
<1>1. NewChannel \in Channels /\ NoResponse \in Responses
  BY TableEmptyType DEF NewChannel, NoResponse, Channels, Responses
<1>2. <<>> \in Seq(Batches)
  OBVIOUS
<1>3. ch \in [Pairs -> Channels] /\ wire \in [Pairs -> Seq(Batches)]
  BY <1>1, <1>2 DEF TableInit
<1>4. resp \in [Pairs -> Responses] /\ local \in [Pairs -> Tables]
  BY <1>1, TableEmptyType DEF TableInit
<1>5. cache \in [Pairs -> Tables] /\ behind \in [Pairs -> SUBSET Uids]
  BY TableEmptyType DEF TableInit
<1>6. inited \in [Pairs -> BOOLEAN] /\ marking \in [Pairs -> BOOLEAN] /\ lis \in [Pairs -> BOOLEAN]
  BY DEF TableInit
<1> QED
  BY <1>3, <1>4, <1>5, <1>6 DEF TableInit, TableTypeOK

(* A batch the forwarder may emit, and a step of the wire. *)
LEMMA TableWatcherType ==
  ASSUME TableTypeOK, NEW p \in Pairs,
         \/ \E u \in Uids : (\E r \in Maybe : CacheWrite(p, u, r)) \/ Record(p, u)
         \/ InitDone(p) \/ MarkInitDone(p) \/ Emit(p)
  PROVE  TableTypeOK'
<1>1. ASSUME NEW u \in Uids, NEW r \in Maybe, CacheWrite(p, u, r)
      PROVE  TableTypeOK'
  <2>1. cache \in [Pairs -> Tables] /\ behind \in [Pairs -> SUBSET Uids]
    BY DEF TableTypeOK
  <2>2. cache' = [cache EXCEPT ![p] = [cache[p] EXCEPT ![u] = r]]
    BY <1>1, <2>1 DEF CacheWrite
  <2>3. [cache[p] EXCEPT ![u] = r] \in Tables
    BY <2>1 DEF Tables
  <2>4. cache' \in [Pairs -> Tables]
    BY <2>1, <2>2, <2>3
  <2>5. behind' \in [Pairs -> SUBSET Uids]
    BY <1>1, <2>1 DEF CacheWrite
  <2>6. UNCHANGED <<inited, marking, ch, wire, effect, lis, resp, local, pending, load>>
    BY <1>1 DEF CacheWrite
  <2> QED
    BY <2>4, <2>5, <2>6 DEF TableTypeOK
<1>2. ASSUME NEW u \in Uids, Record(p, u)
      PROVE  TableTypeOK'
  <2>1. /\ cache \in [Pairs -> Tables] /\ behind \in [Pairs -> SUBSET Uids]
        /\ ch \in [Pairs -> Channels]
    BY DEF TableTypeOK
  <2>2. cache[p][u] \in Maybe
    BY <2>1 DEF Tables
  <2>3. Recorded(p, u) \in Channels
    BY <2>1, <2>2, TableChannelTypes DEF Recorded
  <2>4. ch' \in [Pairs -> Channels]
    BY <1>2, <2>1, <2>3 DEF Record
  <2>5. behind' \in [Pairs -> SUBSET Uids]
    BY <1>2, <2>1 DEF Record
  <2>6. UNCHANGED <<cache, inited, marking, wire, effect, lis, resp, local, pending, load>>
    BY <1>2 DEF Record
  <2> QED
    BY <2>4, <2>5, <2>6 DEF TableTypeOK
<1>3. ASSUME InitDone(p)
      PROVE  TableTypeOK'
  <2>1. inited' \in [Pairs -> BOOLEAN] /\ marking' \in [Pairs -> BOOLEAN]
    BY <1>3 DEF InitDone, TableTypeOK
  <2>2. UNCHANGED <<cache, behind, ch, wire, effect, lis, resp, local, pending, load>>
    BY <1>3 DEF InitDone
  <2> QED
    BY <2>1, <2>2 DEF TableTypeOK
<1>4. ASSUME MarkInitDone(p)
      PROVE  TableTypeOK'
  <2>1. ch \in [Pairs -> Channels] /\ marking \in [Pairs -> BOOLEAN]
    BY DEF TableTypeOK
  <2>2. mark_init_done(ch[p]) \in Channels
    BY <2>1 DEF mark_init_done, Channels
  <2>3. ch' = [ch EXCEPT ![p] = mark_init_done(ch[p])]
    BY <1>4, <2>1 DEF MarkInitDone
  <2>4. ch' \in [Pairs -> Channels]
    BY <2>1, <2>2, <2>3
  <2>5. marking' \in [Pairs -> BOOLEAN]
    BY <1>4, <2>1 DEF MarkInitDone
  <2>6. UNCHANGED <<cache, behind, inited, wire, effect, lis, resp, local, pending, load>>
    BY <1>4 DEF MarkInitDone
  <2> QED
    BY <2>4, <2>5, <2>6 DEF TableTypeOK
<1>5. ASSUME Emit(p)
      PROVE  TableTypeOK'
  <2>1. ch \in [Pairs -> Channels] /\ wire \in [Pairs -> Seq(Batches)]
    BY DEF TableTypeOK
  <2>2. PICK b \in drain_capped(ch[p]) :
          /\ ch' = [ch EXCEPT ![p] = Remainder(@, b)]
          /\ wire' = IF lis[p] THEN [wire EXCEPT ![p] = Append(@, b)] ELSE wire
    BY <1>5 DEF Emit
  <2>3. b \in Batches
    BY <2>1, TableDrainFacts
  <2>4. Remainder(ch[p], b) \in Channels
    BY <2>1, <2>3, TableRemainderType
  <2>5. ch' = [ch EXCEPT ![p] = Remainder(ch[p], b)]
    BY <2>1, <2>2
  <2>6. ch' \in [Pairs -> Channels]
    BY <2>1, <2>4, <2>5
  <2>7. Append(wire[p], b) \in Seq(Batches)
    BY <2>1, <2>3
  <2>8. wire' = IF lis[p] THEN [wire EXCEPT ![p] = Append(wire[p], b)] ELSE wire
    BY <2>1, <2>2
  <2>9. wire' \in [Pairs -> Seq(Batches)]
    BY <2>1, <2>7, <2>8
  <2>10. UNCHANGED <<cache, behind, inited, marking, effect, lis, resp, local, pending, load>>
    BY <1>5 DEF Emit
  <2> QED
    BY <2>6, <2>9, <2>10 DEF TableTypeOK
<1> QED
  BY <1>1, <1>2, <1>3, <1>4, <1>5

LEMMA TableCallType ==
  ASSUME TableTypeOK, NEW p \in Pairs, Call(p)
  PROVE  TableTypeOK'
<1>1. resp \in [Pairs -> Responses] /\ cache \in [Pairs -> Tables] /\ inited \in [Pairs -> BOOLEAN]
  BY DEF TableTypeOK
<1>2. ASSUME snapshot(p) PROVE resp' \in [Pairs -> Responses]
  <2>1. [at |-> "rows", rows |-> cache[p], init |-> FALSE] \in Responses
    BY <1>1 DEF Responses
  <2> QED
    BY <1>1, <1>2, <2>1 DEF snapshot
<1>3. ASSUME init_done(p) PROVE resp' \in [Pairs -> Responses]
  <2>1. resp' = [resp EXCEPT ![p] = [resp[p] EXCEPT !.at = "ok", !.init = inited[p]]]
    BY <1>1, <1>3 DEF init_done
  <2>2. [resp[p] EXCEPT !.at = "ok", !.init = inited[p]] \in Responses
    BY <1>1 DEF Responses
  <2> QED
    BY <1>1, <2>1, <2>2
<1>4. ASSUME SubscribeFails(p) PROVE resp' \in [Pairs -> Responses]
  <2>1. resp' = [resp EXCEPT ![p] = [resp[p] EXCEPT !.at = "error"]]
    BY <1>1, <1>4 DEF SubscribeFails
  <2>2. [resp[p] EXCEPT !.at = "error"] \in Responses
    BY <1>1 DEF Responses
  <2> QED
    BY <1>1, <2>1, <2>2
<1>5. UNCHANGED <<cache, behind, inited, marking, ch, wire, effect, lis, local, pending, load>>
  BY DEF Call, snapshot, init_done, SubscribeFails
<1>6. resp' \in [Pairs -> Responses]
  BY <1>2, <1>3, <1>4 DEF Call
<1> QED
  BY <1>5, <1>6 DEF TableTypeOK

LEMMA TableDeliverType ==
  ASSUME TableTypeOK, NEW p \in Pairs, Deliver(p)
  PROVE  TableTypeOK'
<1>1. wire \in [Pairs -> Seq(Batches)] /\ local \in [Pairs -> Tables]
  BY DEF TableTypeOK
<1>2. wire[p] # <<>>
  BY DEF Deliver
<1>3. Head(wire[p]) \in Batches /\ Tail(wire[p]) \in Seq(Batches)
  BY <1>1, <1>2
<1>4. Apply(local[p], Head(wire[p])) \in Tables
  BY <1>1, <1>3, TableApplyType
<1>5. /\ wire' = [wire EXCEPT ![p] = Tail(wire[p])]
      /\ local' = [local EXCEPT ![p] = Apply(local[p], Head(wire[p]))]
  BY <1>1 DEF Deliver
<1>6. wire' \in [Pairs -> Seq(Batches)] /\ local' \in [Pairs -> Tables]
  BY <1>1, <1>3, <1>4, <1>5
<1>7. UNCHANGED <<cache, behind, inited, marking, ch, effect, lis, resp>>
  BY DEF Deliver
<1>8. pending' \in SUBSET Pairs /\ load' \in {"loading", "ready", "error"}
  BY DEF Deliver, TableTypeOK
<1> QED
  BY <1>6, <1>7, <1>8 DEF TableTypeOK

LEMMA TableEffectType ==
  ASSUME TableTypeOK,
         \/ \E p \in Pairs : Register(p)
         \/ Mount \/ RegisterFails \/ Subscribe \/ Merge \/ Unmount
  PROVE  TableTypeOK'
<1>0. NoResponse \in Responses /\ <<>> \in Seq(Batches)
  BY TableEmptyType DEF NoResponse, Responses
<1>1. ASSUME NEW p \in Pairs, Register(p)
      PROVE  TableTypeOK'
  <2>1. lis' \in [Pairs -> BOOLEAN]
    BY <1>1 DEF Register, TableTypeOK
  <2>2. UNCHANGED <<cache, behind, inited, marking, ch, wire, effect, resp, local, pending, load>>
    BY <1>1 DEF Register
  <2> QED
    BY <2>1, <2>2 DEF TableTypeOK
<1>2. ASSUME Mount PROVE TableTypeOK'
  BY <1>2 DEF Mount, TableTypeOK
<1>3. ASSUME RegisterFails PROVE TableTypeOK'
  BY <1>3 DEF RegisterFails, TableTypeOK
<1>4. ASSUME Subscribe PROVE TableTypeOK'
  <2>1. [NoResponse EXCEPT !.at = "sent"] \in Responses
    BY <1>0 DEF Responses
  <2>2. resp' \in [Pairs -> Responses]
    BY <1>4, <2>1 DEF Subscribe
  <2>3. /\ effect' = "subscribing"
        /\ UNCHANGED <<cache, behind, inited, marking, ch, wire, lis, local, pending, load>>
    BY <1>4 DEF Subscribe
  <2> QED
    BY <2>2, <2>3 DEF TableTypeOK
<1>5. ASSUME Merge PROVE TableTypeOK'
  <2>1. resp \in [Pairs -> Responses] /\ local \in [Pairs -> Tables]
    BY DEF TableTypeOK
  <2>2. ASSUME NEW p \in Pairs PROVE Merged(p) \in Tables
    <3>1. local[p] \in Tables /\ resp[p].rows \in Tables
      BY <2>1 DEF Responses
    <3> QED
      BY <3>1 DEF Merged, Tables
  <2>3. local' = [p \in Pairs |-> Merged(p)]
    BY <1>5 DEF Merge
  <2>4. local' \in [Pairs -> Tables]
    BY <2>2, <2>3
  <2>5. effect' = "merged" /\ pending' \in SUBSET Pairs
    BY <1>5 DEF Merge, TableTypeOK
  <2>6. load' \in {"loading", "ready", "error"}
    BY <1>5 DEF Merge, TableTypeOK
  <2>7. UNCHANGED <<cache, behind, inited, marking, ch, wire, lis, resp>>
    BY <1>5 DEF Merge
  <2> QED
    BY <2>4, <2>5, <2>6, <2>7 DEF TableTypeOK
<1>6. ASSUME Unmount PROVE TableTypeOK'
  <2>1. /\ lis' \in [Pairs -> BOOLEAN] /\ wire' \in [Pairs -> Seq(Batches)]
        /\ resp' \in [Pairs -> Responses] /\ local' \in [Pairs -> Tables]
    BY <1>0, <1>6, TableEmptyType DEF Unmount
  <2>2. /\ effect' = "off" /\ pending' = {} /\ load' = "loading"
        /\ UNCHANGED <<cache, behind, inited, marking, ch>>
    BY <1>6 DEF Unmount
  <2> QED
    BY <2>1, <2>2 DEF TableTypeOK
<1> QED
  BY <1>1, <1>2, <1>3, <1>4, <1>5, <1>6

LEMMA TableTypeStep == TableTypeOK /\ [TableNext]_tableVars => TableTypeOK'
<1> SUFFICES ASSUME TableTypeOK, [TableNext]_tableVars PROVE TableTypeOK'
  OBVIOUS
<1>1. CASE UNCHANGED tableVars
  BY <1>1 DEF tableVars, TableTypeOK
<1>2. CASE TableNext
  BY <1>2, TableWatcherType, TableCallType, TableDeliverType, TableEffectType DEF TableNext
<1> QED
  BY <1>1, <1>2

-----------------------------------------------------------------------------
(* The inductive invariant of the table.                                   *)

(* The channel is open, and has no uid both changed and deleted. *)
Apart ==
  \A p \in Pairs :
    ~ch[p].closed /\ \A u \in Uids : ~(ch[p].changed[u] # NoRow /\ u \in ch[p].deleted)

(* The phases of the subscribe effect: who listens, and which calls are out. *)
Phases ==
  /\ \A p \in Pairs : ~lis[p] => wire[p] = <<>> /\ local[p] = Empty
  /\ effect \in {"subscribing", "merged"} => \A p \in Pairs : lis[p]
  /\ effect = "off" => \A p \in Pairs : ~lis[p]
  /\ \A p \in Pairs : resp[p].at # "none" => effect \in {"subscribing", "merged"}
  /\ effect = "merged" => \A p \in Pairs : resp[p].at \in {"ok", "error"}

(* Of every uid whose last change is recorded, the newest news is its row. *)
Tracks ==
  \A p \in Pairs : \A u \in Uids : u \notin behind[p] =>
    Tracked(cache[p][u], ch[p], wire[p], effect, resp[p], local[p], u)

(* The end of the list is only told of once the list has ended. *)
Told(p) ==
  /\ marking[p] \/ ch[p].init \/ resp[p].init => inited[p]
  /\ \A i \in 1..Len(wire[p]) : wire[p][i].init => inited[p]
Listed == \A p \in Pairs : Told(p)

TableInv == TableTypeOK /\ Apart /\ Phases /\ Tracks /\ Listed /\ SyncEndsOnList

LEMMA TableInvInit == TableInit => TableInv
<1> SUFFICES ASSUME TableInit PROVE TableInv
  OBVIOUS
<1>1. TableTypeOK
  BY TableTypeInit
<1>2. ASSUME NEW p \in Pairs
      PROVE  /\ ch[p] = NewChannel /\ wire[p] = <<>> /\ resp[p] = NoResponse
             /\ local[p] = Empty /\ ~lis[p] /\ ~marking[p] /\ behind[p] = {}
  BY DEF TableInit
<1>3. /\ NewChannel.changed = Empty /\ NewChannel.deleted = {}
      /\ ~NewChannel.closed /\ ~NewChannel.init
      /\ NoResponse.at = "none" /\ ~NoResponse.init
  BY DEF NewChannel, NoResponse
<1>4. \A u \in Uids : Empty[u] = NoRow
  BY DEF Empty
<1>5. Apart
  BY <1>2, <1>3, <1>4 DEF Apart
<1>6. effect = "off"
  BY DEF TableInit
<1>7. Phases
  BY <1>2, <1>3, <1>6 DEF Phases
<1>8. ASSUME NEW p \in Pairs, NEW u \in Uids
      PROVE  Tracked(cache[p][u], ch[p], wire[p], effect, resp[p], local[p], u)
  <2>1. ~Pends(ch[p], u) /\ resp[p].at = "none"
    BY <1>2, <1>3, <1>4 DEF Pends
  <2>2. Tracked(cache[p][u], ch[p], <<>>, effect, resp[p], Empty, u)
    BY <2>1, LostTracked
  <2> QED
    BY <1>2, <2>2
<1>9. Tracks
  BY <1>8 DEF Tracks
<1>10. Listed
  BY <1>2, <1>3 DEF Listed, Told
<1>11. SyncEndsOnList
  BY <1>6 DEF SyncEndsOnList
<1> QED
  BY <1>1, <1>5, <1>7, <1>9, <1>10, <1>11 DEF TableInv

(* Nothing of the view or the wire changes: the view's parts stay. *)
LEMMA ViewUnchanged ==
  ASSUME UNCHANGED <<effect, lis, resp, local, pending, wire>>,
         \A p \in Pairs : inited[p] => inited'[p], Phases, SyncEndsOnList
  PROVE  Phases' /\ SyncEndsOnList'
<1>1. Phases'
  BY DEF Phases
<1>2. SyncEndsOnList'
  BY DEF SyncEndsOnList
<1> QED
  BY <1>1, <1>2

LEMMA CacheWriteStep ==
  ASSUME TableInv, NEW p \in Pairs, NEW u \in Uids, NEW r \in Maybe, CacheWrite(p, u, r)
  PROVE  Apart' /\ Phases' /\ Tracks' /\ Listed' /\ SyncEndsOnList'
<1>1. UNCHANGED <<inited, marking, ch, wire, effect, lis, resp, local, pending>>
  BY DEF CacheWrite
<1>2. cache \in [Pairs -> Tables] /\ behind \in [Pairs -> SUBSET Uids]
  BY DEF TableInv, TableTypeOK
<1>3. /\ behind[p] = {} /\ behind' = [behind EXCEPT ![p] = {u}]
      /\ cache' = [cache EXCEPT ![p] = [cache[p] EXCEPT ![u] = r]]
  BY <1>2 DEF CacheWrite
<1>4. Phases' /\ SyncEndsOnList'
  BY <1>1, ViewUnchanged DEF TableInv
<1>5. Apart' /\ Listed'
  BY <1>1 DEF TableInv, Apart, Listed, Told
<1>6. ASSUME NEW q \in Pairs, NEW v \in Uids, v \notin behind'[q]
      PROVE  v \notin behind[q] /\ cache'[q][v] = cache[q][v]
  <2>1. CASE q = p
    <3>1. behind'[q] = {u} /\ cache'[q] = [cache[p] EXCEPT ![u] = r]
      BY <1>2, <1>3, <2>1
    <3>2. cache[p] \in [Uids -> Maybe]
      BY <1>2 DEF Tables
    <3> QED
      BY <1>3, <1>6, <2>1, <3>1, <3>2
  <2>2. CASE q # p
    BY <1>2, <1>3, <1>6, <2>2
  <2> QED
    BY <2>1, <2>2
<1>7. Tracks'
  BY <1>1, <1>6 DEF TableInv, Tracks
<1> QED
  BY <1>4, <1>5, <1>7

LEMMA RecordStep ==
  ASSUME TableInv, NEW p \in Pairs, NEW u \in Uids, Record(p, u)
  PROVE  Apart' /\ Phases' /\ Tracks' /\ Listed' /\ SyncEndsOnList'
<1> DEFINE row == cache[p][u]
           d == Recorded(p, u)
<1>1. UNCHANGED <<cache, inited, marking, wire, effect, lis, resp, local, pending>>
  BY DEF Record
<1>2. /\ cache \in [Pairs -> Tables] /\ behind \in [Pairs -> SUBSET Uids]
      /\ ch \in [Pairs -> Channels]
  BY DEF TableInv, TableTypeOK
<1>3. behind[p] = {u} /\ behind' = [behind EXCEPT ![p] = {}] /\ ch' = [ch EXCEPT ![p] = d]
  BY DEF Record
<1>4. Phases' /\ SyncEndsOnList'
  BY <1>1, ViewUnchanged DEF TableInv
<1>5. row \in Maybe /\ ch[p] \in Channels /\ ~ch[p].closed
  BY <1>2 DEF Tables, TableInv, Apart
<1>6. d = IF row = NoRow THEN record_delete(ch[p], u) ELSE record_upsert(ch[p], u, row)
  BY DEF Recorded
<1> HIDE DEF d, row
<1>7. /\ Pends(d, u) /\ d.changed[u] = row /\ ~(d.changed[u] # NoRow /\ u \in d.deleted)
      /\ \A v \in Uids : v # u =>
           d.changed[v] = ch[p].changed[v] /\ (v \in d.deleted <=> v \in ch[p].deleted)
      /\ d.init = ch[p].init /\ d.closed = ch[p].closed
  BY <1>5, <1>6, RecordTracked
<1>8. /\ ch'[p] = d /\ \A q \in Pairs : q # p => ch'[q] = ch[q]
      /\ behind'[p] = {} /\ \A q \in Pairs : q # p => behind'[q] = behind[q]
  BY <1>2, <1>3
<1>9. Apart'
  <2> SUFFICES ASSUME NEW q \in Pairs
               PROVE  /\ ~ch'[q].closed
                      /\ \A v \in Uids : ~(ch'[q].changed[v] # NoRow /\ v \in ch'[q].deleted)
    BY DEF Apart
  <2>1. /\ ~ch[q].closed
        /\ \A v \in Uids : ~(ch[q].changed[v] # NoRow /\ v \in ch[q].deleted)
    BY DEF TableInv, Apart
  <2> QED
    BY <1>7, <1>8, <2>1
<1>10. Listed'
  <2> SUFFICES ASSUME NEW q \in Pairs PROVE Told(q)'
    BY DEF Listed
  <2>1. ch'[q].init = ch[q].init
    BY <1>7, <1>8
  <2>2. Told(q)
    BY DEF TableInv, Listed
  <2> QED
    BY <1>1, <2>1, <2>2 DEF Told
<1>11. ASSUME NEW q \in Pairs, NEW v \in Uids, v \notin behind'[q]
       PROVE  Tracked(cache[q][v], ch'[q], wire[q], effect, resp[q], local[q], v)
  <2>1. CASE q = p /\ v = u
    BY <1>7, <1>8, <2>1 DEF Tracked, row
  <2>2. CASE q = p /\ v # u
    <3>1. Tracked(cache[q][v], ch[p], wire[q], effect, resp[q], local[q], v)
      BY <1>3, <2>2 DEF TableInv, Tracks
    <3>2. d.changed[v] = ch[p].changed[v] /\ (Pends(d, v) <=> Pends(ch[p], v))
      BY <1>7, <2>2 DEF Pends
    <3>3. Tracked(cache[q][v], d, wire[q], effect, resp[q], local[q], v)
      BY <3>1, <3>2 DEF Tracked
    <3> QED
      BY <1>8, <2>2, <3>3
  <2>3. CASE q # p
    BY <1>8, <1>11, <2>3 DEF TableInv, Tracks
  <2> QED
    BY <2>1, <2>2, <2>3
<1>12. Tracks'
  BY <1>1, <1>11 DEF Tracks
<1> QED
  BY <1>4, <1>9, <1>10, <1>12

LEMMA InitDoneStep ==
  ASSUME TableInv, NEW p \in Pairs, InitDone(p)
  PROVE  Apart' /\ Phases' /\ Tracks' /\ Listed' /\ SyncEndsOnList'
<1>1. UNCHANGED <<cache, behind, ch, wire, effect, lis, resp, local, pending>>
  BY DEF InitDone
<1>2. \A q \in Pairs : inited[q] => inited'[q]
  BY DEF InitDone, TableInv, TableTypeOK
<1>3. inited'[p] /\ \A q \in Pairs : q # p => marking'[q] = marking[q]
  BY DEF InitDone, TableInv, TableTypeOK
<1>4. Apart' /\ Tracks'
  BY <1>1 DEF TableInv, Apart, Tracks
<1>5. Phases' /\ SyncEndsOnList'
  BY <1>1, <1>2, ViewUnchanged DEF TableInv
<1>6. Listed'
  <2> SUFFICES ASSUME NEW q \in Pairs PROVE Told(q)'
    BY DEF Listed
  <2>1. Told(q)
    BY DEF TableInv, Listed
  <2> QED
    BY <1>1, <1>2, <1>3, <2>1 DEF Told
<1> QED
  BY <1>4, <1>5, <1>6

LEMMA MarkInitDoneStep ==
  ASSUME TableInv, NEW p \in Pairs, MarkInitDone(p)
  PROVE  Apart' /\ Phases' /\ Tracks' /\ Listed' /\ SyncEndsOnList'
<1>1. UNCHANGED <<cache, behind, inited, wire, effect, lis, resp, local, pending>>
  BY DEF MarkInitDone
<1>2. ch \in [Pairs -> Channels] /\ marking \in [Pairs -> BOOLEAN]
  BY DEF TableInv, TableTypeOK
<1>3. /\ ch' = [ch EXCEPT ![p] = mark_init_done(ch[p])]
      /\ marking[p] /\ marking' = [marking EXCEPT ![p] = FALSE]
  BY <1>2 DEF MarkInitDone
<1>4. mark_init_done(ch[p]) = [ch[p] EXCEPT !.init = TRUE]
  BY DEF mark_init_done, TableInv, Apart
<1>5. /\ \A q \in Pairs : /\ ch'[q].changed = ch[q].changed /\ ch'[q].deleted = ch[q].deleted
                          /\ ch'[q].closed = ch[q].closed
                          /\ q # p => ch'[q].init = ch[q].init
      /\ \A q \in Pairs : marking'[q] => marking[q]
  <2>1. ch'[p] = [ch[p] EXCEPT !.init = TRUE] /\ \A q \in Pairs : q # p => ch'[q] = ch[q]
    BY <1>2, <1>3, <1>4
  <2>2. ch[p] \in Channels
    BY <1>2
  <2>3. /\ ch'[p].changed = ch[p].changed /\ ch'[p].deleted = ch[p].deleted
        /\ ch'[p].closed = ch[p].closed
    BY <2>1, <2>2 DEF Channels
  <2>4. \A q \in Pairs : marking'[q] => marking[q]
    BY <1>2, <1>3
  <2> QED
    BY <2>1, <2>3, <2>4
<1>6. Phases' /\ SyncEndsOnList'
  BY <1>1, ViewUnchanged DEF TableInv
<1>7. Apart'
  BY <1>5 DEF TableInv, Apart
<1>8. ASSUME NEW q \in Pairs, NEW v \in Uids, v \notin behind[q]
      PROVE  Tracked(cache[q][v], ch'[q], wire[q], effect, resp[q], local[q], v)
  <2>1. Tracked(cache[q][v], ch[q], wire[q], effect, resp[q], local[q], v)
    BY <1>8 DEF TableInv, Tracks
  <2>2. ch'[q].changed[v] = ch[q].changed[v] /\ (Pends(ch'[q], v) <=> Pends(ch[q], v))
    BY <1>5 DEF Pends
  <2> QED
    BY <2>1, <2>2 DEF Tracked
<1>9. Tracks'
  BY <1>1, <1>8 DEF Tracks
<1>10. Listed'
  <2> SUFFICES ASSUME NEW q \in Pairs PROVE Told(q)'
    BY DEF Listed
  <2>1. Told(q)
    BY DEF TableInv, Listed
  <2>2. q = p => inited[q]
    BY <1>3, <2>1 DEF Told
  <2> QED
    BY <1>1, <1>5, <2>1, <2>2 DEF Told
<1> QED
  BY <1>6, <1>7, <1>9, <1>10

LEMMA EmitStep ==
  ASSUME TableInv, NEW p \in Pairs, Emit(p)
  PROVE  Apart' /\ Phases' /\ Tracks' /\ Listed' /\ SyncEndsOnList'
<1>1. UNCHANGED <<cache, behind, inited, marking, effect, lis, resp, local, pending>>
  BY DEF Emit
<1>2. ch \in [Pairs -> Channels] /\ wire \in [Pairs -> Seq(Batches)]
  BY DEF TableInv, TableTypeOK
<1>3. PICK b \in drain_capped(ch[p]) :
        /\ ch' = [ch EXCEPT ![p] = Remainder(ch[p], b)]
        /\ wire' = IF lis[p] THEN [wire EXCEPT ![p] = Append(wire[p], b)] ELSE wire
  BY <1>2 DEF Emit
<1> DEFINE d == Remainder(ch[p], b)
<1>4. /\ ch'[p] = d /\ \A q \in Pairs : q # p => ch'[q] = ch[q] /\ wire'[q] = wire[q]
      /\ wire'[p] = IF lis[p] THEN Append(wire[p], b) ELSE wire[p]
  BY <1>2, <1>3
<1>5. ch[p] \in Channels /\ wire[p] \in Seq(Batches)
  BY <1>2
<1>6. \A u \in Uids : ~(ch[p].changed[u] # NoRow /\ u \in ch[p].deleted)
  BY DEF TableInv, Apart
<1>7. ASSUME NEW u \in Uids
      PROVE  /\ Mentions(b, u) => Pends(ch[p], u) /\ ~Pends(d, u) /\ Value(b, u) = ch[p].changed[u]
             /\ ~Mentions(b, u) => d.changed[u] = ch[p].changed[u]
                                     /\ (u \in d.deleted <=> u \in ch[p].deleted)
             /\ ~(d.changed[u] # NoRow /\ u \in d.deleted)
  BY <1>5, <1>6, DrainOne
<1>8. b \in Batches /\ (b.init => ch[p].init)
  BY <1>5, TableDrainFacts
<1>9. d.closed = ch[p].closed /\ (d.init => ch[p].init)
  BY <1>5 DEF Remainder, Channels
<1>10. ASSUME NEW u \in Uids, u \notin behind[p]
       PROVE  Tracked(cache[p][u], d, wire'[p], effect, resp[p], local[p], u)
  <2>1. Tracked(cache[p][u], ch[p], wire[p], effect, resp[p], local[p], u)
    BY <1>10 DEF TableInv, Tracks
  <2>2. CASE lis[p]
    <3>1. Tracked(cache[p][u], d, Append(wire[p], b), effect, resp[p], local[p], u)
      BY <1>5, <1>6, <2>1, EmitTracked
    <3> QED
      BY <1>4, <2>2, <3>1
  <2>3. CASE ~lis[p]
    <3>1. wire[p] = <<>> /\ local[p] = Empty
      BY <2>3 DEF TableInv, Phases
    <3>2. resp[p].at = "none"
      BY <2>3 DEF TableInv, Phases
    <3>3. Pends(d, u) => d.changed[u] = cache[p][u]
      <4>1. Pends(d, u) => ~Mentions(b, u) /\ d.changed[u] = ch[p].changed[u]
        BY <1>7
      <4>2. Pends(d, u) => Pends(ch[p], u)
        BY <1>7 DEF Pends
      <4> QED
        BY <2>1, <4>1, <4>2 DEF Tracked
    <3> HIDE DEF d
    <3>4. Tracked(cache[p][u], d, <<>>, effect, resp[p], Empty, u)
      BY <3>2, <3>3, LostTracked
    <3> QED
      BY <1>4, <2>3, <3>1, <3>4
  <2> QED
    BY <2>2, <2>3
<1> HIDE DEF d
<1>11. Apart'
  <2> SUFFICES ASSUME NEW q \in Pairs
               PROVE  /\ ~ch'[q].closed
                      /\ \A v \in Uids : ~(ch'[q].changed[v] # NoRow /\ v \in ch'[q].deleted)
    BY DEF Apart
  <2>1. /\ ~ch[q].closed
        /\ \A v \in Uids : ~(ch[q].changed[v] # NoRow /\ v \in ch[q].deleted)
    BY DEF TableInv, Apart
  <2> QED
    BY <1>4, <1>7, <1>9, <2>1
<1>12. Phases'
  <2>1. \A q \in Pairs : ~lis[q] => wire'[q] = wire[q]
    BY <1>4
  <2> QED
    BY <1>1, <2>1 DEF TableInv, Phases
<1>13. Tracks'
  <2> SUFFICES ASSUME NEW q \in Pairs, NEW v \in Uids, v \notin behind[q]
               PROVE  Tracked(cache[q][v], ch'[q], wire'[q], effect, resp[q], local[q], v)
    BY <1>1 DEF Tracks
  <2>1. CASE q = p
    BY <1>4, <1>10, <2>1
  <2>2. CASE q # p
    BY <1>4, <2>2 DEF TableInv, Tracks
  <2> QED
    BY <2>1, <2>2
<1>14. Listed'
  <2> SUFFICES ASSUME NEW q \in Pairs PROVE Told(q)'
    BY DEF Listed
  <2>1. Told(q)
    BY DEF TableInv, Listed
  <2>2. CASE q # p
    BY <1>1, <1>4, <2>1, <2>2 DEF Told
  <2>3. CASE q = p
    <3>1. ch'[q].init => inited[q]
      BY <1>4, <1>9, <2>1, <2>3 DEF Told
    <3>2. b.init => inited[q]
      BY <1>8, <2>1, <2>3 DEF Told
    <3>3. ASSUME NEW i \in 1..Len(wire'[q]) PROVE wire'[q][i].init => inited[q]
      <4>1. CASE ~lis[p]
        BY <1>4, <2>1, <2>3, <3>3, <4>1 DEF Told
      <4>2. CASE lis[p]
        <5>1. wire'[q] = Append(wire[q], b) /\ wire[q] \in Seq(Batches)
          BY <1>4, <1>5, <2>3, <4>2
        <5>2. i \in 1..Len(wire[q]) \/ i = Len(wire[q]) + 1
          BY <1>8, <3>3, <5>1
        <5>3. wire'[q][i] = IF i = Len(wire[q]) + 1 THEN b ELSE wire[q][i]
          BY <1>8, <5>1, <5>2
        <5> QED
          BY <2>1, <3>2, <5>2, <5>3 DEF Told
      <4> QED
        BY <4>1, <4>2
    <3> QED
      BY <1>1, <2>1, <3>1, <3>3 DEF Told
  <2> QED
    BY <2>2, <2>3
<1>15. SyncEndsOnList'
  BY <1>1 DEF TableInv, SyncEndsOnList
<1> QED
  BY <1>11, <1>12, <1>13, <1>14, <1>15

LEMMA CallStep ==
  ASSUME TableInv, NEW p \in Pairs, Call(p)
  PROVE  Apart' /\ Phases' /\ Tracks' /\ Listed' /\ SyncEndsOnList'
<1>1. UNCHANGED <<cache, behind, inited, marking, ch, wire, effect, lis, local, pending>>
  BY DEF Call, snapshot, init_done, SubscribeFails
<1>2. resp \in [Pairs -> Responses]
  BY DEF TableInv, TableTypeOK
<1>3. \A q \in Pairs : q # p => resp'[q] = resp[q]
  BY <1>2 DEF Call, snapshot, init_done, SubscribeFails
<1>4. resp[p].at \in {"sent", "rows"} /\ resp'[p].at \in {"rows", "ok", "error"}
  <2>1. ASSUME snapshot(p) PROVE resp[p].at = "sent" /\ resp'[p].at = "rows"
    BY <1>2, <2>1 DEF snapshot
  <2>2. ASSUME init_done(p) PROVE resp[p].at = "rows" /\ resp'[p].at = "ok"
    BY <1>2, <2>2 DEF init_done, Responses
  <2>3. ASSUME SubscribeFails(p) PROVE resp[p].at = "sent" /\ resp'[p].at = "error"
    BY <1>2, <2>3 DEF SubscribeFails, Responses
  <2> QED
    BY <2>1, <2>2, <2>3 DEF Call
<1>5. effect = "subscribing"
  BY <1>4 DEF TableInv, Phases
<1>6. /\ resp'[p].at = "rows" => resp'[p].rows = cache[p]
      /\ resp'[p].at = "ok" => resp[p].at = "rows" /\ resp'[p].rows = resp[p].rows
      /\ resp'[p].init => resp[p].init \/ inited[p]
  <2>1. ASSUME snapshot(p) PROVE resp'[p] = [at |-> "rows", rows |-> cache[p], init |-> FALSE]
    BY <1>2, <2>1 DEF snapshot
  <2>2. ASSUME init_done(p)
        PROVE  /\ resp[p].at = "rows" /\ resp'[p].at = "ok"
               /\ resp'[p].rows = resp[p].rows /\ resp'[p].init = inited[p]
    BY <1>2, <2>2 DEF init_done, Responses
  <2>3. ASSUME SubscribeFails(p)
        PROVE  resp'[p].at = "error" /\ resp'[p].init = resp[p].init
    BY <1>2, <2>3 DEF SubscribeFails, Responses
  <2> QED
    BY <2>1, <2>2, <2>3 DEF Call
<1>7. Apart'
  BY <1>1 DEF TableInv, Apart
<1>8. Phases'
  BY <1>1, <1>3, <1>5 DEF TableInv, Phases
<1>9. Listed'
  <2> SUFFICES ASSUME NEW q \in Pairs PROVE Told(q)'
    BY DEF Listed
  <2>1. Told(q)
    BY DEF TableInv, Listed
  <2>2. resp'[q].init => inited[q]
    BY <1>3, <1>6, <2>1 DEF Told
  <2> QED
    BY <1>1, <2>1, <2>2 DEF Told
<1>10. SyncEndsOnList'
  <2>1. \A q \in Pairs : resp[q].at = "error" => resp'[q].at = "error"
    BY <1>3, <1>4
  <2> QED
    BY <1>1, <2>1 DEF TableInv, SyncEndsOnList
<1>11. ASSUME NEW q \in Pairs, NEW v \in Uids, v \notin behind[q]
       PROVE  Tracked(cache[q][v], ch[q], wire[q], effect, resp'[q], local[q], v)
  <2>1. Tracked(cache[q][v], ch[q], wire[q], effect, resp[q], local[q], v)
    BY <1>11 DEF TableInv, Tracks
  <2>2. CASE q # p
    BY <1>3, <2>1, <2>2
  <2>3. CASE q = p
    <3>1. Holds(cache[q][v], effect, resp[q], local[q], v)
            => Holds(cache[q][v], effect, resp'[q], local[q], v)
      BY <1>4, <1>5, <1>6, <2>3 DEF Holds
    <3> QED
      BY <2>1, <3>1, HoldsTracked
  <2> QED
    BY <2>2, <2>3
<1>12. Tracks'
  BY <1>1, <1>11 DEF Tracks
<1> QED
  BY <1>7, <1>8, <1>9, <1>10, <1>12

LEMMA DeliverStep ==
  ASSUME TableInv, NEW p \in Pairs, Deliver(p)
  PROVE  Apart' /\ Phases' /\ Tracks' /\ Listed' /\ SyncEndsOnList'
<1> DEFINE b == Head(wire[p])
<1>1. UNCHANGED <<cache, behind, inited, marking, ch, effect, lis, resp>>
  BY DEF Deliver
<1>2. wire \in [Pairs -> Seq(Batches)] /\ local \in [Pairs -> Tables]
  BY DEF TableInv, TableTypeOK
<1>3. wire[p] # <<>> /\ wire[p] \in Seq(Batches)
  BY <1>2 DEF Deliver
<1>4. /\ wire' = [wire EXCEPT ![p] = Tail(wire[p])]
      /\ local' = [local EXCEPT ![p] = Apply(local[p], b)]
  BY <1>2 DEF Deliver
<1>5. /\ wire'[p] = Tail(wire[p]) /\ local'[p] = Apply(local[p], b)
      /\ \A q \in Pairs : q # p => wire'[q] = wire[q] /\ local'[q] = local[q]
  BY <1>2, <1>4
<1>6. pending' = IF b.init THEN pending \ {p} ELSE pending
  BY DEF Deliver, EndsSync
<1>7. b.init => inited[p]
  <2>1. 1 \in 1..Len(wire[p]) /\ b = wire[p][1]
    BY <1>3
  <2> QED
    BY <2>1 DEF TableInv, Listed, Told
<1> HIDE DEF b
<1>8. Apart'
  BY <1>1 DEF TableInv, Apart
<1>9. Phases'
  <2>1. lis[p]
    BY <1>3 DEF TableInv, Phases
  <2> QED
    BY <1>1, <1>5, <2>1 DEF TableInv, Phases
<1>10. Listed'
  <2> SUFFICES ASSUME NEW q \in Pairs PROVE Told(q)'
    BY DEF Listed
  <2>1. Told(q)
    BY DEF TableInv, Listed
  <2>2. ASSUME NEW i \in 1..Len(wire'[q]) PROVE wire'[q][i].init => inited[q]
    <3>1. CASE q # p
      BY <1>5, <2>1, <2>2, <3>1 DEF Told
    <3>2. CASE q = p
      <4>d. /\ Len(Tail(wire[p])) = Len(wire[p]) - 1 /\ Len(wire[p]) \in Nat
            /\ \A j \in 1..Len(Tail(wire[p])) : Tail(wire[p])[j] = wire[p][j + 1]
        BY <1>3
      <4>a. wire'[q] = Tail(wire[p])
        BY <1>5, <3>2
      <4>b. i \in 1..Len(Tail(wire[p]))
        BY <2>2, <4>a
      <4>c. i + 1 \in 1..Len(wire[p])
        BY <4>d, <4>b
      <4>1. i + 1 \in 1..Len(wire[q]) /\ wire'[q][i] = wire[q][i + 1]
        BY <3>2, <4>a, <4>b, <4>c, <4>d
      <4> QED
        BY <2>1, <4>1 DEF Told
    <3> QED
      BY <3>1, <3>2
  <2> QED
    BY <1>1, <2>1, <2>2 DEF Told
<1>11. SyncEndsOnList'
  <2>1. \A q \in Pairs \ pending' : q \in Pairs \ pending \/ inited[q]
    BY <1>6, <1>7
  <2> QED
    BY <1>1, <2>1 DEF TableInv, SyncEndsOnList
<1>12. ASSUME NEW q \in Pairs, NEW v \in Uids, v \notin behind[q]
       PROVE  Tracked(cache[q][v], ch[q], wire'[q], effect, resp[q], local'[q], v)
  <2>1. Tracked(cache[q][v], ch[q], wire[q], effect, resp[q], local[q], v)
    BY <1>12 DEF TableInv, Tracks
  <2>2. CASE q # p
    BY <1>5, <2>1, <2>2
  <2>3. CASE q = p
    <3>1. Tracked(cache[q][v], ch[q], Tail(wire[q]), effect, resp[q], Apply(local[q], b), v)
      BY <1>3, <2>1, <2>3, DeliverTracked DEF b
    <3> QED
      BY <1>5, <2>3, <3>1
  <2> QED
    BY <2>2, <2>3
<1>13. Tracks'
  BY <1>1, <1>12 DEF Tracks
<1> QED
  BY <1>8, <1>9, <1>10, <1>11, <1>13

LEMMA RegisterStep ==
  ASSUME TableInv,
         (\E p \in Pairs : Register(p)) \/ Mount \/ RegisterFails
  PROVE  Apart' /\ Phases' /\ Tracks' /\ Listed' /\ SyncEndsOnList'
<1>1. UNCHANGED <<cache, behind, inited, marking, ch, wire, resp, local>>
  BY DEF Register, Mount, RegisterFails
<1>2. effect \in {"off", "registering"} /\ effect' \in {"registering", "failed"}
  BY DEF Register, Mount, RegisterFails
<1>3. \A q \in Pairs : lis[q] => lis'[q]
  <2>1. ASSUME NEW p \in Pairs, Register(p) PROVE \A q \in Pairs : lis[q] => lis'[q]
    BY <2>1 DEF Register, TableInv, TableTypeOK
  <2>2. ASSUME Mount \/ RegisterFails PROVE lis' = lis
    BY <2>2 DEF Mount, RegisterFails
  <2> QED
    BY <2>1, <2>2
<1>4. pending' = Pairs \/ (pending' = pending /\ effect # "off")
  BY DEF Register, Mount, RegisterFails
<1>5. Apart' /\ Listed'
  BY <1>1 DEF TableInv, Apart, Listed, Told
<1>6. Phases'
  BY <1>1, <1>2, <1>3 DEF TableInv, Phases
<1>7. SyncEndsOnList'
  BY <1>1, <1>4 DEF TableInv, SyncEndsOnList
<1>8. ASSUME NEW q \in Pairs, NEW v \in Uids, v \notin behind[q]
      PROVE  Tracked(cache[q][v], ch[q], wire[q], effect', resp[q], local[q], v)
  <2>1. Tracked(cache[q][v], ch[q], wire[q], effect, resp[q], local[q], v)
    BY <1>8 DEF TableInv, Tracks
  <2>2. Holds(cache[q][v], effect, resp[q], local[q], v)
          => Holds(cache[q][v], effect', resp[q], local[q], v)
    BY <1>2 DEF Holds
  <2> QED
    BY <2>1, <2>2, HoldsTracked
<1>9. Tracks'
  BY <1>1, <1>8 DEF Tracks
<1> QED
  BY <1>5, <1>6, <1>7, <1>9

LEMMA SubscribeStep ==
  ASSUME TableInv, Subscribe
  PROVE  Apart' /\ Phases' /\ Tracks' /\ Listed' /\ SyncEndsOnList'
<1>1. UNCHANGED <<cache, behind, inited, marking, ch, wire, lis, local, pending>>
  BY DEF Subscribe
<1>2. effect = "registering" /\ effect' = "subscribing" /\ \A p \in Pairs : lis[p]
  BY DEF Subscribe, MaySubscribe
<1>3. \A p \in Pairs : resp'[p].at = "sent" /\ ~resp'[p].init
  BY DEF Subscribe, NoResponse
<1>4. \A p \in Pairs : resp[p].at = "none"
  BY <1>2 DEF TableInv, Phases
<1>5. Apart'
  BY <1>1 DEF TableInv, Apart
<1>6. Listed'
  BY <1>1, <1>3 DEF TableInv, Listed, Told
<1>7. Phases'
  BY <1>1, <1>2 DEF TableInv, Phases
<1>8. SyncEndsOnList'
  BY <1>1, <1>2, <1>4 DEF TableInv, SyncEndsOnList
<1>9. ASSUME NEW q \in Pairs, NEW v \in Uids, v \notin behind[q]
      PROVE  Tracked(cache[q][v], ch[q], wire[q], effect', resp'[q], local[q], v)
  <2>1. Tracked(cache[q][v], ch[q], wire[q], effect, resp[q], local[q], v)
    BY <1>9 DEF TableInv, Tracks
  <2>2. Holds(cache[q][v], effect, resp[q], local[q], v)
          => Holds(cache[q][v], effect', resp'[q], local[q], v)
    BY <1>2, <1>3 DEF Holds
  <2> QED
    BY <2>1, <2>2, HoldsTracked
<1>10. Tracks'
  BY <1>1, <1>9 DEF Tracks
<1> QED
  BY <1>5, <1>6, <1>7, <1>8, <1>10

LEMMA MergeStep ==
  ASSUME TableInv, Merge
  PROVE  Apart' /\ Phases' /\ Tracks' /\ Listed' /\ SyncEndsOnList'
<1>1. UNCHANGED <<cache, behind, inited, marking, ch, wire, lis, resp>>
  BY DEF Merge
<1>2. /\ effect = "subscribing" /\ effect' = "merged"
      /\ \A p \in Pairs : resp[p].at \in {"ok", "error"}
  BY DEF Merge
<1>3. pending' = pending \ SettledSyncs /\ local' = [p \in Pairs |-> Merged(p)]
  BY DEF Merge
<1>4. Apart' /\ Listed'
  BY <1>1 DEF TableInv, Apart, Listed, Told
<1>5. \A p \in Pairs : lis[p]
  BY <1>2 DEF TableInv, Phases
<1>6. Phases'
  BY <1>1, <1>2, <1>5 DEF Phases
<1>7. SyncEndsOnList'
  <2>1. \A q \in SettledSyncs : inited[q] \/ resp[q].at = "error"
    BY DEF SettledSyncs, TableInv, Listed, Told
  <2>2. \A q \in Pairs \ pending : inited[q] \/ resp[q].at = "error"
    BY <1>2 DEF TableInv, SyncEndsOnList
  <2>3. \A q \in Pairs \ pending' : q \in Pairs \ pending \/ q \in SettledSyncs
    BY <1>3
  <2> QED
    BY <1>1, <2>1, <2>2, <2>3 DEF SyncEndsOnList
<1>8. ASSUME NEW q \in Pairs, NEW v \in Uids, v \notin behind[q]
      PROVE  Tracked(cache[q][v], ch[q], wire[q], effect', resp[q], local'[q], v)
  <2>1. Tracked(cache[q][v], ch[q], wire[q], effect, resp[q], local[q], v)
    BY <1>8 DEF TableInv, Tracks
  <2>2. local'[q][v] = IF local[q][v] # NoRow THEN local[q][v] ELSE resp[q].rows[v]
    BY <1>3 DEF Merged
  <2>3. Holds(cache[q][v], effect, resp[q], local[q], v)
          => Holds(cache[q][v], effect', resp[q], local'[q], v)
    BY <1>2, <2>2 DEF Holds
  <2> QED
    BY <2>1, <2>3, HoldsTracked
<1>9. Tracks'
  BY <1>1, <1>8 DEF Tracks
<1> QED
  BY <1>4, <1>6, <1>7, <1>9

LEMMA UnmountStep ==
  ASSUME TableInv, Unmount
  PROVE  Apart' /\ Phases' /\ Tracks' /\ Listed' /\ SyncEndsOnList'
<1>1. UNCHANGED <<cache, behind, inited, marking, ch>> /\ effect' = "off"
  BY DEF Unmount
<1>2. \A p \in Pairs : ~lis'[p] /\ wire'[p] = <<>> /\ local'[p] = Empty
  BY DEF Unmount
<1>3. \A p \in Pairs : resp'[p].at = "none" /\ ~resp'[p].init
  BY DEF Unmount, NoResponse
<1>4. Apart'
  BY <1>1 DEF TableInv, Apart
<1>5. Phases'
  BY <1>1, <1>2, <1>3 DEF Phases
<1>6. Listed'
  BY <1>1, <1>2, <1>3 DEF TableInv, Listed, Told
<1>7. SyncEndsOnList'
  BY <1>1 DEF SyncEndsOnList
<1>8. ASSUME NEW q \in Pairs, NEW v \in Uids, v \notin behind[q]
      PROVE  Tracked(cache[q][v], ch[q], wire'[q], effect', resp'[q], local'[q], v)
  <2>1. Tracked(cache[q][v], ch[q], wire[q], effect, resp[q], local[q], v)
    BY <1>8 DEF TableInv, Tracks
  <2>2. Pends(ch[q], v) => ch[q].changed[v] = cache[q][v]
    BY <2>1 DEF Tracked
  <2>3. Tracked(cache[q][v], ch[q], <<>>, effect', resp'[q], Empty, v)
    BY <1>3, <2>2, LostTracked
  <2> QED
    BY <1>2, <2>3
<1>9. Tracks'
  BY <1>1, <1>8 DEF Tracks
<1> QED
  BY <1>4, <1>5, <1>6, <1>7, <1>9

LEMMA TableStep == TableInv /\ [TableNext]_tableVars => TableInv'
<1> SUFFICES ASSUME TableInv, [TableNext]_tableVars PROVE TableInv'
  OBVIOUS
<1>1. TableTypeOK'
  BY TableTypeStep DEF TableInv
<1>2. Apart' /\ Phases' /\ Tracks' /\ Listed' /\ SyncEndsOnList'
  <2>1. CASE UNCHANGED tableVars
    <3>1. UNCHANGED <<cache, behind, inited, marking, ch, wire, effect, lis, resp, local, pending>>
      BY <2>1 DEF tableVars
    <3>2. Phases' /\ SyncEndsOnList'
      BY <3>1, ViewUnchanged DEF TableInv
    <3>3. Apart' /\ Listed'
      BY <3>1 DEF TableInv, Apart, Listed, Told
    <3>4. Tracks'
      BY <3>1 DEF TableInv, Tracks
    <3> QED
      BY <3>2, <3>3, <3>4
  <2>2. CASE TableNext
    BY <2>2, CacheWriteStep, RecordStep, InitDoneStep, MarkInitDoneStep, EmitStep, CallStep,
       DeliverStep, RegisterStep, SubscribeStep, MergeStep, UnmountStep DEF TableNext
  <2> QED
    BY <2>1, <2>2
<1> QED
  BY <1>1, <1>2 DEF TableInv

LEMMA TableInvariant == TableSpec => []TableInv
<1> QED
  BY TableInvInit, TableStep, PTL DEF TableSpec

-----------------------------------------------------------------------------
(* ResourceTable.tsx: the state stays typed, and the sync tracker drops a  *)
(* pair only when that pair's watcher has finished its initial list or its *)
(* subscribe failed, however events and answers interleave.                *)
THEOREM TableSync == TableSpec => []SyncIsSound
<1>1. TableInv => SyncIsSound
  BY DEF TableInv, SyncIsSound
<1> QED
  BY <1>1, TableInvariant, PTL

(* Where the news of a row is when the subscribes have been merged decides *)
(* what the table will show: the cached row.                               *)
LEMMA TrackedSettles ==
  ASSUME TableInv, effect = "merged", NEW p \in Pairs, resp[p].at = "ok",
         NEW u \in Uids, cache[p][u] # NoRow
  PROVE  Settled(p)[u] = cache[p][u]
<1> DEFINE row == cache[p][u]
<1>1. Settled(p)[u] = IF u \in behind[p] THEN row ELSE Caught(Arrived(p), ch[p])[u]
  BY DEF Settled
<1>2. CASE u \in behind[p]
  BY <1>1, <1>2
<1>3. CASE u \notin behind[p]
  <2>1. Tracked(row, ch[p], wire[p], effect, resp[p], local[p], u)
    BY <1>3 DEF TableInv, Tracks
  <2> HIDE DEF row
  <2>2. CASE Pends(ch[p], u)
    <3>1. ch[p].changed[u] = row
      BY <2>1, <2>2 DEF Tracked
    <3> QED
      BY <1>1, <1>3, <3>1 DEF Caught, row
  <2>3. CASE ~Pends(ch[p], u)
    <3>1. Settled(p)[u] = Arrived(p)[u]
      BY <1>1, <1>3, <2>3 DEF Caught, Pends
    <3> DEFINE said == Said(wire[p], u)
               last == CHOOSE i \in said : \A j \in said : j <= i
    <3>2. Arrived(p)[u] = IF said = {} THEN local[p][u]
                            ELSE Apply(local[p], wire[p][last])[u]
      BY DEF Arrived, Said
    <3>3. CASE Tells(wire[p], u, row)
      <4>1. PICK i \in said : (\A j \in said : j <= i) /\ Value(wire[p][i], u) = row
        BY <3>3 DEF Tells
      <4>2. last \in said /\ \A j \in said : j <= last
        BY <4>1
      <4>3. said \subseteq Nat
        BY DEF Said
      <4> HIDE DEF last
      <4>4. last = i
        BY <4>1, <4>2, <4>3
      <4>5. Mentions(wire[p][i], u)
        BY <4>1 DEF Said
      <4>6. Apply(local[p], wire[p][i])[u] = row
        BY <4>1, <4>5 DEF Apply, Mentions, Value
      <4> QED
        BY <3>1, <3>2, <4>1, <4>4, <4>6 DEF row
    <3>4. CASE said = {} /\ Holds(row, effect, resp[p], local[p], u)
      <4>1. local[p][u] = row
        BY <3>4 DEF Holds, row
      <4> QED
        BY <3>1, <3>2, <3>4, <4>1 DEF row
    <3> QED
      BY <2>1, <2>3, <3>3, <3>4 DEF Tracked
  <2> QED
    BY <2>2, <2>3
<1> QED
  BY <1>2, <1>3

(* ResourceTable.tsx and multiCluster.ts: from the merge on, every row the *)
(* watcher has cached is shown, or a delta that brings it is on its way:   *)
(* nothing falls between the snapshot and the events, whatever was emitted *)
(* before the listener was registered.                                     *)
THEOREM TableRows == TableSpec => []NoRowMissed
<1>1. TableInv => NoRowMissed
  BY TrackedSettles DEF NoRowMissed, Keys
<1> QED
  BY <1>1, TableInvariant, PTL
=============================================================================
