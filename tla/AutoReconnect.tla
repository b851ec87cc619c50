---------------------------- MODULE AutoReconnect ----------------------------
(***************************************************************************)
(* One cluster panel's connection: the connect attempts, the manual        *)
(* Reconnect and Cancel, and the silent auto-reconnect session with its    *)
(* back-off budget and recovery dwell (ui/src/lib/useClusterConnection.ts),*)
(* over what the backend's connect_context, reconnect_cluster and          *)
(* get_cluster_health answer.                                              *)
(*                                                                         *)
(* The session's refs are the record `ctl`; the controller's methods are   *)
(* operators on it.  React runs the two watcher effects some time after a  *)
(* value they depend on has changed (Effects).                             *)
(***************************************************************************)
EXTENDS Naturals

CONSTANTS MaxAuto,     \* MAX_AUTO
          Permanent,   \* can a failure be a permanent one (an RBAC denial)?
          MaxPresses,  \* bound: presses of Reconnect
          MaxResumes   \* bound: times the machine sleeps

ASSUME MaxAutoAssumption == MaxAuto \in Nat \ {0}
ASSUME OperatorAssumption ==
  /\ Permanent \in BOOLEAN
  /\ MaxPresses \in Nat /\ MaxResumes \in Nat

VARIABLES
  alive,    \* does the cluster answer?
  entry,    \* the backend's entry: "none", "live", "wedged" (unavailable)
  st,       \* ConnectState
  conn,     \* the connect_context under way: "none", "reuse", "fresh"
  calls,    \* reconnect_cluster calls under way: of the session, of the operator
  health,   \* the store's clusterHealth
  perm,     \* is its reason one that isPermanentConnectFailure?
  hydrate,  \* the health pull that follows a connect is still to come
  tab,      \* tabActive
  epoch,    \* resumeEpoch
  ctl,      \* the auto-reconnect session
  ref,      \* prevHealthRef, wasActiveRef, resumeSeenRef, resumeDeferredRef
  shown,    \* the values the effects last ran with
  presses   \* Reconnect presses so far

vars == <<alive, entry, st, conn, calls, health, perm, hydrate, tab, epoch, ctl,
          ref, shown, presses>>

Controls == [used : 0..MaxAuto, session : BOOLEAN, inFlight : BOOLEAN,
             backoff : BOOLEAN, dwell : BOOLEAN, busy : BOOLEAN]
Healths == {"healthy", "unavailable"}
States == {"connecting", "ok", "cancelled", "error"}

TypeOK ==
  /\ alive \in BOOLEAN /\ entry \in {"none", "live", "wedged"} /\ st \in States
  /\ conn \in {"none", "reuse", "fresh"}
  /\ calls \in [auto : Nat, manual : 0..MaxPresses]
  /\ health \in Healths /\ perm \in BOOLEAN /\ hydrate \in BOOLEAN /\ tab \in BOOLEAN
  /\ epoch \in 0..MaxResumes /\ ctl \in Controls
  /\ ref \in [health : Healths, active : BOOLEAN, seen : 0..MaxResumes, deferred : BOOLEAN]
  /\ shown \in Healths \X BOOLEAN \X States \X BOOLEAN \X (0..MaxResumes)
  /\ presses \in 0..MaxPresses

Reasons == IF Permanent THEN BOOLEAN ELSE {FALSE}

(* What connect_context does with the entry it finds at its start. *)
Reuse(e) == IF e = "wedged" THEN "fresh" ELSE "reuse"

(* The panel is mounted over an entry that may be cached already. *)
Init ==
  /\ alive \in BOOLEAN /\ entry \in {"none", "live", "wedged"}
  /\ st = "connecting" /\ conn = Reuse(entry)
  /\ calls = [auto |-> 0, manual |-> 0]
  /\ health = "healthy" /\ perm = FALSE /\ hydrate = FALSE /\ tab = TRUE /\ epoch = 0
  /\ ctl = [used |-> 0, session |-> FALSE, inFlight |-> FALSE, backoff |-> FALSE,
            dwell |-> FALSE, busy |-> FALSE]
  /\ ref = [health |-> "healthy", active |-> TRUE, seen |-> 0, deferred |-> FALSE]
  /\ shown = <<"healthy", FALSE, "connecting", TRUE, 0>>
  /\ presses = 0

-----------------------------------------------------------------------------
(* The controller. *)
endSession(c, resetCounter) ==
  [c EXCEPT !.backoff = FALSE, !.dwell = FALSE, !.session = FALSE, !.inFlight = FALSE,
            !.busy = FALSE, !.used = IF resetCounter THEN 0 ELSE @]

Exhausted_OneMore(c) == c.used > MaxAuto   \* mutant: off by one
Exhausted(c) == c.used >= MaxAuto

Dedupe_Never(c) == FALSE   \* mutant: every signal schedules
Dedupe(c) == c.backoff \/ c.inFlight

scheduleNext(c) ==
  CASE Dedupe(c) -> c
    [] ~Dedupe(c) /\ Exhausted(c) -> endSession(c, FALSE)
    [] OTHER -> [c EXCEPT !.session = TRUE, !.busy = TRUE, !.backoff = TRUE]

onUnavailable(c, permanent) ==
  LET d == [c EXCEPT !.dwell = FALSE]
  IN IF permanent THEN endSession(d, TRUE) ELSE scheduleNext(d)

onResumed(c) == scheduleNext(endSession(c, TRUE))

(* An attempt has connected: show it at once, keep the session for a       *)
(* while.  An attempt has failed: no event will come, so go on.            *)
Connected_StillBusy(c) == [c EXCEPT !.dwell = TRUE]   \* mutant: grayed through the dwell
Connected(c) == [c EXCEPT !.busy = FALSE, !.dwell = TRUE]

Failed_AwaitsEvent(c) == c   \* mutant: the next unavailable event is to drive it
Failed(c) == scheduleNext(c)

onConnectResolved(c, ok, permanent) ==
  LET d == [c EXCEPT !.inFlight = FALSE]
  IN CASE ~d.session -> d
       [] d.session /\ ok -> Connected(d)
       [] d.session /\ ~ok /\ permanent -> endSession(d, TRUE)
       [] d.session /\ ~ok /\ ~permanent -> Failed(d)

(* The back-off timer fires: runAttempt. *)
runAttempt ==
  /\ ctl.backoff
  /\ ctl' = [ctl EXCEPT !.backoff = FALSE, !.used = @ + 1, !.inFlight = TRUE]
  /\ calls' = [calls EXCEPT !.auto = @ + 1]
  /\ UNCHANGED <<alive, entry, st, conn, health, perm, hydrate, tab, epoch, ref,
                 shown, presses>>

DwellOver ==
  /\ ctl.dwell
  /\ ctl' = endSession(ctl, TRUE)
  /\ UNCHANGED <<alive, entry, st, conn, calls, health, perm, hydrate, tab, epoch,
                 ref, shown, presses>>

(* The Reconnect button. *)
reconnect ==
  /\ presses < MaxPresses /\ presses' = presses + 1
  /\ ctl' = endSession(ctl, TRUE)
  /\ calls' = [calls EXCEPT !.manual = @ + 1]
  /\ UNCHANGED <<alive, entry, st, conn, health, perm, hydrate, tab, epoch, ref, shown>>

(* reconnect_cluster has dropped the entry: the health is cleared and the  *)
(* connect effect runs again, its predecessor's answer is ignored.         *)
Reconnected(who) ==
  /\ calls[who] > 0
  /\ calls' = [calls EXCEPT ![who] = @ - 1]
  /\ entry' = "none" /\ health' = "healthy" /\ perm' = FALSE /\ hydrate' = FALSE
  /\ st' = "connecting" /\ conn' = Reuse("none")
  /\ UNCHANGED <<alive, tab, epoch, ctl, ref, shown, presses>>

-----------------------------------------------------------------------------
(* connect_context answers.  A reused entry is handed back as it is; a     *)
(* fresh client replaces a wedged one.                                     *)
ConnectOk ==
  /\ conn # "none" /\ alive
  /\ entry' = IF entry = "none" \/ conn = "fresh" THEN "live" ELSE entry
  /\ conn' = "none" /\ st' = "ok" /\ hydrate' = TRUE
  /\ ctl' = onConnectResolved(ctl, TRUE, FALSE)
  /\ UNCHANGED <<alive, calls, health, perm, tab, epoch, ref, shown, presses>>

ConnectError ==
  /\ conn # "none" /\ ~alive
  /\ conn' = "none" /\ st' = "error"
  /\ \E permanent \in Reasons : ctl' = onConnectResolved(ctl, FALSE, permanent)
  /\ UNCHANGED <<alive, entry, calls, health, perm, hydrate, tab, epoch, ref, shown, presses>>

(* The Cancel button, and the answer of the connect it cancelled. *)
cancel ==
  /\ st = "connecting" /\ st' = "cancelled"
  /\ UNCHANGED <<alive, entry, conn, calls, health, perm, hydrate, tab, epoch, ctl,
                 ref, shown, presses>>

ConnectCancelled ==
  /\ conn # "none" /\ st = "cancelled"
  /\ conn' = "none"
  /\ UNCHANGED <<alive, entry, st, calls, health, perm, hydrate, tab, epoch, ctl,
                 ref, shown, presses>>

-----------------------------------------------------------------------------
(* The backend and the cluster. *)
Flip ==
  /\ alive' = ~alive
  /\ UNCHANGED <<entry, st, conn, calls, health, perm, hydrate, tab, epoch, ctl, ref,
                 shown, presses>>

(* Another command connects lazily (App's eager namespaces subscribe). *)
LazyEntry ==
  /\ entry = "none" /\ alive /\ entry' = "live"
  /\ UNCHANGED <<alive, st, conn, calls, health, perm, hydrate, tab, epoch, ctl, ref,
                 shown, presses>>

(* The probe gives the entry up; its one event is heard or lost. *)
Wedge ==
  /\ entry = "live" /\ ~alive /\ entry' = "wedged"
  /\ \/ health' = "unavailable" /\ perm' \in Reasons
     \/ UNCHANGED <<health, perm>>
  /\ UNCHANGED <<alive, st, conn, calls, hydrate, tab, epoch, ctl, ref, shown, presses>>

(* on_system_resumed: every entry is gated, the UI told twice. *)
Resume ==
  /\ epoch < MaxResumes /\ epoch' = epoch + 1
  /\ entry' = IF entry = "live" THEN "wedged" ELSE entry
  /\ health' = IF entry = "none" THEN health ELSE "unavailable"
  /\ perm' = FALSE
  /\ UNCHANGED <<alive, st, conn, calls, hydrate, tab, ctl, ref, shown, presses>>

(* The store learns the gate: by the pull after a connect, by the poll of  *)
(* a visible panel, or by a refused subscribe.                             *)
pullHealth ==
  /\ st = "ok" /\ (hydrate \/ tab)
  /\ hydrate' = FALSE
  /\ health' = IF entry = "wedged" THEN "unavailable" ELSE "healthy"
  /\ perm' = FALSE
  /\ UNCHANGED <<alive, entry, st, conn, calls, tab, epoch, ctl, ref, shown, presses>>

SubscribeRefused ==
  /\ entry = "wedged" /\ health' = "unavailable" /\ perm' = FALSE
  /\ UNCHANGED <<alive, entry, st, conn, calls, hydrate, tab, epoch, ctl, ref, shown, presses>>

SwitchTab ==
  /\ tab' = ~tab
  /\ UNCHANGED <<alive, entry, st, conn, calls, health, perm, hydrate, epoch, ctl, ref,
                 shown, presses>>

(* The watcher effects, on the values of one render: recovery starts on    *)
(* the transition into unavailable (or on coming back to the tab) while    *)
(* connected; a resume starts it over, unless a connect is under way.      *)
Transition == (health # ref.health \/ (tab /\ ~ref.active)) /\ st = "ok"

Effects ==
  LET now == <<health, perm, st, tab, epoch>>
      c == IF tab /\ health = "unavailable" /\ Transition THEN onUnavailable(ctl, perm) ELSE ctl
      resumed == tab /\ ref.seen # epoch
      restart == resumed /\ st \in {"ok", "error"} /\ ~(ref.deferred /\ st = "ok")
  IN /\ now # shown /\ shown' = now
     /\ ctl' = IF restart THEN onResumed(c) ELSE c
     /\ ref' = [health |-> health, active |-> tab,
                seen |-> IF resumed /\ st # "connecting" THEN epoch ELSE ref.seen,
                deferred |-> IF resumed THEN st = "connecting" ELSE ref.deferred]
     /\ UNCHANGED <<alive, entry, st, conn, calls, health, perm, hydrate, tab, epoch, presses>>

-----------------------------------------------------------------------------
Connect == ConnectOk \/ ConnectError \/ ConnectCancelled

Next ==
  \/ runAttempt \/ DwellOver \/ reconnect \/ Reconnected("auto") \/ Reconnected("manual")
  \/ Connect \/ cancel \/ Flip \/ LazyEntry \/ Wedge \/ Resume
  \/ pullHealth \/ SubscribeRefused \/ SwitchTab \/ Effects

Spec == Init /\ [][Next]_vars

(* Timers fire, commands answer, effects run and the panel polls; the      *)
(* cluster, the operator and the machine owe nothing.                      *)
LiveSpec ==
  /\ Spec
  /\ WF_vars(runAttempt) /\ WF_vars(DwellOver)
  /\ WF_vars(Reconnected("auto")) /\ WF_vars(Reconnected("manual"))
  /\ WF_vars(Connect) /\ WF_vars(pullHealth) /\ WF_vars(Effects)

-----------------------------------------------------------------------------
(* The session's own view: its next attempt is either waiting for the      *)
(* back-off or under way, never both, and its counter stays in budget, so  *)
(* a flapping cluster cannot multiply the retries.                         *)
OneAttemptAtATime == ~(ctl.backoff /\ ctl.inFlight) /\ ctl.used <= MaxAuto

(* The panel is grayed as "reconnecting" only while a retry is waiting or  *)
(* being made; Cancel alone leaves it so with nothing under way.           *)
BusyMeansRetrying ==
  ctl.busy => ctl.backoff \/ calls.auto > 0 \/ conn # "none" \/ st = "cancelled"

(* The attempts of a session are sound: one at a time, within the budget,  *)
(* and never announced when none is made.                                  *)
AttemptsAreSound == TypeOK /\ OneAttemptAtATime /\ BusyMeansRetrying

(* Every session comes to an end, unless the operator cancels it: the      *)
(* cluster recovers and stays, the budget runs out, or the failure is      *)
(* permanent.                                                              *)
SessionEnds == ctl.session ~> (~ctl.session \/ st = "cancelled")

(* A visible, connected panel over a wedged entry starts a session,        *)
(* whichever source noticed the wedge, unless its budget is spent.         *)
WedgeStartsSession ==
  (entry = "wedged" /\ st = "ok" /\ tab) ~>
     (ctl.session \/ ctl.used = MaxAuto \/ entry # "wedged" \/ st # "ok" \/ ~tab)
=============================================================================
