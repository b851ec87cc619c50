---------------------------- MODULE HealthMonitor ----------------------------
(***************************************************************************)
(* How a dead apiserver is noticed and made known: the probe loop of one   *)
(* ClusterEntry (crates/core/src/health.rs), the forwarder that carries    *)
(* its broadcast to the UI and tears the cluster down                      *)
(* (wire_cluster_health, spawn_health_forwarder, tear_down_unhealthy and   *)
(* on_system_resumed in crates/app/src/commands.rs), the eviction of the   *)
(* entry, and the panel that listens and polls                             *)
(* (ui/src/lib/useClusterConnection.ts).                                   *)
(*                                                                         *)
(* Time is kept relative to the probe's ticks, which are Interval apart; a *)
(* probe takes 0..Timeout.                                                  *)
(***************************************************************************)
EXTENDS Integers, Sequences

CONSTANTS Interval,        \* PROBE_INTERVAL
          Timeout,         \* PROBE_TIMEOUT
          UnhealthyAfter,  \* UNHEALTHY_AFTER
          Cap,             \* BROADCAST_CAP
          MaxInbox         \* bound: events on their way to the panel

ASSUME TimesAssumption ==
  /\ Interval \in Nat \ {0} /\ Timeout \in 0..(Interval - 1)
  /\ UnhealthyAfter \in Nat \ {0}
ASSUME QueuesAssumption == Cap \in Nat \ {0} /\ MaxInbox \in Nat \ {0}

Status == {"healthy", "unavailable"}
None == "none"

VARIABLES
  up,       \* does the apiserver answer?
  pc,       \* the probe loop: "wait", "send" (verdict stored, not sent), "done"
  lag,      \* the last tick minus first_failure_at; NoFailure if there is none
  heard,    \* AliveBeacon: a watch event arrived since the last tick
  silence,  \* time from the last good round to the last tick (history)
  last,     \* ClusterHealth::last
  wired,    \* ClusterEntry::health_wired
  fwd,      \* the forwarder: None, "spawned" (subscribed, not polled yet),
            \*   "replay" (holds its release guard), "loop"
  rx,       \* its broadcast receiver
  aborted,  \* its handle was aborted, its future not dropped yet
  orphaned, \* a forwarder was aborted before its first poll (history)
  gate,     \* ClusterEntry::unavailable
  tear,     \* tear_down_unhealthy: None, "gate", "drop", "emit" (after resume)
  woken,    \* is that teardown on_system_resumed's?
  entry,    \* the entry: "in" the map, "emptied" by an eviction, "gone"
  using,    \* a command has resolved the entry and will wire it
  listen,   \* the panel's listener is registered
  inbox,    \* events emitted to it
  pull,     \* the answer of a get_cluster_health under way, or None
  store     \* clusterHealth in the panel's store

probe == <<pc, lag, heard, silence, last>>
forwarder == <<wired, fwd, rx, aborted, orphaned>>
panel == <<listen, inbox, pull, store>>
vars == <<up, probe, forwarder, gate, tear, woken, entry, using, panel>>

NoFailure == -(Timeout + 1)

TypeOK ==
  /\ up \in BOOLEAN /\ pc \in {"wait", "send", "done"}
  /\ lag \in NoFailure..(UnhealthyAfter - 1) /\ heard \in BOOLEAN
  /\ silence \in 0..(UnhealthyAfter + Interval) /\ last \in Status
  /\ wired \in BOOLEAN /\ fwd \in {None, "spawned", "replay", "loop"}
  /\ rx \in Seq(Status) /\ Len(rx) <= Cap /\ aborted \in BOOLEAN /\ orphaned \in BOOLEAN
  /\ gate \in BOOLEAN /\ tear \in {None, "gate", "drop", "emit"} /\ woken \in BOOLEAN
  /\ entry \in {"in", "emptied", "gone"} /\ using \in BOOLEAN
  /\ listen \in BOOLEAN /\ inbox \in Seq(Status) /\ Len(inbox) <= MaxInbox
  /\ pull \in Status \cup {None} /\ store \in Status

Init ==
  /\ up = TRUE /\ pc = "wait" /\ lag = NoFailure /\ heard = FALSE /\ silence = 0
  /\ last = "healthy"
  /\ wired = FALSE /\ fwd = None /\ rx = <<>> /\ aborted = FALSE /\ orphaned = FALSE
  /\ gate = FALSE /\ tear = None /\ woken = FALSE /\ entry = "in" /\ using = FALSE
  /\ listen = FALSE /\ inbox = <<>> /\ pull = None /\ store = "healthy"

-----------------------------------------------------------------------------
(* The apiserver, and the watches that hear from it. *)
Flip ==
  /\ up' = ~up
  /\ UNCHANGED <<probe, forwarder, gate, tear, woken, entry, using, panel>>

mark ==
  /\ up /\ ~heard /\ heard' = TRUE
  /\ UNCHANGED <<up, pc, lag, silence, last, forwarder, gate, tear, woken, entry,
                 using, panel>>

(* The loop runs as long as somebody holds the ClusterHealth: its entry,   *)
(* or the forwarder.                                                       *)
Held == entry # "gone" \/ using \/ fwd # None

(* One round of the loop that goes well: the beacon was marked, or the     *)
(* probe is answered.  A failure window that was open is closed and the    *)
(* recovery broadcast.                                                     *)
Recovered_KeepsStart == lag + Interval   \* mutant: first_failure_at is kept
Recovered == NoFailure

RoundOk ==
  /\ pc = "wait" /\ Held /\ (heard \/ up)
  /\ heard' = FALSE /\ silence' = 0
  /\ lag' = IF lag = NoFailure THEN NoFailure ELSE Recovered
  /\ IF lag = NoFailure THEN UNCHANGED <<pc, last>>
                        ELSE last' = "healthy" /\ pc' = "send"
  /\ UNCHANGED <<up, forwarder, gate, tear, woken, entry, using, panel>>

(* One round that fails, d after its tick: the first failure opens the     *)
(* window; a failure UnhealthyAfter later ends the loop with the verdict.  *)
elapsed(d) == IF lag = NoFailure THEN 0 ELSE lag + Interval + d

RoundFail(d) ==
  /\ pc = "wait" /\ Held /\ ~heard
  /\ silence' = IF silence > UnhealthyAfter THEN silence ELSE silence + Interval
  /\ \/ /\ elapsed(d) >= UnhealthyAfter
        /\ last' = "unavailable" /\ pc' = "send" /\ UNCHANGED lag
     \/ /\ elapsed(d) < UnhealthyAfter
        /\ lag' = IF lag = NoFailure THEN -d ELSE lag + Interval
        /\ UNCHANGED <<last, pc>>
  /\ UNCHANGED <<up, heard, forwarder, gate, tear, woken, entry, using, panel>>

(* tx.send reaches the receivers there are; a full one loses its oldest.   *)
send ==
  /\ pc = "send" /\ Held
  /\ pc' = IF last = "unavailable" THEN "done" ELSE "wait"
  /\ rx' = IF fwd = None THEN rx
           ELSE IF Len(rx) = Cap THEN Append(Tail(rx), last) ELSE Append(rx, last)
  /\ UNCHANGED <<up, lag, heard, silence, last, wired, fwd, aborted, orphaned, gate,
                 tear, woken, entry, using, panel>>

-----------------------------------------------------------------------------
(* wire_cluster_health, called by connect_context and by every subscribe   *)
(* (before it looks at the gate): the first claim spawns a forwarder,      *)
(* which is subscribed to the broadcast from then on.                      *)
UseEntry ==
  /\ entry # "gone" /\ ~using
  /\ using' = TRUE
  /\ UNCHANGED <<up, probe, forwarder, gate, tear, woken, entry, panel>>

wire_cluster_health ==
  /\ using /\ using' = FALSE
  /\ IF wired THEN UNCHANGED <<wired, fwd, rx>>
              ELSE wired' = TRUE /\ fwd' = "spawned" /\ rx' = <<>>
  /\ UNCHANGED <<up, probe, aborted, orphaned, gate, tear, woken, entry, panel>>

(* app.emit: an event nobody listens to is lost. *)
emit(s) == /\ Len(inbox) < MaxInbox
           /\ inbox' = IF listen THEN Append(inbox, s) ELSE inbox

(* The forwarder's future is dropped, and its ReleaseHealthWiring with it. *)
(* The guard is made by the first poll: a future dropped before that has   *)
(* none, and its claim stays.                                              *)
ReleaseHealthWiring_NormalExit ==   \* mutant: an abort does not release
  /\ wired' = aborted /\ fwd' = None /\ rx' = <<>> /\ aborted' = FALSE
  /\ orphaned' = (orphaned \/ fwd = "spawned")
ReleaseHealthWiring ==
  /\ wired' = (fwd = "spawned") /\ fwd' = None /\ rx' = <<>> /\ aborted' = FALSE
  /\ orphaned' = (orphaned \/ fwd = "spawned")

(* On an unavailable cluster: emit, spawn the teardown, exit.  If one is   *)
(* under way the two run as one from the start.                            *)
Unavailable ==
  /\ emit("unavailable")
  /\ tear' = "gate" /\ UNCHANGED woken
  /\ ReleaseHealthWiring

(* The first poll makes the guard; then the snapshot is replayed and the   *)
(* broadcast followed.                                                     *)
FirstPoll ==
  /\ fwd = "spawned" /\ fwd' = "replay"
  /\ UNCHANGED <<wired, rx, aborted, orphaned, tear, woken, inbox>>

ReplaySnapshot_Skipped ==   \* mutant: only the broadcast is followed
  /\ fwd = "replay" /\ fwd' = "loop"
  /\ UNCHANGED <<wired, rx, aborted, orphaned, tear, woken, inbox>>
ReplaySnapshot ==
  /\ fwd = "replay"
  /\ \/ last = "unavailable" /\ Unavailable
     \/ /\ last = "healthy" /\ fwd' = "loop"
        /\ UNCHANGED <<wired, rx, aborted, orphaned, tear, woken, inbox>>

Receive ==
  /\ fwd = "loop" /\ rx # <<>>
  /\ \/ Head(rx) = "unavailable" /\ Unavailable
     \/ /\ Head(rx) = "healthy" /\ emit("healthy") /\ rx' = Tail(rx)
        /\ UNCHANGED <<wired, fwd, aborted, orphaned, tear, woken>>

spawn_health_forwarder ==
  /\ FirstPoll \/ ReplaySnapshot \/ Receive
  /\ UNCHANGED <<up, probe, gate, entry, using, listen, pull, store>>

Aborted ==
  /\ aborted
  /\ ReleaseHealthWiring
  /\ UNCHANGED <<up, probe, gate, tear, woken, entry, using, panel>>

-----------------------------------------------------------------------------
(* tear_down_unhealthy on this entry: the gate, then drop_entry_watchers,  *)
(* which aborts the forwarder.  It finds nothing once the entry is gone.   *)
TearDownGate ==
  /\ tear = "gate"
  /\ gate' = (gate \/ entry # "gone")
  /\ tear' = "drop"
  /\ UNCHANGED <<up, probe, forwarder, woken, entry, using, panel>>

TearDownDrop ==
  /\ tear = "drop"
  /\ aborted' = (aborted \/ (entry # "gone" /\ fwd # None))
  /\ tear' = IF woken THEN "emit" ELSE None
  /\ UNCHANGED <<up, probe, wired, fwd, rx, orphaned, gate, woken, entry, using, panel>>

(* on_system_resumed tears every entry of the map down, then tells the UI. *)
on_system_resumed ==
  /\ entry # "gone" /\ ~woken
  /\ tear' = "gate" /\ woken' = TRUE
  /\ UNCHANGED <<up, probe, forwarder, gate, entry, using, panel>>

ResumeEmit ==
  /\ tear = "emit" /\ emit("unavailable")
  /\ tear' = None /\ woken' = FALSE
  /\ UNCHANGED <<up, probe, forwarder, gate, entry, using, listen, pull, store>>

(* evict_cluster_entry: drop_entry_watchers, then the map forgets it. *)
EvictDrop ==
  /\ entry = "in"
  /\ aborted' = (fwd # None)
  /\ entry' = "emptied"
  /\ UNCHANGED <<up, probe, wired, fwd, rx, orphaned, gate, tear, woken, using, panel>>

remove_cluster ==
  /\ entry = "emptied" /\ entry' = "gone"
  /\ UNCHANGED <<up, probe, forwarder, gate, tear, woken, using, panel>>

-----------------------------------------------------------------------------
(* The panel: its listener registers at some point, its events arrive, and *)
(* it asks for the health after the connect and on every HEALTH_POLL_MS.   *)
onClusterHealth ==
  /\ ~listen /\ listen' = TRUE
  /\ UNCHANGED <<up, probe, forwarder, gate, tear, woken, entry, using, inbox, pull, store>>

Deliver ==
  /\ inbox # <<>>
  /\ store' = Head(inbox) /\ inbox' = Tail(inbox)
  /\ UNCHANGED <<up, probe, forwarder, gate, tear, woken, entry, using, listen, pull>>

health_event_ProbeOnly == last   \* mutant: the gate is not consulted
health_event_for == IF gate THEN "unavailable" ELSE last

get_cluster_health ==
  /\ pull = None
  /\ pull' = IF entry = "gone" THEN "healthy" ELSE health_event_for
  /\ UNCHANGED <<up, probe, forwarder, gate, tear, woken, entry, using, listen, inbox, store>>

ApplyPull ==
  /\ pull # None
  /\ store' = pull /\ pull' = None
  /\ UNCHANGED <<up, probe, forwarder, gate, tear, woken, entry, using, listen, inbox>>

-----------------------------------------------------------------------------
Probe == RoundOk \/ (\E d \in 0..Timeout : RoundFail(d)) \/ send
TearDown == TearDownGate \/ TearDownDrop \/ ResumeEmit

Next ==
  \/ Flip \/ mark \/ Probe
  \/ UseEntry \/ wire_cluster_health \/ spawn_health_forwarder \/ Aborted
  \/ TearDown \/ on_system_resumed \/ EvictDrop \/ remove_cluster
  \/ onClusterHealth \/ Deliver \/ get_cluster_health \/ ApplyPull

Spec == Init /\ [][Next]_vars

(* Tasks and commands run, an eviction finishes, events are delivered and  *)
(* the panel keeps polling.  Nothing makes the apiserver answer, a watch   *)
(* hear from it, the operator use or leave the cluster, or the machine     *)
(* sleep.                                                                  *)
LiveSpec ==
  /\ Spec
  /\ WF_vars(Probe) /\ WF_vars(wire_cluster_health)
  /\ WF_vars(spawn_health_forwarder) /\ WF_vars(Aborted)
  /\ WF_vars(TearDown) /\ WF_vars(remove_cluster)
  /\ WF_vars(Deliver) /\ WF_vars(get_cluster_health) /\ WF_vars(ApplyPull)

-----------------------------------------------------------------------------
(* A cluster is declared unavailable only after UNHEALTHY_AFTER without a  *)
(* single good round, however long each failing probe took.                *)
VerdictIsEarned == last = "unavailable" => silence >= UnhealthyAfter

(* Whoever holds the wiring claim is a live forwarder: a claim left behind *)
(* by one that exited or was aborted keeps every later subscribe from      *)
(* wiring the cluster again.  One abort does leave it behind: the one that *)
(* comes before the forwarder's first poll.                                *)
ClaimIsLive == (fwd # None => wired) /\ (wired => fwd # None \/ orphaned)

(* The promise in spawn_health_forwarder without that exception: the claim *)
(* is released on every exit path, including abort.                        *)
RearmedOnEveryExit == wired => fwd # None

(* A verdict a forwarder has yet to act on is not lost to it: it is about  *)
(* to be sent, or is the newest event of the receiver, however much the    *)
(* receiver lagged (a forwarder still to replay the snapshot reads it      *)
(* there).                                                                 *)
VerdictOnItsWay ==
  last = "unavailable" /\ fwd = "loop" =>
    pc = "send" \/ (rx # <<>> /\ rx[Len(rx)] = "unavailable")

(* The state is typed, the wiring claim comes back on every path of a      *)
(* forwarder that was polled, and no verdict is lost between the probe and *)
(* a wired forwarder.                                                      *)
WiringIsSound == TypeOK /\ ClaimIsLive /\ VerdictOnItsWay

(* A wired cluster's verdict reaches the gate: whether it was stored       *)
(* before, during or after the forwarder's spawn, and whatever the         *)
(* receiver lost to lag, the cluster is torn down (unless it is left).     *)
VerdictReachesGate == (last = "unavailable" /\ fwd # None) ~> (gate \/ entry = "gone")

(* The panel of a gated cluster gets to show it, even when the one event   *)
(* was emitted before its listener was registered.                         *)
PanelLearns == gate ~> (store = "unavailable" \/ entry = "gone")
=============================================================================
