------------------------ MODULE HealthMonitorProofs ------------------------
(***************************************************************************)
(* Proofs, for every probe interval, timeout and threshold and every queue *)
(* capacity, that the verdict of the health probe is earned, that it is    *)
(* not lost to a wired forwarder and whose wiring claim it can be.         *)
(***************************************************************************)
EXTENDS HealthMonitor, TLAPS

-----------------------------------------------------------------------------
(* The failure window lies within the silence: while a first failure is    *)
(* remembered the last good round is at least one Interval older than it,  *)
(* up to the point where the history stops counting.                       *)
WindowInSilence ==
  lag # NoFailure => silence >= lag + Interval \/ silence > UnhealthyAfter

(* A verdict ends the probing: no later round can take it back. *)
VerdictIsFinal == last = "unavailable" => pc \in {"send", "done"}

IInv == WiringIsSound /\ VerdictIsEarned /\ WindowInSilence /\ VerdictIsFinal

LEMMA InitIInv == Init => IInv
<1> SUFFICES ASSUME Init PROVE IInv
  OBVIOUS
<1> USE DEF Init
<1>1. TypeOK
  <2>1. /\ lag \in NoFailure..(UnhealthyAfter - 1)
        /\ silence \in 0..(UnhealthyAfter + Interval)
    BY TimesAssumption DEF NoFailure
  <2>2. /\ rx \in Seq(Status) /\ Len(rx) <= Cap
        /\ inbox \in Seq(Status) /\ Len(inbox) <= MaxInbox
    BY QueuesAssumption
  <2> QED
    BY <2>1, <2>2 DEF TypeOK, Status, None
<1>2. ClaimIsLive
  BY DEF ClaimIsLive, None
<1> QED
  BY <1>1, <1>2 DEF IInv, WiringIsSound, VerdictOnItsWay, VerdictIsEarned,
                    WindowInSilence, VerdictIsFinal

-----------------------------------------------------------------------------
(* Queues.  Appending to a queue below its bound, or to the tail of a full *)
(* one, keeps it within the bound and makes the event its newest.          *)
LEMMA AppendNewest ==
  ASSUME NEW q \in Seq(Status), NEW s \in Status
  PROVE  /\ Append(q, s) \in Seq(Status) /\ Len(Append(q, s)) = Len(q) + 1
         /\ Append(q, s) # <<>> /\ Append(q, s)[Len(Append(q, s))] = s
<1>1. Append(q, s) \in Seq(Status) /\ Len(Append(q, s)) = Len(q) + 1
  OBVIOUS
<1>2. Append(q, s)[Len(q) + 1] = s
  OBVIOUS
<1> QED
  BY <1>1, <1>2

(* Taking an event that is not the newest leaves the newest in place. *)
LEMMA TailFacts ==
  ASSUME NEW q \in Seq(Status), q # <<>>
  PROVE  /\ Tail(q) \in Seq(Status) /\ Len(Tail(q)) = Len(q) - 1 /\ Head(q) \in Status
         /\ q[Len(q)] # Head(q) => Tail(q) # <<>> /\ Tail(q)[Len(Tail(q))] = q[Len(q)]
<1>1. Len(q) \in Nat \ {0}
  OBVIOUS
<1>2. Tail(q) \in Seq(Status) /\ Len(Tail(q)) = Len(q) - 1
  OBVIOUS
<1>3. Head(q) = q[1] /\ Head(q) \in Status
  OBVIOUS
<1>4. \A i \in 1..(Len(q) - 1) : Tail(q)[i] = q[i + 1]
  OBVIOUS
<1>5. ASSUME q[Len(q)] # Head(q)
      PROVE  Tail(q) # <<>> /\ Tail(q)[Len(Tail(q))] = q[Len(q)]
  <2>1. Len(q) > 1
    BY <1>1, <1>3, <1>5
  <2>2. Tail(q)[Len(q) - 1] = q[Len(q)]
    BY <1>1, <1>4, <2>1
  <2>3. Len(Tail(q)) # 0
    BY <1>1, <1>2, <2>1
  <2>4. Len(<< >>) = 0
    OBVIOUS
  <2>5. Tail(q) # << >>
    BY <2>3, <2>4, Zenon
  <2> QED
    BY <1>2, <2>2, <2>5, Zenon
<1> QED
  BY <1>2, <1>3, <1>5

(* What the probe's send does to a receiver. *)
LEMMA SendFacts ==
  ASSUME NEW q \in Seq(Status), NEW s \in Status, Len(q) <= Cap,
         NEW r, r = IF Len(q) = Cap THEN Append(Tail(q), s) ELSE Append(q, s)
  PROVE  r \in Seq(Status) /\ Len(r) <= Cap /\ r # <<>> /\ r[Len(r)] = s
<1>1. CASE Len(q) = Cap
  <2>1. q # <<>>
    BY <1>1, QueuesAssumption
  <2>2. Tail(q) \in Seq(Status) /\ Len(Tail(q)) = Len(q) - 1
    BY <2>1, TailFacts
  <2> HIDE DEF Status
  <2> QED
    BY <1>1, <2>2, AppendNewest, QueuesAssumption
<1>2. CASE Len(q) # Cap
  <2>1. Len(q) \in Nat
    OBVIOUS
  <2> QED
    BY <1>2, <2>1, AppendNewest, QueuesAssumption
<1> QED
  BY <1>1, <1>2
-----------------------------------------------------------------------------
(* What a step must leave alone to keep a part of the invariant. *)
LEMMA ProbeFrame ==
  ASSUME IInv, UNCHANGED <<pc, lag, silence, last>>
  PROVE  VerdictIsEarned' /\ WindowInSilence' /\ VerdictIsFinal'
  BY DEF IInv, VerdictIsEarned, WindowInSilence, VerdictIsFinal

LEMMA ClaimFrame ==
  ASSUME IInv, UNCHANGED <<wired, fwd, orphaned>>
  PROVE  ClaimIsLive'
  BY DEF IInv, WiringIsSound, ClaimIsLive

LEMMA VerdictFrame ==
  ASSUME IInv, UNCHANGED <<pc, last, fwd, rx>>
  PROVE  VerdictOnItsWay'
  BY DEF IInv, WiringIsSound, VerdictOnItsWay

(* Steps that touch neither the probe nor the forwarder. *)
LEMMA Frame ==
  ASSUME IInv, TypeOK', UNCHANGED <<pc, lag, silence, last, wired, fwd, rx, orphaned>>
  PROVE  IInv'
  BY ProbeFrame, ClaimFrame, VerdictFrame DEF IInv, WiringIsSound

-----------------------------------------------------------------------------
(* The probe loop. *)
LEMMA RoundOkStep ==
  ASSUME IInv, RoundOk
  PROVE  IInv'
<1>1. TypeOK
  BY DEF IInv, WiringIsSound
<1>2. NoFailure \in Int /\ NoFailure \in NoFailure..(UnhealthyAfter - 1)
  BY TimesAssumption DEF NoFailure
<1>3. lag' = NoFailure /\ silence' = 0
  BY DEF RoundOk, Recovered
<1>4. TypeOK'
  <2>1. silence' \in 0..(UnhealthyAfter + Interval)
    BY <1>3, TimesAssumption
  <2>2. lag' \in NoFailure..(UnhealthyAfter - 1)
    BY <1>2, <1>3
  <2>3. pc' \in {"wait", "send", "done"} /\ last' \in Status /\ heard' \in BOOLEAN
    BY <1>1 DEF RoundOk, TypeOK, Status
  <2>4. UNCHANGED <<up, forwarder, gate, tear, woken, entry, using, panel>>
    BY DEF RoundOk
  <2> QED
    BY <1>1, <2>1, <2>2, <2>3, <2>4 DEF TypeOK, forwarder, panel
<1>5. last = "healthy" /\ last' = "healthy"
  BY <1>1 DEF RoundOk, IInv, VerdictIsFinal, TypeOK, Status
<1>6. ClaimIsLive'
  BY ClaimFrame DEF RoundOk, forwarder
<1> QED
  BY <1>3, <1>4, <1>5, <1>6
  DEF IInv, WiringIsSound, VerdictOnItsWay, VerdictIsEarned, WindowInSilence, VerdictIsFinal

(* A verdict comes d after a tick that is a whole Interval later than the  *)
(* last one, and d is less than an Interval.                               *)
LEMMA RoundFailStep ==
  ASSUME IInv, NEW d \in 0..Timeout, RoundFail(d)
  PROVE  IInv'
<1>1. TypeOK /\ last = "healthy"
  BY DEF IInv, WiringIsSound, RoundFail, VerdictIsFinal, TypeOK, Status
<1>2. /\ Interval \in Nat /\ UnhealthyAfter \in Nat \ {0} /\ Timeout \in Nat
      /\ d \in Nat /\ d < Interval /\ d <= Timeout
      /\ lag \in Int /\ silence \in Nat /\ silence <= UnhealthyAfter + Interval
      /\ NoFailure = -(Timeout + 1) /\ lag >= NoFailure
  BY <1>1, TimesAssumption DEF TypeOK, NoFailure
<1>3. silence' \in 0..(UnhealthyAfter + Interval) /\ silence' >= silence
      /\ (silence' = silence + Interval \/ silence' > UnhealthyAfter)
  BY <1>2 DEF RoundFail
<1>4. WindowInSilence
  BY DEF IInv
<1>5. ClaimIsLive'
  BY ClaimFrame DEF RoundFail, forwarder
<1>6. CASE elapsed(d) >= UnhealthyAfter
  <2>1. last' = "unavailable" /\ pc' = "send" /\ lag' = lag
    BY <1>2, <1>6 DEF RoundFail, elapsed
  <2>2. lag # NoFailure /\ lag + Interval + d >= UnhealthyAfter
    BY <1>2, <1>6 DEF elapsed
  <2>3. silence' >= UnhealthyAfter
    BY <1>2, <1>3, <1>4, <2>2 DEF WindowInSilence
  <2>4. WindowInSilence'
    BY <1>2, <1>3, <1>4, <2>1, <2>2 DEF WindowInSilence, NoFailure
  <2>5. TypeOK'
    BY <1>1, <1>3, <2>1 DEF RoundFail, TypeOK, Status, forwarder, panel
  <2> QED
    BY <1>5, <2>1, <2>3, <2>4, <2>5
    DEF IInv, WiringIsSound, VerdictOnItsWay, VerdictIsEarned, VerdictIsFinal
<1>7. CASE elapsed(d) < UnhealthyAfter
  <2>1. /\ last' = last /\ pc' = pc
        /\ lag' = IF lag = NoFailure THEN -d ELSE lag + Interval
    BY <1>2, <1>7 DEF RoundFail, elapsed
  <2>2. lag' \in NoFailure..(UnhealthyAfter - 1)
    BY <1>2, <1>7, <2>1 DEF elapsed
  <2>3. WindowInSilence'
    BY <1>2, <1>3, <1>4, <2>1 DEF WindowInSilence, NoFailure
  <2>4. TypeOK'
    BY <1>1, <1>3, <2>1, <2>2 DEF RoundFail, TypeOK, Status, forwarder, panel, NoFailure
  <2> QED
    BY <1>1, <1>5, <2>1, <2>3, <2>4
    DEF IInv, WiringIsSound, VerdictOnItsWay, VerdictIsEarned, VerdictIsFinal
<1>8. elapsed(d) \in Int
  BY <1>2 DEF elapsed
<1> QED
  BY <1>2, <1>6, <1>7, <1>8

LEMMA SendStep ==
  ASSUME IInv, send
  PROVE  IInv'
<1>1. TypeOK
  BY DEF IInv, WiringIsSound
<1>2. UNCHANGED <<lag, silence, last, wired, fwd, orphaned>>
  BY DEF send
<1>3. fwd = None => rx' = rx
  BY DEF send
<1>4. fwd # None => rx' \in Seq(Status) /\ Len(rx') <= Cap /\ rx' # <<>> /\ rx'[Len(rx')] = last
  <2>1. SUFFICES ASSUME fwd # None
        PROVE  rx' \in Seq(Status) /\ Len(rx') <= Cap /\ rx' # <<>> /\ rx'[Len(rx')] = last
    OBVIOUS
  <2>2. rx' = IF Len(rx) = Cap THEN Append(Tail(rx), last) ELSE Append(rx, last)
    BY <2>1 DEF send
  <2> QED
    BY <1>1, <2>2, SendFacts DEF TypeOK
<1>5. TypeOK'
  <2>1. rx' \in Seq(Status) /\ Len(rx') <= Cap
    BY <1>1, <1>3, <1>4 DEF TypeOK
  <2> QED
    BY <1>1, <2>1 DEF send, TypeOK, panel
<1>6. VerdictOnItsWay'
  BY <1>2, <1>4 DEF VerdictOnItsWay, None
<1>7. VerdictIsEarned' /\ WindowInSilence' /\ VerdictIsFinal'
  BY <1>2 DEF IInv, send, VerdictIsEarned, WindowInSilence, VerdictIsFinal
<1> QED
  BY <1>2, <1>5, <1>6, <1>7, ClaimFrame DEF IInv, WiringIsSound

-----------------------------------------------------------------------------
(* The forwarder.  A release gives up the claim with the task that had it. *)
LEMMA ReleaseFacts ==
  ASSUME IInv, ReleaseHealthWiring, UNCHANGED <<pc, lag, silence, last>>
  PROVE  /\ ClaimIsLive' /\ VerdictOnItsWay'
         /\ VerdictIsEarned' /\ WindowInSilence' /\ VerdictIsFinal'
         /\ wired' \in BOOLEAN /\ fwd' \in {None, "spawned", "replay", "loop"}
         /\ rx' \in Seq(Status) /\ Len(rx') <= Cap /\ aborted' \in BOOLEAN
         /\ orphaned' \in BOOLEAN
<1>1. /\ wired' = (fwd = "spawned") /\ fwd' = None /\ rx' = <<>> /\ aborted' = FALSE
      /\ orphaned' = (orphaned \/ fwd = "spawned")
  BY DEF ReleaseHealthWiring
<1>2. rx' \in Seq(Status) /\ Len(rx') <= Cap
  BY <1>1, QueuesAssumption
<1> QED
  BY <1>1, <1>2, ProbeFrame DEF ClaimIsLive, VerdictOnItsWay, None

(* An event is emitted only while there is room for it. *)
LEMMA EmitFacts ==
  ASSUME TypeOK, NEW s \in Status, emit(s)
  PROVE  inbox' \in Seq(Status) /\ Len(inbox') <= MaxInbox
<1>1. inbox \in Seq(Status) /\ Len(inbox) < MaxInbox /\ Len(inbox) \in Nat
  BY DEF emit, TypeOK
<1>2. inbox' = Append(inbox, s) \/ inbox' = inbox
  BY DEF emit
<1>3. Append(inbox, s) \in Seq(Status) /\ Len(Append(inbox, s)) = Len(inbox) + 1
  BY <1>1, AppendNewest
<1> QED
  BY <1>1, <1>2, <1>3, QueuesAssumption

LEMMA UnavailableStep ==
  ASSUME IInv, Unavailable, UNCHANGED <<up, probe, gate, entry, using, listen, pull, store>>
  PROVE  IInv'
<1>1. TypeOK /\ UNCHANGED <<pc, lag, silence, last, heard>>
  BY DEF IInv, WiringIsSound, probe
<1>2. inbox' \in Seq(Status) /\ Len(inbox') <= MaxInbox
  BY <1>1, EmitFacts DEF Unavailable, Status
<1>3. tear' = "gate" /\ woken' = woken
  BY DEF Unavailable
<1>4. /\ ClaimIsLive' /\ VerdictOnItsWay'
      /\ VerdictIsEarned' /\ WindowInSilence' /\ VerdictIsFinal'
      /\ wired' \in BOOLEAN /\ fwd' \in {None, "spawned", "replay", "loop"}
      /\ rx' \in Seq(Status) /\ Len(rx') <= Cap /\ aborted' \in BOOLEAN
      /\ orphaned' \in BOOLEAN
  BY <1>1, ReleaseFacts DEF Unavailable
<1>5. TypeOK'
  BY <1>1, <1>2, <1>3, <1>4 DEF TypeOK
<1> QED
  BY <1>4, <1>5 DEF IInv, WiringIsSound

LEMMA ForwarderStep ==
  ASSUME IInv, spawn_health_forwarder
  PROVE  IInv'
<1>1. TypeOK /\ UNCHANGED <<up, probe, gate, entry, using, listen, pull, store>>
  BY DEF IInv, WiringIsSound, spawn_health_forwarder
<1>2. CASE Unavailable
  BY <1>1, <1>2, UnavailableStep
<1>3. CASE /\ \/ fwd = "spawned" /\ fwd' = "replay"
              \/ fwd = "replay" /\ last = "healthy" /\ fwd' = "loop"
           /\ UNCHANGED <<wired, rx, aborted, orphaned, tear, woken, inbox>>
  <2>1. TypeOK'
    BY <1>1, <1>3 DEF TypeOK, probe
  <2>2. ClaimIsLive' /\ VerdictOnItsWay'
    BY <1>1, <1>3 DEF IInv, WiringIsSound, ClaimIsLive, VerdictOnItsWay, None, probe
  <2> QED
    BY <1>1, <2>1, <2>2, ProbeFrame DEF IInv, WiringIsSound, probe
<1>4. CASE fwd = "loop" /\ rx # <<>> /\ Head(rx) = "healthy" /\ emit("healthy")
           /\ rx' = Tail(rx) /\ UNCHANGED <<wired, fwd, aborted, orphaned, tear, woken>>
  <2>1. inbox' \in Seq(Status) /\ Len(inbox') <= MaxInbox
    BY <1>1, <1>4, EmitFacts DEF Status
  <2>2. /\ Tail(rx) \in Seq(Status) /\ Len(Tail(rx)) = Len(rx) - 1
        /\ rx[Len(rx)] # Head(rx) => Tail(rx) # <<>> /\ Tail(rx)[Len(Tail(rx))] = rx[Len(rx)]
    BY <1>1, <1>4, TailFacts DEF TypeOK
  <2>3. Len(rx') <= Cap
    BY <1>1, <1>4, <2>2, QueuesAssumption DEF TypeOK
  <2>4. TypeOK'
    BY <1>1, <1>4, <2>1, <2>2, <2>3 DEF TypeOK, probe
  <2>5. VerdictOnItsWay'
    <3>1. VerdictOnItsWay /\ pc' = pc /\ last' = last
      BY <1>1 DEF IInv, WiringIsSound, probe
    <3> QED
      BY <1>4, <2>2, <3>1 DEF VerdictOnItsWay
  <2> QED
    BY <1>1, <1>4, <2>4, <2>5, ProbeFrame, ClaimFrame DEF IInv, WiringIsSound, probe
<1> QED
  BY <1>2, <1>3, <1>4 DEF spawn_health_forwarder, FirstPoll, ReplaySnapshot, Receive

LEMMA WireStep ==
  ASSUME IInv, wire_cluster_health \/ Aborted
  PROVE  IInv'
<1>1. TypeOK /\ UNCHANGED <<up, pc, lag, heard, silence, last, gate, tear, woken, entry, listen,
                            inbox, pull, store>>
  BY DEF IInv, WiringIsSound, wire_cluster_health, Aborted, probe, panel
<1>2. CASE wire_cluster_health
  <2>1. using' \in BOOLEAN /\ aborted' = aborted /\ orphaned' = orphaned
    BY <1>2 DEF wire_cluster_health
  <2>2. CASE UNCHANGED <<wired, fwd, rx>>
    <3>1. TypeOK'
      BY <1>1, <2>1, <2>2 DEF TypeOK
    <3> QED
      BY <1>1, <2>1, <2>2, <3>1, Frame
  <2>3. CASE wired' = TRUE /\ fwd' = "spawned" /\ rx' = <<>>
    <3>1. rx' \in Seq(Status) /\ Len(rx') <= Cap
      BY <2>3, QueuesAssumption
    <3>2. TypeOK'
      BY <1>1, <2>1, <2>3, <3>1 DEF TypeOK
    <3>3. ClaimIsLive' /\ VerdictOnItsWay'
      BY <2>3 DEF ClaimIsLive, VerdictOnItsWay, None
    <3> QED
      BY <1>1, <3>2, <3>3, ProbeFrame DEF IInv, WiringIsSound
  <2> QED
    BY <1>2, <2>2, <2>3 DEF wire_cluster_health
<1>3. CASE Aborted
  <2>1. /\ ClaimIsLive' /\ VerdictOnItsWay'
        /\ VerdictIsEarned' /\ WindowInSilence' /\ VerdictIsFinal'
        /\ wired' \in BOOLEAN /\ fwd' \in {None, "spawned", "replay", "loop"}
        /\ rx' \in Seq(Status) /\ Len(rx') <= Cap /\ aborted' \in BOOLEAN
        /\ orphaned' \in BOOLEAN
    BY <1>1, <1>3, ReleaseFacts DEF Aborted
  <2>2. TypeOK'
    BY <1>1, <1>3, <2>1 DEF Aborted, TypeOK
  <2> QED
    BY <2>1, <2>2 DEF IInv, WiringIsSound
<1> QED
  BY <1>2, <1>3

-----------------------------------------------------------------------------
(* Teardown, eviction and the panel leave the probe and the claim alone. *)
LEMMA OtherStep ==
  ASSUME IInv,
         \/ Flip \/ mark \/ UseEntry \/ TearDown \/ on_system_resumed \/ EvictDrop
         \/ remove_cluster \/ onClusterHealth \/ Deliver \/ get_cluster_health \/ ApplyPull
  PROVE  IInv'
<1>1. TypeOK
  BY DEF IInv, WiringIsSound
<1> USE DEF probe, forwarder, panel
<1>2. CASE Flip \/ mark \/ UseEntry \/ on_system_resumed \/ remove_cluster \/ onClusterHealth
  <2>1. CASE Flip
    BY <1>1, <2>1, Frame DEF Flip, TypeOK
  <2>2. CASE mark
    BY <1>1, <2>2, Frame DEF mark, TypeOK
  <2>3. CASE UseEntry
    BY <1>1, <2>3, Frame DEF UseEntry, TypeOK
  <2>4. CASE on_system_resumed
    BY <1>1, <2>4, Frame DEF on_system_resumed, TypeOK
  <2>5. CASE remove_cluster
    BY <1>1, <2>5, Frame DEF remove_cluster, TypeOK
  <2>6. CASE onClusterHealth
    BY <1>1, <2>6, Frame DEF onClusterHealth, TypeOK
  <2> QED
    BY <1>2, <2>1, <2>2, <2>3, <2>4, <2>5, <2>6
<1>3. CASE TearDownGate
  BY <1>1, <1>3, Frame DEF TearDownGate, TypeOK
<1>4. CASE TearDownDrop
  BY <1>1, <1>4, Frame DEF TearDownDrop, TypeOK
<1>5. CASE ResumeEmit
  <2>1. inbox' \in Seq(Status) /\ Len(inbox') <= MaxInbox
    BY <1>1, <1>5, EmitFacts DEF ResumeEmit, Status
  <2>2. /\ tear' = None /\ woken' \in BOOLEAN
        /\ UNCHANGED <<up, probe, forwarder, gate, entry, using, listen, pull, store>>
    BY <1>5 DEF ResumeEmit
  <2>3. TypeOK'
    BY <1>1, <2>1, <2>2 DEF TypeOK
  <2> QED
    BY <2>2, <2>3, Frame
<1>6. CASE EvictDrop
  BY <1>1, <1>6, Frame DEF EvictDrop, TypeOK
<1>7. CASE Deliver
  <2>1. /\ Tail(inbox) \in Seq(Status) /\ Len(Tail(inbox)) = Len(inbox) - 1
        /\ Head(inbox) \in Status
    BY <1>1, <1>7, TailFacts DEF Deliver, TypeOK
  <2>2. Len(inbox') <= MaxInbox
    BY <1>1, <1>7, <2>1, QueuesAssumption DEF Deliver, TypeOK
  <2> QED
    BY <1>1, <1>7, <2>1, <2>2, Frame DEF Deliver, TypeOK
<1>8. CASE get_cluster_health
  BY <1>1, <1>8, Frame DEF get_cluster_health, health_event_for, TypeOK, Status
<1>9. CASE ApplyPull
  BY <1>1, <1>9, Frame DEF ApplyPull, TypeOK
<1> QED
  BY <1>2, <1>3, <1>4, <1>5, <1>6, <1>7, <1>8, <1>9 DEF TearDown

LEMMA NextIInv == IInv /\ [Next]_vars => IInv'
<1> SUFFICES ASSUME IInv, [Next]_vars PROVE IInv'
  OBVIOUS
<1>1. CASE UNCHANGED vars
  BY <1>1, Frame DEF vars, probe, forwarder, panel, IInv, WiringIsSound, TypeOK
<1>2. CASE Next
  BY <1>2, RoundOkStep, RoundFailStep, SendStep, ForwarderStep, WireStep, OtherStep
  DEF Next, Probe
<1> QED
  BY <1>1, <1>2

-----------------------------------------------------------------------------
(* The state of the monitor keeps its types, a cluster has no forwarder    *)
(* without its claim and no claim without a forwarder (but for one that    *)
(* was aborted before its first poll), and a verdict never drops out of a  *)
(* wired forwarder's reach, however small the broadcast buffer             *)
(* (health.rs run_probe_loop, commands.rs spawn_health_forwarder).         *)
THEOREM Wiring == Spec => []WiringIsSound
  BY InitIInv, NextIInv, PTL DEF Spec, IInv

(* A cluster is declared unavailable only after UNHEALTHY_AFTER of         *)
(* silence, for every interval and probe timeout shorter than it           *)
(* (health.rs run_probe_loop).                                             *)
THEOREM Earned == Spec => []VerdictIsEarned
  BY InitIInv, NextIInv, PTL DEF Spec, IInv
=============================================================================
