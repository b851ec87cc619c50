----------------------------- MODULE KindSlots -----------------------------
(***************************************************************************)
(* The refcounted watcher slot of one (cluster, kind, namespace scope) and *)
(* the views that share it: subscribe_resource, unsubscribe_resource, the  *)
(* linger shutdown, the always-on namespaces pin, the teardown of an       *)
(* unhealthy cluster, and the eviction and replacement of a cluster entry  *)
(* (crates/app/src/commands.rs, KindSlot in crates/app/src/state.rs), with *)
(* the mount/unmount protocol of the React views that call them.           *)
(*                                                                         *)
(* A cluster entry is a generation 1..MaxEntries; `cur` is the one the map *)
(* holds.  Commands run concurrently: each resolves its entry first and    *)
(* takes that entry's `kinds` lock later, so it can act on an entry that   *)
(* has been torn down, evicted or replaced in between.  What happens under *)
(* the lock is one step.  At most one teardown, one eviction and one       *)
(* replacing connect are under way at a time.                              *)
(***************************************************************************)
EXTENDS Integers, FiniteSets

CONSTANTS Careful,     \* views that release only what they took
                       \*   (useDetailRow, findDetailRow, the pod list)
          Tables,      \* views whose cleanup always unsubscribes
                       \*   (ResourceTable, App's namespaces effect)
          Pinned,      \* is this the pinned (namespaces, All) slot?
          MaxEntries,  \* bound: entries made by (re)connects
          MaxTimers    \* bound: linger tasks alive at once on one entry

Views == Careful \cup Tables
Entries == 1..MaxEntries

ASSUME ViewsAssumption == Careful \cap Tables = {} /\ "pin" \notin Views
ASSUME BoundsAssumption == MaxEntries \in Nat \ {0} /\ MaxTimers \in Nat \ {0}
ASSUME PinnedAssumption == Pinned \in BOOLEAN

(* The progress of a command: Idle, Sent (no entry resolved yet), or the   *)
(* entry it resolved and will lock.                                        *)
Idle == -1
Sent == 0

VARIABLES
  made,    \* entries made so far
  cur,     \* the entry in the map, 0 if none
  sick,    \* entry -> its probe declared it unavailable (or the system slept)
  gate,    \* entry -> ClusterEntry::unavailable
  slot,    \* entry -> its KindSlot; "not in the map" is Vacant
  timers,  \* entry -> linger tasks that have not ended
  pinned,  \* entry -> namespaces_pinned was claimed
  pinAt,   \* the entries whose pin is claimed and not yet subscribed
  subAt,   \* view -> progress of its subscribe_resource
  relAt,   \* view -> progress of its unsubscribe_resource
  tearAt,  \* progress of tear_down_unhealthy; an entry: gated, not emptied
  evictAt, \* progress of an eviction; an entry: to be emptied, Sent: to be removed
  connAt,  \* progress of a connect with a fresh client; an entry: displaced
  vstate,  \* view -> what its effect is doing
  held     \* view (or "pin") -> the entry whose count includes it, 0 if none

commands == <<pinAt, subAt, relAt, tearAt, evictAt, connAt>>
vars == <<made, cur, sick, gate, slot, timers, pinned, commands, vstate, held>>

Vacant == [present |-> FALSE, watcher |-> FALSE, subscribers |-> 0, handle |-> 0]
Progress == {Idle, Sent} \cup Entries

TypeOK ==
  /\ made \in 0..MaxEntries /\ cur \in 0..made
  /\ sick \in [Entries -> BOOLEAN] /\ gate \in [Entries -> BOOLEAN]
  /\ slot \in [Entries -> [present : BOOLEAN, watcher : BOOLEAN,
                           subscribers : Nat, handle : 0..MaxTimers]]
  /\ timers \in [Entries -> SUBSET (1..MaxTimers)]
  /\ pinned \in [Entries -> BOOLEAN] /\ pinAt \in SUBSET Entries
  /\ subAt \in [Views -> Progress] /\ relAt \in [Views -> Progress]
  /\ tearAt \in Progress /\ evictAt \in Progress /\ connAt \in Progress
  /\ vstate \in [Views -> {"off", "listening", "subscribing", "on", "failed", "leaving"}]
  /\ held \in [Views \cup {"pin"} -> 0..MaxEntries]

Init ==
  /\ made = 0 /\ cur = 0
  /\ sick = [e \in Entries |-> FALSE] /\ gate = [e \in Entries |-> FALSE]
  /\ slot = [e \in Entries |-> Vacant]
  /\ timers = [e \in Entries |-> {}]
  /\ pinned = [e \in Entries |-> FALSE] /\ pinAt = {}
  /\ subAt = [v \in Views |-> Idle] /\ relAt = [v \in Views |-> Idle]
  /\ tearAt = Idle /\ evictAt = Idle /\ connAt = Idle
  /\ vstate = [v \in Views |-> "off"]
  /\ held = [v \in Views \cup {"pin"} |-> 0]

-----------------------------------------------------------------------------
(* The views.  A table and the pod list register their event listener      *)
(* first and subscribe once it is registered.                              *)
Mount(v) ==
  /\ vstate[v] = "off" /\ subAt[v] = Idle /\ relAt[v] = Idle
  /\ vstate' = [vstate EXCEPT ![v] = "listening"]
  /\ UNCHANGED <<made, cur, sick, gate, slot, timers, pinned, commands, held>>

Listening(v) ==
  /\ vstate[v] = "listening"
  /\ vstate' = [vstate EXCEPT ![v] = "subscribing"]
  /\ subAt' = [subAt EXCEPT ![v] = Sent]
  /\ UNCHANGED <<made, cur, sick, gate, slot, timers, pinned, pinAt, relAt,
                 tearAt, evictAt, connAt, held>>

(* Cleanup of a careful view: release at once what was taken, later what   *)
(* is still being taken, nothing otherwise.                                *)
UnmountCareful(v) ==
  /\ v \in Careful /\ vstate[v] \in {"listening", "subscribing", "on", "failed"}
  /\ vstate' = [vstate EXCEPT ![v] = IF @ = "subscribing" THEN "leaving" ELSE "off"]
  /\ relAt' = IF vstate[v] = "on" THEN [relAt EXCEPT ![v] = Sent] ELSE relAt
  /\ UNCHANGED <<made, cur, sick, gate, slot, timers, pinned, pinAt, subAt,
                 tearAt, evictAt, connAt, held>>

(* Cleanup of a table: unsubscribe every pair, whatever happened to its    *)
(* subscribe.                                                              *)
UnmountTable(v) ==
  /\ v \in Tables /\ vstate[v] \in {"listening", "subscribing", "on", "failed"}
  /\ vstate' = [vstate EXCEPT ![v] = "off"]
  /\ relAt' = [relAt EXCEPT ![v] = Sent]
  /\ UNCHANGED <<made, cur, sick, gate, slot, timers, pinned, pinAt, subAt,
                 tearAt, evictAt, connAt, held>>

(* The outcome of a subscribe reaches its view.                            *)
Outcome_NoRelease(v, ok) ==   \* mutant: a view that left keeps what it took
  /\ vstate' = [vstate EXCEPT ![v] = CASE @ = "subscribing" -> IF ok THEN "on" ELSE "failed"
                                       [] @ = "leaving" -> "off"
                                       [] OTHER -> @]
  /\ UNCHANGED relAt

Outcome(v, ok) ==
  /\ vstate' = [vstate EXCEPT ![v] = CASE @ = "subscribing" -> IF ok THEN "on" ELSE "failed"
                                       [] @ = "leaving" -> "off"
                                       [] OTHER -> @]
  /\ relAt' = IF ok /\ vstate[v] = "leaving" THEN [relAt EXCEPT ![v] = Sent] ELSE relAt

-----------------------------------------------------------------------------
(* state.entry(): the entry of the map, or a lazily connected one.         *)
Resolve ==
  \/ cur # 0 /\ UNCHANGED <<cur, made>>
  \/ cur = 0 /\ made < MaxEntries /\ made' = made + 1 /\ cur' = made'

(* subscribe_resource resolves its entry and reads the unavailable gate,   *)
(* before it waits for the lock.                                           *)
SubscribeResolve(v) ==
  /\ subAt[v] = Sent
  /\ Resolve
  /\ IF gate[cur']
     THEN subAt' = [subAt EXCEPT ![v] = Idle] /\ Outcome(v, FALSE)
     ELSE subAt' = [subAt EXCEPT ![v] = cur'] /\ UNCHANGED <<vstate, relAt>>
  /\ UNCHANGED <<sick, gate, slot, timers, pinned, pinAt, tearAt, evictAt,
                 connAt, held>>

(* The lazy connect fails. *)
SubscribeError(v) ==
  /\ subAt[v] = Sent /\ cur = 0
  /\ subAt' = [subAt EXCEPT ![v] = Idle] /\ Outcome(v, FALSE)
  /\ UNCHANGED <<made, cur, sick, gate, slot, timers, pinned, pinAt, tearAt,
                 evictAt, connAt, held>>

(* What JoinHandle::abort leaves of entry e's linger tasks.  A task that   *)
(* is running when it is aborted goes on and takes the lock next.          *)
Aborted(e) == {timers[e] \ {slot[e].handle}, timers[e]}

(* Under entry e's lock: take the slot (or make it), abort its linger,     *)
(* start a watcher if it has none, count one more subscriber.              *)
Counted_Twice(e) == slot[e].subscribers + 2   \* mutant: counted by caller and callee
Counted(e) == slot[e].subscribers + 1

Bump(e) ==
  /\ \E T \in Aborted(e) : timers' = [timers EXCEPT ![e] = T]
  /\ slot' = [slot EXCEPT ![e] = [present |-> TRUE, watcher |-> TRUE,
                                  subscribers |-> Counted(e), handle |-> 0]]

subscribe_resource_with_entry(v) ==
  /\ subAt[v] \in Entries
  /\ Bump(subAt[v])
  /\ held' = [held EXCEPT ![v] = subAt[v]]
  /\ subAt' = [subAt EXCEPT ![v] = Idle] /\ Outcome(v, TRUE)
  /\ UNCHANGED <<made, cur, sick, gate, pinned, pinAt, tearAt, evictAt, connAt>>

(* connect_context reuses the entry, or has one made; it ends in           *)
(* pin_cluster_namespaces: look the entry up without connecting, claim its *)
(* pin, subscribe with that very entry.                                    *)
connect_context ==
  /\ cur = 0 /\ Resolve
  /\ UNCHANGED <<sick, gate, slot, timers, pinned, commands, vstate, held>>

PinClaim ==
  /\ Pinned /\ cur # 0 /\ ~pinned[cur]
  /\ pinned' = [pinned EXCEPT ![cur] = TRUE]
  /\ pinAt' = IF gate[cur] THEN pinAt ELSE pinAt \cup {cur}
  /\ UNCHANGED <<made, cur, sick, gate, slot, timers, subAt, relAt, tearAt,
                 evictAt, connAt, vstate, held>>

PinSubscribe(e) ==
  /\ e \in pinAt
  /\ Bump(e)
  /\ held' = [held EXCEPT !["pin"] = e]
  /\ pinAt' = pinAt \ {e}
  /\ UNCHANGED <<made, cur, sick, gate, pinned, subAt, relAt, tearAt, evictAt,
                 connAt, vstate>>

-----------------------------------------------------------------------------
(* unsubscribe_resource.  Without an entry there is nothing to release.    *)
UnsubscribeResolve(v) ==
  /\ relAt[v] = Sent
  /\ relAt' = [relAt EXCEPT ![v] = IF cur = 0 THEN Idle ELSE cur]
  /\ held' = IF cur = 0 THEN [held EXCEPT ![v] = 0] ELSE held
  /\ UNCHANGED <<made, cur, sick, gate, slot, timers, pinned, pinAt, subAt,
                 tearAt, evictAt, connAt, vstate>>

(* The last subscriber leaves a linger task behind. *)
spawn_Dropped(t) == {}   \* mutant: the task is never spawned
spawn(t) == {t}

plain_sub(n) == n - 1   \* mutant: the subtraction is not saturating
saturating_sub(n) == IF n = 0 THEN 0 ELSE n - 1

unsubscribe_resource(v) ==
  LET e == relAt[v]
      n == saturating_sub(slot[e].subscribers)
  IN /\ e \in Entries
     /\ \/ ~slot[e].present /\ UNCHANGED <<slot, timers>>
        \/ /\ slot[e].present /\ n # 0
           /\ slot' = [slot EXCEPT ![e].subscribers = n] /\ UNCHANGED timers
        \/ /\ slot[e].present /\ n = 0
           /\ \E t \in (1..MaxTimers) \ timers[e], T \in Aborted(e) :
                /\ slot' = [slot EXCEPT ![e].subscribers = 0, ![e].handle = t]
                /\ timers' = [timers EXCEPT ![e] = T \cup spawn(t)]
     /\ relAt' = [relAt EXCEPT ![v] = Idle]
     /\ held' = [held EXCEPT ![v] = 0]
     /\ UNCHANGED <<made, cur, sick, gate, pinned, pinAt, subAt, tearAt, evictAt,
                    connAt, vstate>>

(* A linger task wakes up and gets the lock. *)
Linger_AnyCount(e) == slot[e].present   \* mutant: the re-check is dropped
LingerMayDrop(e) == slot[e].present /\ slot[e].subscribers = 0

LingerFire(e, t) ==
  /\ t \in timers[e]
  /\ timers' = [timers EXCEPT ![e] = @ \ {t}]
  /\ slot' = IF LingerMayDrop(e) THEN [slot EXCEPT ![e] = Vacant] ELSE slot
  /\ UNCHANGED <<made, cur, sick, gate, pinned, commands, vstate, held>>

-----------------------------------------------------------------------------
(* drop_entry_watchers: abort every linger, drop every watcher, forget     *)
(* every count.                                                            *)
Dropped_CountKept(e) ==   \* mutant: the slot stays behind without its watcher
  [slot[e] EXCEPT !.watcher = FALSE, !.handle = 0]
Dropped(e) == Vacant

drop_entry_watchers(e) ==
  /\ \E T \in Aborted(e) : timers' = [timers EXCEPT ![e] = T]
  /\ slot' = [slot EXCEPT ![e] = Dropped(e)]
  /\ held' = [h \in DOMAIN held |-> IF held[h] = e THEN 0 ELSE held[h]]

(* The current entry is declared unavailable by its health probe, or the   *)
(* system resumed from sleep: a detached task will tear it down, by id.    *)
spawn_unhealthy_teardown ==
  /\ cur # 0 /\ ~sick[cur] /\ tearAt = Idle
  /\ sick' = [sick EXCEPT ![cur] = TRUE]
  /\ tearAt' = Sent
  /\ UNCHANGED <<made, cur, gate, slot, timers, pinned, pinAt, subAt, relAt,
                 evictAt, connAt, vstate, held>>

(* tear_down_unhealthy: the gate is set first; then the id is looked up    *)
(* once more and the slots of the entry found are emptied.                 *)
TearDownGate ==
  /\ tearAt = Sent
  /\ gate' = IF cur = 0 THEN gate ELSE [gate EXCEPT ![cur] = TRUE]
  /\ tearAt' = IF cur = 0 THEN Idle ELSE cur
  /\ UNCHANGED <<made, cur, sick, slot, timers, pinned, pinAt, subAt, relAt,
                 evictAt, connAt, vstate, held>>

TearDownDrop ==
  /\ tearAt \in Entries
  /\ \/ cur # 0 /\ drop_entry_watchers(cur)
     \/ cur = 0 /\ UNCHANGED <<slot, timers, held>>
  /\ tearAt' = Idle
  /\ UNCHANGED <<made, cur, sick, gate, pinned, pinAt, subAt, relAt, evictAt,
                 connAt, vstate>>

(* evict_cluster_entry, drop_cluster_watchers: find the entry, empty it,   *)
(* then remove whatever entry the id has by then.                          *)
evict_cluster_entry ==
  /\ evictAt = Idle
  /\ evictAt' = IF cur = 0 THEN Sent ELSE cur
  /\ UNCHANGED <<made, cur, sick, gate, slot, timers, pinned, pinAt, subAt,
                 relAt, tearAt, connAt, vstate, held>>

EvictDrop ==
  /\ evictAt \in Entries
  /\ drop_entry_watchers(evictAt)
  /\ evictAt' = Sent
  /\ UNCHANGED <<made, cur, sick, gate, pinned, pinAt, subAt, relAt, tearAt,
                 connAt, vstate>>

remove_cluster ==
  /\ evictAt = Sent
  /\ cur' = 0 /\ evictAt' = Idle
  /\ UNCHANGED <<made, sick, gate, slot, timers, pinned, pinAt, subAt, relAt,
                 tearAt, connAt, vstate, held>>

(* connect_context on a wedged entry: connect a fresh client, swap it in   *)
(* (unless a healthy entry is there by then), tear the old entry down.     *)
ConnectFresh ==
  /\ connAt = Idle /\ cur # 0 /\ gate[cur]
  /\ connAt' = Sent
  /\ UNCHANGED <<made, cur, sick, gate, slot, timers, pinned, pinAt, subAt,
                 relAt, tearAt, evictAt, vstate, held>>

insert_connected ==
  /\ connAt = Sent
  /\ \/ /\ cur # 0 /\ ~gate[cur]
        /\ connAt' = Idle /\ UNCHANGED <<made, cur>>
     \/ /\ cur # 0 => gate[cur]
        /\ made < MaxEntries /\ made' = made + 1 /\ cur' = made'
        /\ connAt' = IF cur = 0 THEN Idle ELSE cur
  /\ UNCHANGED <<sick, gate, slot, timers, pinned, pinAt, subAt, relAt, tearAt,
                 evictAt, vstate, held>>

(* The fresh connect fails, times out or is cancelled. *)
ConnectError ==
  /\ connAt = Sent
  /\ connAt' = Idle
  /\ UNCHANGED <<made, cur, sick, gate, slot, timers, pinned, pinAt, subAt,
                 relAt, tearAt, evictAt, vstate, held>>

tear_down_displaced ==
  /\ connAt \in Entries
  /\ drop_entry_watchers(connAt)
  /\ connAt' = Idle
  /\ UNCHANGED <<made, cur, sick, gate, pinned, pinAt, subAt, relAt, tearAt,
                 evictAt, vstate>>

(* The last Arc of an entry that left the map goes away, and its slots     *)
(* with it.  Commands and linger tasks hold one.                           *)
Referenced_ByForwarder(e) ==   \* mutant: the delta forwarder holds its entry
  e = cur \/ slot[e].present

Referenced(e) ==
  \/ e = cur \/ e \in pinAt \/ e \in {tearAt, evictAt, connAt} \/ timers[e] # {}
  \/ \E v \in Views : e \in {subAt[v], relAt[v]}

EntryDrop(e) ==
  /\ e <= made /\ ~Referenced(e) /\ slot[e].present
  /\ slot' = [slot EXCEPT ![e] = Vacant]
  /\ held' = [h \in DOMAIN held |-> IF held[h] = e THEN 0 ELSE held[h]]
  /\ UNCHANGED <<made, cur, sick, gate, timers, pinned, commands, vstate>>

-----------------------------------------------------------------------------
Subscribe(v) == SubscribeResolve(v) \/ SubscribeError(v) \/ subscribe_resource_with_entry(v)
Unsubscribe(v) == UnsubscribeResolve(v) \/ unsubscribe_resource(v)
TearDown == TearDownGate \/ TearDownDrop
Evict == EvictDrop \/ remove_cluster
Replace == insert_connected \/ ConnectError \/ tear_down_displaced

Next ==
  \/ \E v \in Views : \/ Mount(v) \/ Listening(v) \/ UnmountCareful(v) \/ UnmountTable(v)
                      \/ Subscribe(v) \/ Unsubscribe(v)
  \/ \E e \in Entries : PinSubscribe(e) \/ EntryDrop(e)
  \/ \E e \in Entries, t \in 1..MaxTimers : LingerFire(e, t)
  \/ connect_context \/ PinClaim \/ spawn_unhealthy_teardown \/ TearDown
  \/ evict_cluster_entry \/ Evict \/ ConnectFresh \/ Replace

Spec == Init /\ [][Next]_vars

(* Commands run to completion, timers expire and a listener registration   *)
(* resolves; nobody has to mount a view or leave a cluster.                *)
LiveSpec ==
  /\ Spec
  /\ \A v \in Views : WF_vars(Listening(v)) /\ WF_vars(Subscribe(v)) /\ WF_vars(Unsubscribe(v))
  /\ \A e \in Entries : /\ WF_vars(PinSubscribe(e)) /\ WF_vars(EntryDrop(e))
                        /\ \A t \in 1..MaxTimers : WF_vars(LingerFire(e, t))
  /\ WF_vars(TearDown) /\ WF_vars(Evict) /\ WF_vars(Replace)

-----------------------------------------------------------------------------
(* The current entry is in service: connected, not declared unavailable    *)
(* and not emptied by an eviction.                                         *)
InService == cur # 0 /\ ~gate[cur] /\ evictAt # Sent

(* A watcher outlives every view that is subscribed to it: it is only      *)
(* dropped after its last subscriber unmounts and the linger has passed.   *)
SubscriberKeepsWatcher ==
  InService => \A v \in Views : vstate[v] = "on" /\ held[v] = cur => slot[cur].watcher

(* The count of an entry in service is the number of its holders: the      *)
(* views and the pin whose subscribe ran under the lock and whose          *)
(* unsubscribe has not.                                                    *)
RefcountExact ==
  InService => slot[cur].subscribers = Cardinality({h \in DOMAIN held : held[h] = cur})

(* A watcher nobody is subscribed to is on its way out, on every entry: it *)
(* has a linger task that is still alive; and a slot never stays behind    *)
(* without its watcher, which would refuse nobody and serve nobody.        *)
NoZombieWatcher ==
  \A e \in Entries :
    slot[e].present =>
      slot[e].watcher /\ (slot[e].subscribers = 0 => slot[e].handle \in timers[e])

(* The slots are sound, with and without tables: typed, so that no release  *)
(* takes the count below zero, and without zombies on any entry, the ones   *)
(* already evicted included.                                                *)
SlotsAreSound == TypeOK /\ NoZombieWatcher

(* The pin's promise: it keeps the namespaces watcher alive as long as its *)
(* entry is in service (pin_cluster_namespaces).  It does not: App's       *)
(* namespaces effect unsubscribes what it never subscribed and takes the   *)
(* pin's count, and so does any view that subscribed before a reconnect    *)
(* and unsubscribes, by cluster id, after it.                              *)
PinKeepsWatcher == InService /\ held["pin"] = cur => slot[cur].watcher

(* An entry that was torn down as unavailable has no watcher: subscribes   *)
(* are refused instead of starting watchers on the wedged client.          *)
NoWatcherOnWedgedEntry ==
  cur # 0 /\ gate[cur] /\ tearAt = Idle => ~slot[cur].watcher

(* An entry that has left the map gives up its watcher, whatever commands  *)
(* were using it.                                                          *)
EvictedEntryIsReleased ==
  \A e \in Entries : (e <= made /\ e # cur) ~> ~slot[e].present

(* When every view has gone for good, the watcher goes too, also when a    *)
(* view left while its subscribe was under way: only the pin keeps one.    *)
IdleWatcherIsDropped ==
  <>[](\A v \in Views : vstate[v] = "off")
     => <>[](\A e \in Entries : slot[e].watcher => held["pin"] = e)
=============================================================================
