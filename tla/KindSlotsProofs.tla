-------------------------- MODULE KindSlotsProofs --------------------------
(***************************************************************************)
(* KindSlots keeps its types and never leaves a zombie watcher behind, for *)
(* any set of views, careful or not, any number of entries and timers; and *)
(* careful views are counted exactly on the first entry in service.        *)
(***************************************************************************)
EXTENDS KindSlots, FiniteSetTheorems, TLAPS

Slots == [present : BOOLEAN, watcher : BOOLEAN, subscribers : Nat, handle : 0..MaxTimers]

LEMMA VacantIsSlot == Vacant \in Slots
  BY BoundsAssumption DEF Vacant, Slots

LEMMA AbortedIsTimers ==
  ASSUME TypeOK, NEW e \in Entries, NEW T \in Aborted(e)
  PROVE  T \in SUBSET (1..MaxTimers)
  BY DEF Aborted, TypeOK

(* Bump writes a slot with a watcher and at least one subscriber. *)
LEMMA BumpFacts ==
  ASSUME TypeOK, NEW e \in Entries, Bump(e)
  PROVE  /\ slot' \in [Entries -> Slots]
         /\ timers' \in [Entries -> SUBSET (1..MaxTimers)]
         /\ slot'[e].watcher /\ slot'[e].subscribers # 0
         /\ \A f \in Entries \ {e} : slot'[f] = slot[f] /\ timers'[f] = timers[f]
  <1>1. PICK T \in Aborted(e) : timers' = [timers EXCEPT ![e] = T]
    BY DEF Bump
  <1>2. T \in SUBSET (1..MaxTimers)
    BY <1>1, AbortedIsTimers
  <1>3. slot[e].subscribers \in Nat
    BY DEF TypeOK
  <1>4. [present |-> TRUE, watcher |-> TRUE, subscribers |-> Counted(e), handle |-> 0] \in Slots
    BY <1>3, BoundsAssumption DEF Slots, Counted
  <1> QED
    BY <1>1, <1>2, <1>3, <1>4 DEF Bump, TypeOK, Slots, Counted

(* drop_entry_watchers empties the slot of its entry and no other. *)
LEMMA DropFacts ==
  ASSUME TypeOK, NEW e \in Entries, drop_entry_watchers(e)
  PROVE  /\ slot' \in [Entries -> Slots] /\ slot'[e] = Vacant
         /\ timers' \in [Entries -> SUBSET (1..MaxTimers)]
         /\ held' \in [Views \cup {"pin"} -> 0..MaxEntries]
         /\ \A f \in Entries \ {e} : slot'[f] = slot[f] /\ timers'[f] = timers[f]
  <1>1. PICK T \in Aborted(e) : timers' = [timers EXCEPT ![e] = T]
    BY DEF drop_entry_watchers
  <1>2. T \in SUBSET (1..MaxTimers)
    BY <1>1, AbortedIsTimers
  <1>3. held' \in [Views \cup {"pin"} -> 0..MaxEntries]
    BY BoundsAssumption DEF drop_entry_watchers, TypeOK
  <1> QED
    BY <1>1, <1>2, <1>3, VacantIsSlot DEF drop_entry_watchers, Dropped, TypeOK, Slots

(* A view's outcome keeps the types of what it writes. *)
LEMMA OutcomeType ==
  ASSUME TypeOK, NEW v \in Views, NEW ok \in BOOLEAN, Outcome(v, ok)
  PROVE  /\ vstate' \in [Views -> {"off", "listening", "subscribing", "on", "failed", "leaving"}]
         /\ relAt' \in [Views -> Progress]
  BY DEF Outcome, TypeOK, Progress, Sent

(* The entry a command resolves is one that was made. *)
LEMMA ResolveFacts ==
  ASSUME TypeOK, Resolve
  PROVE  made' \in 0..MaxEntries /\ cur' \in 1..made' /\ cur' \in Entries
  BY BoundsAssumption DEF Resolve, TypeOK, Entries

-----------------------------------------------------------------------------
(* Every step that writes no slot and no timers keeps NoZombieWatcher; the *)
(* others change the slot of one entry and leave it served or empty.       *)
LEMMA ZombieFrame ==
  ASSUME NoZombieWatcher, UNCHANGED <<slot, timers>>
  PROVE  NoZombieWatcher'
  BY DEF NoZombieWatcher

LEMMA ZombieOne ==
  ASSUME NoZombieWatcher, NEW e \in Entries,
         \A f \in Entries \ {e} : slot'[f] = slot[f] /\ timers'[f] = timers[f],
         slot'[e].present =>
           slot'[e].watcher /\ (slot'[e].subscribers = 0 => slot'[e].handle \in timers'[e])
  PROVE  NoZombieWatcher'
  BY DEF NoZombieWatcher

-----------------------------------------------------------------------------
(* The inductive invariant: types, and no zombie. *)
IInv == TypeOK /\ NoZombieWatcher

LEMMA InitIInv == Init => IInv
  BY VacantIsSlot, BoundsAssumption
  DEF Init, IInv, TypeOK, NoZombieWatcher, Vacant, Slots, Progress, Idle, Entries

(* The steps of a view and of the commands it sends. *)
LEMMA ViewStep ==
  ASSUME IInv, NEW v \in Views,
         \/ Mount(v) \/ Listening(v) \/ UnmountCareful(v) \/ UnmountTable(v)
         \/ Subscribe(v) \/ Unsubscribe(v)
  PROVE  IInv'
  <1> USE DEF IInv
  <1>1. CASE Mount(v)
    BY <1>1, ZombieFrame DEF Mount, TypeOK, commands
  <1>2. CASE Listening(v)
    BY <1>2, ZombieFrame DEF Listening, TypeOK, Progress
  <1>3. CASE UnmountCareful(v)
    BY <1>3, ZombieFrame DEF UnmountCareful, TypeOK, Progress
  <1>4. CASE UnmountTable(v)
    BY <1>4, ZombieFrame DEF UnmountTable, TypeOK, Progress
  <1>5. CASE SubscribeResolve(v)
    <2>1. NoZombieWatcher'
      BY <1>5, ZombieFrame DEF SubscribeResolve
    <2>2. made' \in 0..MaxEntries /\ cur' \in 1..made' /\ cur' \in Entries
      BY <1>5, ResolveFacts DEF SubscribeResolve
    <2>3. vstate' \in [Views -> {"off", "listening", "subscribing", "on", "failed", "leaving"}]
          /\ relAt' \in [Views -> Progress]
      BY <1>5, OutcomeType DEF SubscribeResolve, TypeOK
    <2>4. subAt' \in [Views -> Progress]
      <3>1. PICK a \in {Idle, cur'} : subAt' = [subAt EXCEPT ![v] = a]
        BY <1>5 DEF SubscribeResolve
      <3>2. a \in Progress
        BY <2>2, <3>1 DEF Progress
      <3>3. subAt \in [Views -> Progress]
        BY DEF TypeOK
      <3> QED
        BY <3>1, <3>2, <3>3
    <2> QED
      BY <1>5, <2>1, <2>2, <2>3, <2>4 DEF SubscribeResolve, TypeOK
  <1>6. CASE SubscribeError(v)
    <2>1. vstate' \in [Views -> {"off", "listening", "subscribing", "on", "failed", "leaving"}]
          /\ relAt' \in [Views -> Progress]
      BY <1>6, OutcomeType DEF SubscribeError
    <2> QED
      BY <1>6, <2>1, ZombieFrame DEF SubscribeError, TypeOK, Progress
  <1>7. CASE subscribe_resource_with_entry(v)
    <2> DEFINE e == subAt[v]
    <2>1. e \in Entries /\ Bump(e)
      BY <1>7 DEF subscribe_resource_with_entry
    <2>2. /\ slot' \in [Entries -> Slots]
          /\ timers' \in [Entries -> SUBSET (1..MaxTimers)]
          /\ slot'[e].watcher /\ slot'[e].subscribers # 0
          /\ \A f \in Entries \ {e} : slot'[f] = slot[f] /\ timers'[f] = timers[f]
      BY <2>1, BumpFacts
    <2>3. NoZombieWatcher'
      BY <2>1, <2>2, ZombieOne
    <2>4. vstate' \in [Views -> {"off", "listening", "subscribing", "on", "failed", "leaving"}]
          /\ relAt' \in [Views -> Progress]
      BY <1>7, OutcomeType DEF subscribe_resource_with_entry
    <2>5. held' \in [Views \cup {"pin"} -> 0..MaxEntries] /\ subAt' \in [Views -> Progress]
      <3>1. held' = [held EXCEPT ![v] = e] /\ subAt' = [subAt EXCEPT ![v] = Idle]
        BY <1>7 DEF subscribe_resource_with_entry
      <3>2. e \in 0..MaxEntries /\ Idle \in Progress
        BY <2>1, BoundsAssumption DEF Entries, Progress
      <3>3. held \in [Views \cup {"pin"} -> 0..MaxEntries] /\ subAt \in [Views -> Progress]
        BY DEF TypeOK
      <3> HIDE DEF e
      <3> QED
        BY <3>1, <3>2, <3>3
    <2> QED
      BY <1>7, <2>2, <2>3, <2>4, <2>5 DEF subscribe_resource_with_entry, TypeOK, Slots
  <1>8. CASE UnsubscribeResolve(v)
    <2>1. cur # 0 => cur \in Entries
      BY BoundsAssumption DEF TypeOK, Entries
    <2>2. relAt' \in [Views -> Progress]
      BY <1>8, <2>1 DEF UnsubscribeResolve, TypeOK, Progress
    <2>3. held' \in [Views \cup {"pin"} -> 0..MaxEntries]
      BY <1>8, BoundsAssumption DEF UnsubscribeResolve, TypeOK
    <2> QED
      BY <1>8, <2>2, <2>3, ZombieFrame DEF UnsubscribeResolve, TypeOK
  <1>9. CASE unsubscribe_resource(v)
    <2> DEFINE e == relAt[v]
               n == saturating_sub(slot[e].subscribers)
    <2>1. e \in Entries /\ slot[e] \in Slots
      BY <1>9 DEF unsubscribe_resource, TypeOK, Slots
    <2>2. n \in Nat
      BY <2>1 DEF saturating_sub, Slots
    <2>3. /\ slot' \in [Entries -> Slots]
          /\ timers' \in [Entries -> SUBSET (1..MaxTimers)] /\ NoZombieWatcher'
      <3>1. CASE ~slot[e].present /\ UNCHANGED <<slot, timers>>
        BY <3>1, ZombieFrame DEF TypeOK, Slots
      <3>2. CASE /\ slot[e].present /\ n # 0
                 /\ slot' = [slot EXCEPT ![e].subscribers = n] /\ UNCHANGED timers
        <4>1. slot' \in [Entries -> Slots]
          BY <2>1, <2>2, <3>2 DEF TypeOK, Slots
        <4>2. NoZombieWatcher'
          BY <2>1, <2>2, <3>2, ZombieOne DEF TypeOK, NoZombieWatcher, Slots
        <4> QED
          BY <3>2, <4>1, <4>2 DEF TypeOK
      <3>3. CASE /\ slot[e].present /\ n = 0
                 /\ \E t \in (1..MaxTimers) \ timers[e], T \in Aborted(e) :
                      /\ slot' = [slot EXCEPT ![e].subscribers = 0, ![e].handle = t]
                      /\ timers' = [timers EXCEPT ![e] = T \cup spawn(t)]
        <4>1. PICK t \in (1..MaxTimers) \ timers[e], T \in Aborted(e) :
                      /\ slot' = [slot EXCEPT ![e].subscribers = 0, ![e].handle = t]
                      /\ timers' = [timers EXCEPT ![e] = T \cup spawn(t)]
          BY <3>3
        <4>2. T \in SUBSET (1..MaxTimers)
          BY <2>1, AbortedIsTimers
        <4>3. timers' \in [Entries -> SUBSET (1..MaxTimers)]
          BY <2>1, <4>1, <4>2 DEF TypeOK, spawn
        <4>4. slot' \in [Entries -> Slots]
          BY <2>1, <4>1, BoundsAssumption DEF TypeOK, Slots
        <4>5. slot'[e].watcher /\ slot'[e].handle \in timers'[e]
          BY <2>1, <3>3, <4>1 DEF TypeOK, NoZombieWatcher, Slots, spawn
        <4>6. \A f \in Entries \ {e} : slot'[f] = slot[f] /\ timers'[f] = timers[f]
          BY <4>1 DEF TypeOK
        <4> QED
          BY <2>1, <4>3, <4>4, <4>5, <4>6, ZombieOne
      <3> QED
        BY <1>9, <3>1, <3>2, <3>3 DEF unsubscribe_resource
    <2>4. held' \in [Views \cup {"pin"} -> 0..MaxEntries] /\ relAt' \in [Views -> Progress]
      <3>1. held' = [held EXCEPT ![v] = 0] /\ relAt' = [relAt EXCEPT ![v] = Idle]
        BY <1>9, Zenon DEF unsubscribe_resource
      <3> QED
        BY <3>1, BoundsAssumption DEF TypeOK, Progress
    <2> QED
      BY <1>9, <2>3, <2>4 DEF unsubscribe_resource, TypeOK, Slots
  <1> QED
    BY <1>1, <1>2, <1>3, <1>4, <1>5, <1>6, <1>7, <1>8, <1>9 DEF Subscribe, Unsubscribe

(* The steps of the pin, of a linger task and of an entry's last Arc. *)
LEMMA EntryStep ==
  ASSUME IInv, NEW e \in Entries,
         \/ PinSubscribe(e) \/ EntryDrop(e)
         \/ \E t \in 1..MaxTimers : LingerFire(e, t)
  PROVE  IInv'
  <1> USE DEF IInv
  <1>1. CASE PinSubscribe(e)
    <2>1. /\ slot' \in [Entries -> Slots]
          /\ timers' \in [Entries -> SUBSET (1..MaxTimers)]
          /\ slot'[e].watcher /\ slot'[e].subscribers # 0
          /\ \A f \in Entries \ {e} : slot'[f] = slot[f] /\ timers'[f] = timers[f]
      BY <1>1, BumpFacts DEF PinSubscribe
    <2>2. NoZombieWatcher'
      BY <2>1, ZombieOne
    <2>3. held' \in [Views \cup {"pin"} -> 0..MaxEntries]
      BY <1>1, BoundsAssumption DEF PinSubscribe, TypeOK, Entries
    <2> QED
      BY <1>1, <2>1, <2>2, <2>3 DEF PinSubscribe, TypeOK, Slots
  <1>2. CASE EntryDrop(e)
    <2>1. slot' \in [Entries -> Slots]
      BY <1>2, VacantIsSlot DEF EntryDrop, TypeOK, Slots
    <2>2. NoZombieWatcher'
      BY <1>2, ZombieOne DEF EntryDrop, TypeOK, Vacant
    <2>3. held' \in [Views \cup {"pin"} -> 0..MaxEntries]
      BY <1>2, BoundsAssumption DEF EntryDrop, TypeOK
    <2> QED
      BY <1>2, <2>1, <2>2, <2>3 DEF EntryDrop, TypeOK, Slots, commands
  <1>3. ASSUME NEW t \in 1..MaxTimers, LingerFire(e, t)
        PROVE  IInv'
    <2>1. slot' \in [Entries -> Slots]
      BY <1>3, VacantIsSlot DEF LingerFire, TypeOK, Slots
    <2>2. timers' \in [Entries -> SUBSET (1..MaxTimers)]
      BY <1>3 DEF LingerFire, TypeOK
    <2>3. \A f \in Entries \ {e} : slot'[f] = slot[f] /\ timers'[f] = timers[f]
      BY <1>3 DEF LingerFire, TypeOK
    <2>4. CASE LingerMayDrop(e)
      BY <1>3, <2>3, <2>4, ZombieOne, <2>1, <2>2 DEF LingerFire, TypeOK, Vacant, Slots, commands
    <2>5. CASE ~LingerMayDrop(e)
      <3>1. slot'[e] = slot[e] /\ (slot[e].present => slot[e].subscribers # 0)
        BY <1>3, <2>5 DEF LingerFire, LingerMayDrop
      <3>2. NoZombieWatcher'
        BY <2>3, <3>1, ZombieOne DEF NoZombieWatcher
      <3> QED
        BY <1>3, <2>1, <2>2, <3>2 DEF LingerFire, TypeOK, Slots, commands
    <2> QED
      BY <2>4, <2>5
  <1> QED
    BY <1>1, <1>2, <1>3

(* The steps of connects, teardowns and evictions. *)
LEMMA ClusterStep ==
  ASSUME IInv,
         \/ connect_context \/ PinClaim \/ spawn_unhealthy_teardown \/ TearDown
         \/ evict_cluster_entry \/ Evict \/ ConnectFresh \/ Replace
  PROVE  IInv'
  <1> USE DEF IInv
  <1>0. cur # 0 => cur \in Entries
    BY BoundsAssumption DEF TypeOK, Entries
  <1>1. CASE connect_context
    <2>1. made' \in 0..MaxEntries /\ cur' \in 0..made'
      BY <1>1, ResolveFacts, BoundsAssumption DEF connect_context
    <2> QED
      BY <1>1, <2>1, ZombieFrame DEF connect_context, TypeOK, commands
  <1>2. CASE PinClaim
    BY <1>0, <1>2, ZombieFrame DEF PinClaim, TypeOK
  <1>3. CASE spawn_unhealthy_teardown
    BY <1>0, <1>3, ZombieFrame DEF spawn_unhealthy_teardown, TypeOK, Progress
  <1>4. CASE TearDownGate
    BY <1>0, <1>4, ZombieFrame DEF TearDownGate, TypeOK, Progress
  <1>5. CASE TearDownDrop
    <2>1. CASE cur # 0 /\ drop_entry_watchers(cur)
      <3>1. /\ slot' \in [Entries -> Slots] /\ slot'[cur] = Vacant
            /\ timers' \in [Entries -> SUBSET (1..MaxTimers)]
            /\ held' \in [Views \cup {"pin"} -> 0..MaxEntries]
            /\ \A f \in Entries \ {cur} : slot'[f] = slot[f] /\ timers'[f] = timers[f]
        BY <1>0, <2>1, DropFacts
      <3>2. NoZombieWatcher'
        BY <1>0, <2>1, <3>1, ZombieOne DEF Vacant
      <3> QED
        BY <1>5, <3>1, <3>2 DEF TearDownDrop, TypeOK, Slots, Progress
    <2>2. CASE UNCHANGED <<slot, timers, held>>
      BY <1>5, <2>2, ZombieFrame DEF TearDownDrop, TypeOK, Progress
    <2> QED
      BY <1>5, <2>1, <2>2 DEF TearDownDrop
  <1>6. CASE evict_cluster_entry
    BY <1>0, <1>6, ZombieFrame DEF evict_cluster_entry, TypeOK, Progress
  <1>7. CASE EvictDrop
    <2>1. /\ slot' \in [Entries -> Slots] /\ slot'[evictAt] = Vacant
          /\ timers' \in [Entries -> SUBSET (1..MaxTimers)]
          /\ held' \in [Views \cup {"pin"} -> 0..MaxEntries]
          /\ \A f \in Entries \ {evictAt} : slot'[f] = slot[f] /\ timers'[f] = timers[f]
      BY <1>7, DropFacts DEF EvictDrop
    <2>2. NoZombieWatcher'
      BY <1>7, <2>1, ZombieOne DEF EvictDrop, Vacant
    <2> QED
      BY <1>7, <2>1, <2>2 DEF EvictDrop, TypeOK, Slots, Progress
  <1>8. CASE remove_cluster
    BY <1>8, ZombieFrame DEF remove_cluster, TypeOK, Progress
  <1>9. CASE ConnectFresh
    BY <1>9, ZombieFrame DEF ConnectFresh, TypeOK, Progress
  <1>10. CASE insert_connected
    <2>1. NoZombieWatcher'
      BY <1>10, ZombieFrame DEF insert_connected
    <2>2. made' \in 0..MaxEntries /\ cur' \in 0..made'
      BY <1>10, BoundsAssumption DEF insert_connected, TypeOK
    <2>3. connAt' \in Progress
      BY <1>0, <1>10 DEF insert_connected, TypeOK, Progress
    <2> QED
      BY <1>10, <2>1, <2>2, <2>3 DEF insert_connected, TypeOK
  <1>11. CASE ConnectError
    BY <1>11, ZombieFrame DEF ConnectError, TypeOK, Progress
  <1>12. CASE tear_down_displaced
    <2>1. /\ slot' \in [Entries -> Slots] /\ slot'[connAt] = Vacant
          /\ timers' \in [Entries -> SUBSET (1..MaxTimers)]
          /\ held' \in [Views \cup {"pin"} -> 0..MaxEntries]
          /\ \A f \in Entries \ {connAt} : slot'[f] = slot[f] /\ timers'[f] = timers[f]
      BY <1>12, DropFacts DEF tear_down_displaced
    <2>2. NoZombieWatcher'
      BY <1>12, <2>1, ZombieOne DEF tear_down_displaced, Vacant
    <2> QED
      BY <1>12, <2>1, <2>2 DEF tear_down_displaced, TypeOK, Slots, Progress
  <1> QED
    BY <1>1, <1>2, <1>3, <1>4, <1>5, <1>6, <1>7, <1>8, <1>9, <1>10, <1>11, <1>12
    DEF TearDown, Evict, Replace

LEMMA NextIInv == IInv /\ [Next]_vars => IInv'
  <1> SUFFICES ASSUME IInv, [Next]_vars PROVE IInv'
    OBVIOUS
  <1>1. CASE UNCHANGED vars
    BY <1>1 DEF vars, commands, IInv, TypeOK, NoZombieWatcher
  <1>2. CASE Next
    BY <1>2, ViewStep, EntryStep, ClusterStep DEF Next
  <1> QED
    BY <1>1, <1>2

-----------------------------------------------------------------------------
(* The slots, timers and commands of every entry keep their types; a       *)
(* subscriber count is never negative, however many unsubscribes arrive.   *)
THEOREM SlotsTypeCorrect == Spec => []TypeOK
  BY InitIInv, NextIInv, PTL DEF Spec, IInv

(* A slot always has its watcher, and one whose last subscriber left has a *)
(* live linger task (unsubscribe_resource, subscribe_resource_with_entry,  *)
(* drop_entry_watchers), on every entry and whatever the views do.         *)
THEOREM NoZombies == Spec => []NoZombieWatcher
  BY InitIInv, NextIInv, PTL DEF Spec, IInv

(* Both together, on any number of entries: what the runs check of one or  *)
(* two of them (commands.rs, the kinds map under its lock).                *)
THEOREM SlotsSound == Spec => []SlotsAreSound
  BY InitIInv, NextIInv, PTL DEF Spec, IInv, SlotsAreSound

-----------------------------------------------------------------------------
(* The count.  Views without tables, and the first entry: a release names  *)
(* its slot and not its entry, so from the second entry on it may hit one  *)
(* it did not subscribe to, and so may the second release of a table.      *)

(* The protocol of a careful view. *)
Mannered ==
  \A v \in Views :
    /\ subAt[v] # Idle <=> vstate[v] \in {"subscribing", "leaving"}
    /\ relAt[v] # Idle => vstate[v] = "off"

(* Commands resolved entries that exist; a teardown has gated its own, and *)
(* only a second entry displaces the first.                                *)
Resolved ==
  /\ \A v \in Views : subAt[v] <= made /\ relAt[v] <= made
  /\ tearAt <= made /\ evictAt <= made /\ (connAt \in Entries => made >= 2)
  /\ tearAt \in Entries => gate[tearAt]

(* A slot that is not in the map counts nobody. *)
AbsentCountsNobody == \A e \in Entries : ~slot[e].present => slot[e].subscribers = 0

(* The pin is claimed once, and counted once. *)
PinnedOnce ==
  /\ \A e \in pinAt : e <= made /\ pinned[e] /\ held["pin"] # e
  /\ \A e \in Entries : held["pin"] = e => pinned[e]

(* The first entry has not been emptied. *)
Fresh == made = 0 \/ (made = 1 /\ InService)

Holders(e) == {h \in DOMAIN held : held[h] = e}

Exact ==
  /\ IsFiniteSet(Holders(1)) /\ slot[1].subscribers = Cardinality(Holders(1))
  /\ \A v \in Views : held[v] = 1 <=> vstate[v] = "on" \/ relAt[v] # Idle
  /\ made = 0 => Holders(1) = {}

CountInv == Mannered /\ Resolved /\ AbsentCountsNobody /\ PinnedOnce /\ (Fresh => Exact)

(* The steps that change neither a count nor what a view has taken. *)
Unrelated ==
  \/ connect_context \/ PinClaim \/ spawn_unhealthy_teardown \/ TearDownGate
  \/ evict_cluster_entry \/ remove_cluster \/ ConnectFresh \/ insert_connected \/ ConnectError
  \/ UNCHANGED vars

LEMMA UnsubscribeFacts ==
  ASSUME NEW v \in Views, unsubscribe_resource(v)
  PROVE  /\ relAt[v] \in Entries
         /\ relAt' = [relAt EXCEPT ![v] = Idle] /\ held' = [held EXCEPT ![v] = 0]
         /\ UNCHANGED <<made, cur, sick, gate, pinned, pinAt, subAt, tearAt, evictAt, connAt, vstate>>
<1>1. relAt[v] \in Entries /\ relAt' = [relAt EXCEPT ![v] = Idle]
  BY Zenon DEF unsubscribe_resource
<1>2. held' = [held EXCEPT ![v] = 0]
  BY Zenon DEF unsubscribe_resource
<1>3. UNCHANGED <<made, cur, sick, gate, pinned, pinAt, subAt, tearAt, evictAt, connAt, vstate>>
  BY DEF unsubscribe_resource
<1> QED
  BY <1>1, <1>2, <1>3

LEMMA MannerInit == Init => CountInv
<1> SUFFICES ASSUME Init PROVE CountInv
  OBVIOUS
<1>1. Mannered
  BY DEF Init, Mannered, Idle
<1>2. Resolved /\ AbsentCountsNobody /\ PinnedOnce
  BY BoundsAssumption DEF Init, Resolved, AbsentCountsNobody, PinnedOnce, Idle, Entries, Vacant
<1>3. Holders(1) = {}
  BY DEF Init, Holders
<1>4. slot[1].subscribers = 0 /\ \A v \in Views : held[v] # 1 /\ vstate[v] # "on" /\ relAt[v] = Idle
  BY BoundsAssumption DEF Init, Entries, Vacant
<1> QED
  BY <1>1, <1>2, <1>3, <1>4, FS_EmptySet DEF CountInv, Exact

LEMMA MannerStep ==
  ASSUME Tables = {}, TypeOK, Mannered, [Next]_vars
  PROVE  Mannered'
<1> USE DEF Mannered
<1>1. ASSUME NEW v \in Views, Mount(v) \/ Listening(v) \/ UnmountCareful(v)
      PROVE  Mannered'
  BY <1>1 DEF Mount, Listening, UnmountCareful, commands, TypeOK, Idle, Sent
<1>2. ASSUME NEW v \in Views, NEW ok \in BOOLEAN, Outcome(v, ok),
             subAt[v] # Idle, subAt' = [subAt EXCEPT ![v] = Idle]
      PROVE  Mannered'
  BY <1>2 DEF Outcome, TypeOK, Idle, Sent
<1>3. ASSUME NEW v \in Views, SubscribeResolve(v) PROVE Mannered'
  <2>1. CASE gate[cur']
    <3>1. Outcome(v, FALSE) /\ subAt' = [subAt EXCEPT ![v] = Idle]
      BY <1>3, <2>1, Zenon DEF SubscribeResolve
    <3>2. subAt[v] # Idle
      BY <1>3 DEF SubscribeResolve, Idle, Sent
    <3> QED
      BY <1>2, <3>1, <3>2
  <2>2. CASE ~gate[cur']
    <3>1. cur' \in Entries
      BY <1>3, ResolveFacts DEF SubscribeResolve
    <3> QED
      BY <1>3, <2>2, <3>1 DEF SubscribeResolve, TypeOK, Idle, Sent, Entries
  <2> QED
    BY <2>1, <2>2
<1>4. ASSUME NEW v \in Views, SubscribeError(v) \/ subscribe_resource_with_entry(v)
      PROVE  Mannered'
  <2>1. subAt[v] = Sent \/ subAt[v] \in Entries
    BY <1>4, Zenon DEF SubscribeError, subscribe_resource_with_entry
  <2>2. subAt[v] # Idle
    BY <2>1 DEF Idle, Sent, Entries
  <2>3. subAt' = [subAt EXCEPT ![v] = Idle] /\ (Outcome(v, FALSE) \/ Outcome(v, TRUE))
    BY <1>4, Zenon DEF SubscribeError, subscribe_resource_with_entry
  <2> QED
    BY <1>2, <2>2, <2>3
<1>5. ASSUME NEW v \in Views, UnsubscribeResolve(v) \/ unsubscribe_resource(v) PROVE Mannered'
  <2>1. /\ UNCHANGED <<vstate, subAt>> /\ relAt[v] # Idle
        /\ \A w \in Views \ {v} : relAt'[w] = relAt[w]
    <3>1. CASE UnsubscribeResolve(v)
      BY <3>1 DEF UnsubscribeResolve, Idle, Sent, TypeOK
    <3>2. CASE unsubscribe_resource(v)
      BY <3>2, UnsubscribeFacts DEF Idle, Entries, TypeOK
    <3> QED
      BY <1>5, <3>1, <3>2
  <2> QED
    BY <2>1
<1>6. CASE UNCHANGED <<vstate, subAt, relAt>>
  BY <1>6
<1>7. ASSUME NEW e \in Entries, PinSubscribe(e) \/ EntryDrop(e)
      PROVE  UNCHANGED <<vstate, subAt, relAt>>
  BY <1>7 DEF PinSubscribe, EntryDrop, commands
<1>8. ASSUME NEW e \in Entries, NEW t \in 1..MaxTimers, LingerFire(e, t)
      PROVE  UNCHANGED <<vstate, subAt, relAt>>
  BY <1>8 DEF LingerFire, commands
<1>9. TearDownDrop \/ EvictDrop \/ tear_down_displaced => UNCHANGED <<vstate, subAt, relAt>>
  BY DEF TearDownDrop, EvictDrop, tear_down_displaced
<1>10. Unrelated => UNCHANGED <<vstate, subAt, relAt>>
  BY DEF Unrelated, connect_context, PinClaim, spawn_unhealthy_teardown, TearDownGate,
     evict_cluster_entry, remove_cluster, ConnectFresh, insert_connected, ConnectError, commands, vars
<1>11. \A v \in Views : ~UnmountTable(v)
  BY DEF UnmountTable
<1> QED
  BY <1>1, <1>3, <1>4, <1>5, <1>6, <1>7, <1>8, <1>9, <1>10, <1>11
  DEF Next, Subscribe, Unsubscribe, TearDown, Evict, Replace, Unrelated

(* What a step may do to a command: start it, resolve it to the entry in   *)
(* the map, or end it.                                                     *)
LEMMA ResolvedStep ==
  ASSUME TypeOK, Resolved, [Next]_vars
  PROVE  Resolved'
<1> USE DEF Resolved
<1>0. made \in Nat /\ cur \in 0..made /\ Idle \in Int /\ Idle <= 0 /\ Sent = 0 /\ Idle \notin Entries /\ Sent \notin Entries
  BY BoundsAssumption DEF TypeOK, Idle, Sent, Entries
<1>1. ASSUME UNCHANGED <<made, gate, tearAt, evictAt, connAt>>,
             \A v \in Views : subAt'[v] = subAt[v] \/ subAt'[v] <= made,
             \A v \in Views : relAt'[v] = relAt[v] \/ relAt'[v] <= made
      PROVE  Resolved'
  BY <1>1
<1>2. ASSUME NEW v \in Views, Mount(v) \/ Listening(v) \/ UnmountCareful(v) \/ UnmountTable(v)
      PROVE  Resolved'
  <2>1. UNCHANGED <<made, gate, tearAt, evictAt, connAt>>
    BY <1>2 DEF Mount, Listening, UnmountCareful, UnmountTable, commands
  <2>2. \A w \in Views : subAt'[w] = subAt[w] \/ subAt'[w] = Sent
    BY <1>2 DEF Mount, Listening, UnmountCareful, UnmountTable, commands, TypeOK
  <2>3. \A w \in Views : relAt'[w] = relAt[w] \/ relAt'[w] = Sent
    BY <1>2 DEF Mount, Listening, UnmountCareful, UnmountTable, commands, TypeOK
  <2> QED
    BY <1>0, <1>1, <2>1, <2>2, <2>3
<1>3. ASSUME NEW v \in Views, NEW ok \in BOOLEAN, Outcome(v, ok)
      PROVE  \A w \in Views : relAt'[w] = relAt[w] \/ relAt'[w] = Sent
  BY <1>3 DEF Outcome, TypeOK
<1>4. ASSUME NEW v \in Views, SubscribeResolve(v) PROVE Resolved'
  <2>1. made' >= made /\ cur' \in 1..made' /\ made' \in Nat
    BY <1>0, <1>4, ResolveFacts DEF SubscribeResolve, Resolve
  <2>2. \A w \in Views : subAt'[w] = subAt[w] \/ subAt'[w] = Idle \/ subAt'[w] = cur'
    BY <1>4 DEF SubscribeResolve, TypeOK
  <2>3. \A w \in Views : relAt'[w] = relAt[w] \/ relAt'[w] = Sent
    BY <1>3, <1>4 DEF SubscribeResolve
  <2>4. UNCHANGED <<gate, tearAt, evictAt, connAt>>
    BY <1>4 DEF SubscribeResolve
  <2>5. \A w \in Views : subAt[w] \in Int /\ relAt[w] \in Int
    BY <1>0 DEF TypeOK, Progress, Entries, Sent
  <2>6. tearAt \in Int /\ evictAt \in Int
    BY <1>0 DEF TypeOK, Progress, Entries, Sent
  <2> QED
    BY <1>0, <2>1, <2>2, <2>3, <2>4, <2>5, <2>6
<1>5. ASSUME NEW v \in Views, SubscribeError(v) \/ subscribe_resource_with_entry(v)
      PROVE  Resolved'
  <2>1. \A w \in Views : subAt'[w] = subAt[w] \/ subAt'[w] = Idle
    BY <1>5 DEF SubscribeError, subscribe_resource_with_entry, TypeOK
  <2>2. \A w \in Views : relAt'[w] = relAt[w] \/ relAt'[w] = Sent
    BY <1>3, <1>5 DEF SubscribeError, subscribe_resource_with_entry
  <2>3. UNCHANGED <<made, gate, tearAt, evictAt, connAt>>
    BY <1>5 DEF SubscribeError, subscribe_resource_with_entry
  <2> QED
    BY <1>0, <1>1, <2>1, <2>2, <2>3
<1>6. ASSUME NEW v \in Views, UnsubscribeResolve(v) \/ unsubscribe_resource(v) PROVE Resolved'
  <2>1. /\ UNCHANGED <<made, gate, tearAt, evictAt, connAt, subAt>>
        /\ \A w \in Views : relAt'[w] = relAt[w] \/ relAt'[w] = Idle \/ relAt'[w] = cur
    <3>1. CASE UnsubscribeResolve(v)
      BY <3>1 DEF UnsubscribeResolve, TypeOK
    <3>2. CASE unsubscribe_resource(v)
      BY <3>2, UnsubscribeFacts DEF TypeOK
    <3> QED
      BY <1>6, <3>1, <3>2
  <2> QED
    BY <1>0, <1>1, <2>1
<1>7. ASSUME UNCHANGED <<made, gate, tearAt, evictAt, connAt, subAt, relAt>>
      PROVE  Resolved'
  BY <1>7
<1>8. ASSUME NEW e \in Entries, PinSubscribe(e) \/ EntryDrop(e) \/ \E t \in 1..MaxTimers : LingerFire(e, t)
      PROVE  Resolved'
  BY <1>7, <1>8 DEF PinSubscribe, EntryDrop, LingerFire, commands
<1>9. CASE TearDown \/ spawn_unhealthy_teardown
  <2>1. UNCHANGED <<made, evictAt, connAt, subAt, relAt>>
    BY <1>9 DEF TearDown, TearDownGate, TearDownDrop, spawn_unhealthy_teardown
  <2>2. tearAt' = Idle \/ tearAt' = Sent \/ (cur # 0 /\ tearAt' = cur /\ gate' = [gate EXCEPT ![cur] = TRUE])
    BY <1>9 DEF TearDown, TearDownGate, TearDownDrop, spawn_unhealthy_teardown
  <2>3. cur # 0 => cur \in Entries
    BY BoundsAssumption DEF TypeOK, Entries
  <2> QED
    BY <1>0, <2>1, <2>2, <2>3 DEF TypeOK
<1>10. CASE evict_cluster_entry \/ Evict
  <2>1. UNCHANGED <<made, gate, tearAt, connAt, subAt, relAt>>
    BY <1>10 DEF evict_cluster_entry, Evict, EvictDrop, remove_cluster
  <2>2. evictAt' = Idle \/ evictAt' = Sent \/ evictAt' = cur
    BY <1>10 DEF evict_cluster_entry, Evict, EvictDrop, remove_cluster
  <2> QED
    BY <1>0, <2>1, <2>2
<1>11. CASE ConnectFresh \/ ConnectError \/ tear_down_displaced
  <2>1. UNCHANGED <<made, gate, tearAt, evictAt, subAt, relAt>> /\ (connAt' = Sent \/ connAt' = Idle)
    BY <1>11 DEF ConnectFresh, ConnectError, tear_down_displaced
  <2> QED
    BY <1>0, <2>1
<1>12. CASE insert_connected \/ connect_context
  <2>1. UNCHANGED <<gate, tearAt, evictAt, subAt, relAt>>
    BY <1>12 DEF insert_connected, connect_context, commands
  <2>2. made' \in Nat /\ made' >= made
    BY <1>0, <1>12 DEF insert_connected, connect_context, Resolve
  <2>3. connAt' \in Entries => made' >= 2
    <3>1. CASE insert_connected
      BY <1>0, <3>1 DEF insert_connected
    <3>2. CASE connect_context
      BY <1>0, <2>2, <3>2 DEF connect_context, commands
    <3> QED
      BY <1>12, <3>1, <3>2
  <2>5. \A w \in Views : subAt[w] \in Int /\ relAt[w] \in Int
    BY <1>0 DEF TypeOK, Progress, Entries, Sent
  <2>6. tearAt \in Int /\ evictAt \in Int
    BY <1>0 DEF TypeOK, Progress, Entries, Sent
  <2> QED
    BY <1>0, <2>1, <2>2, <2>3, <2>5, <2>6
<1>13. CASE PinClaim \/ UNCHANGED vars
  BY <1>7, <1>13 DEF PinClaim, vars, commands
<1> QED
  BY <1>2, <1>4, <1>5, <1>6, <1>8, <1>9, <1>10, <1>11, <1>12, <1>13
  DEF Next, Subscribe, Unsubscribe, Replace

(* unsubscribe_resource takes one from the count of a slot that is there. *)
LEMMA UnsubscribeCount ==
  ASSUME TypeOK, NEW v \in Views, unsubscribe_resource(v)
  PROVE  /\ \A f \in Entries \ {relAt[v]} : slot'[f] = slot[f]
         /\ slot'[relAt[v]].present = slot[relAt[v]].present
         /\ slot[relAt[v]].present =>
              slot'[relAt[v]].subscribers = saturating_sub(slot[relAt[v]].subscribers)
         /\ ~slot[relAt[v]].present => slot'[relAt[v]] = slot[relAt[v]]
<1> DEFINE e == relAt[v]
           n == saturating_sub(slot[e].subscribers)
<1>1. e \in Entries /\ slot[e] \in Slots /\ slot \in [Entries -> Slots]
  BY UnsubscribeFacts DEF TypeOK, Slots
<1>2. \/ ~slot[e].present /\ slot' = slot
      \/ slot[e].present /\ slot' = [slot EXCEPT ![e].subscribers = n]
      \/ /\ slot[e].present /\ n = 0
         /\ \E t \in 1..MaxTimers : slot' = [slot EXCEPT ![e].subscribers = 0, ![e].handle = t]
  BY DEF unsubscribe_resource
<1>3. n \in Nat
  BY <1>1 DEF saturating_sub, Slots
<1> HIDE DEF n
<1>4. CASE slot' = slot /\ ~slot[e].present
  BY <1>4
<1>5. CASE slot[e].present /\ slot' = [slot EXCEPT ![e].subscribers = n]
  <2>1. slot'[e] = [slot[e] EXCEPT !.subscribers = n]
        /\ \A f \in Entries \ {e} : slot'[f] = slot[f]
    BY <1>1, <1>5
  <2>2. slot'[e].present = slot[e].present /\ slot'[e].subscribers = n
    BY <1>1, <2>1 DEF Slots
  <2> QED
    BY <1>5, <2>1, <2>2 DEF n
<1>6. ASSUME slot[e].present, n = 0, NEW t \in 1..MaxTimers,
             slot' = [slot EXCEPT ![e].subscribers = 0, ![e].handle = t]
      PROVE  /\ slot'[e].present = slot[e].present /\ slot'[e].subscribers = n
             /\ \A f \in Entries \ {e} : slot'[f] = slot[f]
  BY <1>1, <1>6 DEF Slots
<1>7. CASE /\ slot[e].present /\ n = 0
           /\ \E t \in 1..MaxTimers : slot' = [slot EXCEPT ![e].subscribers = 0, ![e].handle = t]
  BY <1>6, <1>7 DEF n
<1> QED
  BY <1>2, <1>4, <1>5, <1>7

LEMMA AbsentStep ==
  ASSUME TypeOK, AbsentCountsNobody, [Next]_vars
  PROVE  AbsentCountsNobody'
<1> USE DEF AbsentCountsNobody
<1>1. ASSUME NEW e \in Entries, \A f \in Entries \ {e} : slot'[f] = slot[f],
             slot'[e].present \/ slot'[e] = Vacant \/ slot'[e] = slot[e]
      PROVE  AbsentCountsNobody'
  BY <1>1 DEF Vacant
<1>2. CASE UNCHANGED slot
  BY <1>2
<1>3. ASSUME NEW e \in Entries, Bump(e) PROVE AbsentCountsNobody'
  BY <1>1, <1>3 DEF Bump, TypeOK
<1>4. ASSUME NEW e \in Entries, drop_entry_watchers(e) PROVE AbsentCountsNobody'
  BY <1>1, <1>4, DropFacts
<1>5. ASSUME NEW v \in Views, subscribe_resource_with_entry(v) PROVE AbsentCountsNobody'
  BY <1>3, <1>5 DEF subscribe_resource_with_entry
<1>6. ASSUME NEW v \in Views, unsubscribe_resource(v) PROVE AbsentCountsNobody'
  BY <1>1, <1>6, UnsubscribeCount, UnsubscribeFacts
<1>7. ASSUME NEW e \in Entries, PinSubscribe(e) PROVE AbsentCountsNobody'
  BY <1>3, <1>7 DEF PinSubscribe
<1>8. ASSUME NEW e \in Entries, EntryDrop(e) \/ \E t \in 1..MaxTimers : LingerFire(e, t)
      PROVE  AbsentCountsNobody'
  BY <1>1, <1>8 DEF EntryDrop, LingerFire, TypeOK
<1>9. CASE TearDownDrop
  <2>1. cur # 0 => cur \in Entries
    BY BoundsAssumption DEF TypeOK, Entries
  <2> QED
    BY <1>2, <1>4, <1>9, <2>1 DEF TearDownDrop
<1>10. CASE EvictDrop \/ tear_down_displaced
  BY <1>4, <1>10 DEF EvictDrop, tear_down_displaced
<1>11. ASSUME NEW v \in Views,
              \/ Mount(v) \/ Listening(v) \/ UnmountCareful(v) \/ UnmountTable(v)
              \/ SubscribeResolve(v) \/ SubscribeError(v) \/ UnsubscribeResolve(v)
       PROVE  UNCHANGED slot
  BY <1>11 DEF Mount, Listening, UnmountCareful, UnmountTable, SubscribeResolve, SubscribeError,
     UnsubscribeResolve
<1>12. Unrelated => UNCHANGED slot
  BY DEF Unrelated, connect_context, PinClaim, spawn_unhealthy_teardown, TearDownGate,
     evict_cluster_entry, remove_cluster, ConnectFresh, insert_connected, ConnectError, vars
<1> QED
  BY <1>2, <1>5, <1>6, <1>7, <1>8, <1>9, <1>10, <1>11, <1>12
  DEF Next, Subscribe, Unsubscribe, TearDown, Evict, Replace, Unrelated

LEMMA PinnedStep ==
  ASSUME TypeOK, PinnedOnce, [Next]_vars
  PROVE  PinnedOnce'
<1> USE DEF PinnedOnce
<1>0. 0 \notin Entries /\ made \in Nat /\ Entries \subseteq Nat /\ pinAt \subseteq Entries
  BY DEF TypeOK, Entries
<1>1. ASSUME UNCHANGED <<pinAt, pinned>>, made' \in Nat, made' >= made,
             held'["pin"] = held["pin"] \/ held'["pin"] = 0
      PROVE  PinnedOnce'
  BY <1>0, <1>1
<1>2. ASSUME NEW e \in Entries, drop_entry_watchers(e)
      PROVE  held'["pin"] = held["pin"] \/ held'["pin"] = 0
  BY <1>2 DEF drop_entry_watchers, TypeOK
<1>3. ASSUME NEW v \in Views,
             \/ Mount(v) \/ Listening(v) \/ UnmountCareful(v) \/ UnmountTable(v)
             \/ SubscribeError(v)
      PROVE  PinnedOnce'
  BY <1>0, <1>1, <1>3 DEF Mount, Listening, UnmountCareful, UnmountTable, SubscribeError, commands
<1>4. ASSUME NEW v \in Views, SubscribeResolve(v) PROVE PinnedOnce'
  <2>1. made' \in Nat /\ made' >= made
    BY <1>0, <1>4 DEF SubscribeResolve, Resolve
  <2> QED
    BY <1>1, <1>4, <2>1 DEF SubscribeResolve
<1>5. ASSUME NEW v \in Views, NEW x, held' = [held EXCEPT ![v] = x]
      PROVE  held'["pin"] = held["pin"]
  BY <1>5, ViewsAssumption DEF TypeOK
<1>6. ASSUME NEW v \in Views, subscribe_resource_with_entry(v) PROVE PinnedOnce'
  BY <1>0, <1>1, <1>5, <1>6 DEF subscribe_resource_with_entry
<1>7. ASSUME NEW v \in Views, UnsubscribeResolve(v) PROVE PinnedOnce'
  BY <1>0, <1>1, <1>5, <1>7 DEF UnsubscribeResolve
<1>8. ASSUME NEW v \in Views, unsubscribe_resource(v) PROVE PinnedOnce'
  BY <1>0, <1>1, <1>5, <1>8, UnsubscribeFacts
<1>9. ASSUME NEW e \in Entries, PinSubscribe(e) PROVE PinnedOnce'
  BY <1>0, <1>9 DEF PinSubscribe, TypeOK
<1>10. ASSUME NEW e \in Entries, EntryDrop(e) \/ \E t \in 1..MaxTimers : LingerFire(e, t)
      PROVE  PinnedOnce'
  <2>1. UNCHANGED <<pinAt, pinned, made>>
    BY <1>10 DEF EntryDrop, LingerFire, commands
  <2>2. held'["pin"] = held["pin"] \/ held'["pin"] = 0
    BY <1>10 DEF EntryDrop, LingerFire, TypeOK
  <2> QED
    BY <1>0, <1>1, <2>1, <2>2
<1>11. CASE TearDownDrop \/ EvictDrop \/ tear_down_displaced
  <2>1. cur # 0 => cur \in Entries
    BY BoundsAssumption DEF TypeOK, Entries
  <2>2. held'["pin"] = held["pin"] \/ held'["pin"] = 0
    BY <1>2, <1>11, <2>1 DEF TearDownDrop, EvictDrop, tear_down_displaced
  <2>3. UNCHANGED <<pinAt, pinned, made>>
    BY <1>11 DEF TearDownDrop, EvictDrop, tear_down_displaced
  <2> QED
    BY <1>0, <1>1, <2>2, <2>3
<1>12. CASE PinClaim
  <2>1. cur \in Entries /\ cur <= made
    BY <1>12, BoundsAssumption DEF PinClaim, TypeOK, Entries
  <2>2. pinAt' \subseteq pinAt \cup {cur} /\ pinned' = [pinned EXCEPT ![cur] = TRUE]
        /\ ~pinned[cur] /\ UNCHANGED <<made, held>>
    BY <1>12 DEF PinClaim
  <2> QED
    BY <1>0, <2>1, <2>2 DEF TypeOK
<1>13. CASE connect_context \/ insert_connected
  <2>1. made' \in Nat /\ made' >= made
    BY <1>0, <1>13 DEF connect_context, insert_connected, Resolve
  <2> QED
    BY <1>1, <1>13, <2>1 DEF connect_context, insert_connected, commands
<1>14. CASE \/ spawn_unhealthy_teardown \/ TearDownGate \/ evict_cluster_entry \/ remove_cluster
            \/ ConnectFresh \/ ConnectError \/ UNCHANGED vars
  BY <1>0, <1>1, <1>14 DEF spawn_unhealthy_teardown, TearDownGate, evict_cluster_entry,
     remove_cluster, ConnectFresh, ConnectError, vars, commands
<1> QED
  BY <1>3, <1>4, <1>6, <1>7, <1>8, <1>9, <1>10, <1>11, <1>12, <1>13, <1>14
  DEF Next, Subscribe, Unsubscribe, TearDown, Evict, Replace

(* Entries only get newer, a gate stays shut, and an entry that was        *)
(* emptied by an eviction is removed: what is fresh has always been.       *)
LEMMA FreshBack ==
  ASSUME TypeOK, [Next]_vars, Fresh'
  PROVE  Fresh
<1>0. made \in Nat /\ cur \in 0..made /\ (cur # 0 => cur \in Entries) /\ Idle # Sent
  BY BoundsAssumption DEF TypeOK, Entries, Idle, Sent
<1>1. ASSUME made' \in Nat, made' >= made, made' = made => cur' = cur \/ cur' = 0,
             \A e \in Entries : gate[e] => gate'[e],
             evictAt = Sent => evictAt' = Sent \/ cur' = 0
      PROVE  Fresh
  BY <1>0, <1>1 DEF Fresh, InService
<1>2. ASSUME UNCHANGED <<made, cur, gate>>, evictAt = Sent => evictAt' = Sent
      PROVE  Fresh
  BY <1>0, <1>1, <1>2
<1>3. ASSUME NEW v \in Views,
             \/ Mount(v) \/ Listening(v) \/ UnmountCareful(v) \/ UnmountTable(v)
             \/ SubscribeError(v) \/ subscribe_resource_with_entry(v) \/ UnsubscribeResolve(v)
      PROVE  Fresh
  BY <1>2, <1>3 DEF Mount, Listening, UnmountCareful, UnmountTable, SubscribeError,
     subscribe_resource_with_entry, UnsubscribeResolve, commands
<1>4. ASSUME NEW v \in Views, unsubscribe_resource(v) PROVE Fresh
  BY <1>2, <1>4, UnsubscribeFacts
<1>5. ASSUME NEW e \in Entries, PinSubscribe(e) \/ EntryDrop(e) \/ \E t \in 1..MaxTimers : LingerFire(e, t)
      PROVE  Fresh
  BY <1>2, <1>5 DEF PinSubscribe, EntryDrop, LingerFire, commands
<1>6. CASE \/ PinClaim \/ spawn_unhealthy_teardown \/ TearDownDrop \/ ConnectFresh \/ ConnectError
           \/ tear_down_displaced \/ EvictDrop \/ evict_cluster_entry \/ UNCHANGED vars
  BY <1>0, <1>2, <1>6 DEF PinClaim, spawn_unhealthy_teardown, TearDownDrop, ConnectFresh,
     ConnectError, tear_down_displaced, EvictDrop, evict_cluster_entry, vars, commands
<1>7. CASE TearDownGate
  <2>1. \A e \in Entries : gate[e] => gate'[e]
    BY <1>0, <1>7 DEF TearDownGate, TypeOK
  <2> QED
    BY <1>0, <1>1, <1>7, <2>1 DEF TearDownGate
<1>8. CASE remove_cluster
  BY <1>0, <1>1, <1>8 DEF remove_cluster
<1>9. ASSUME Resolve, UNCHANGED <<gate, evictAt>> PROVE Fresh
  BY <1>0, <1>1, <1>9 DEF Resolve
<1>10. ASSUME NEW v \in Views, SubscribeResolve(v) PROVE Fresh
  BY <1>9, <1>10 DEF SubscribeResolve
<1>11. CASE connect_context
  BY <1>9, <1>11 DEF connect_context, commands
<1>12. CASE insert_connected
  <2>1. made' \in Nat /\ made' >= made /\ (made' = made => cur' = cur) /\ UNCHANGED <<gate, evictAt>>
    BY <1>0, <1>12 DEF insert_connected
  <2> QED
    BY <1>1, <2>1
<1> QED
  BY <1>3, <1>4, <1>5, <1>6, <1>7, <1>8, <1>10, <1>11, <1>12
  DEF Next, Subscribe, Unsubscribe, TearDown, Evict, Replace

(* One more holder, one more in the count; one less, one less. *)
LEMMA HoldersGrow ==
  ASSUME TypeOK, NEW h \in Views \cup {"pin"}, held[h] # 1, IsFiniteSet(Holders(1)),
         held' = [held EXCEPT ![h] = 1]
  PROVE  /\ IsFiniteSet(Holders(1)') /\ Cardinality(Holders(1)') = Cardinality(Holders(1)) + 1
         /\ Cardinality(Holders(1)) \in Nat
<1>1. Holders(1)' = Holders(1) \cup {h} /\ h \notin Holders(1)
  BY DEF Holders, TypeOK
<1> QED
  BY <1>1, FS_AddElement, FS_CardinalityType

LEMMA HoldersShrink ==
  ASSUME TypeOK, NEW h \in Views \cup {"pin"}, held[h] = 1, IsFiniteSet(Holders(1)),
         held' = [held EXCEPT ![h] = 0]
  PROVE  /\ IsFiniteSet(Holders(1)') /\ Cardinality(Holders(1)') = Cardinality(Holders(1)) - 1
         /\ Cardinality(Holders(1)) \in Nat \ {0}
<1>1. Holders(1)' = Holders(1) \ {h} /\ h \in Holders(1)
  BY DEF Holders, TypeOK
<1> QED
  BY <1>1, FS_RemoveElement, FS_CardinalityType, FS_EmptySet

LEMMA ExactStep ==
  ASSUME Tables = {}, TypeOK, Mannered, Resolved, AbsentCountsNobody, PinnedOnce, Exact, Fresh, Fresh',
         [Next]_vars
  PROVE  Exact'
<1>0. made \in Nat /\ cur \in 0..made /\ 1 \in Entries /\ Idle \notin Entries /\ Sent \notin Entries /\ Idle # Sent
  BY BoundsAssumption DEF TypeOK, Entries, Idle, Sent
<1>1. ASSUME slot'[1].subscribers = slot[1].subscribers, held' = held, made' \in Nat, made' >= made,
             \A v \in Views : (vstate'[v] = "on" \/ relAt'[v] # Idle)
                              <=> (vstate[v] = "on" \/ relAt[v] # Idle)
      PROVE  Exact'
  <2>1. Holders(1)' = Holders(1)
    BY <1>1 DEF Holders
  <2> QED
    BY <1>0, <1>1, <2>1 DEF Exact
<1>2. ASSUME UNCHANGED <<slot, held, vstate, relAt>>, made' \in Nat, made' >= made PROVE Exact'
  BY <1>1, <1>2
<1>3. ASSUME NEW v \in Views, Mount(v) \/ Listening(v) \/ UnmountCareful(v) PROVE Exact'
  <2>1. UNCHANGED <<slot, held, made>>
    BY <1>3 DEF Mount, Listening, UnmountCareful
  <2>2. \A w \in Views : (vstate'[w] = "on" \/ relAt'[w] # Idle)
                         <=> (vstate[w] = "on" \/ relAt[w] # Idle)
    BY <1>0, <1>3 DEF Mount, Listening, UnmountCareful, commands, TypeOK
  <2> QED
    BY <1>0, <1>1, <2>1, <2>2
<1>4. ASSUME NEW v \in Views, Outcome(v, FALSE), subAt[v] # Idle,
             UNCHANGED <<slot, held>>, made' \in Nat, made' >= made
      PROVE  Exact'
  <2>1. \A w \in Views : (vstate'[w] = "on" <=> vstate[w] = "on") /\ relAt'[w] = relAt[w]
    BY <1>4 DEF Outcome, Mannered, TypeOK
  <2> QED
    BY <1>1, <1>4, <2>1
<1>5. ASSUME NEW v \in Views, SubscribeResolve(v) PROVE Exact'
  <2>1. made' \in Nat /\ made' >= made
    BY <1>0, <1>5 DEF SubscribeResolve, Resolve
  <2>2. UNCHANGED <<slot, held>> /\ subAt[v] # Idle
    BY <1>0, <1>5 DEF SubscribeResolve
  <2> QED
    BY <1>2, <1>4, <1>5, <2>1, <2>2 DEF SubscribeResolve
<1>6. ASSUME NEW v \in Views, SubscribeError(v) PROVE Exact'
  <2>1. subAt[v] # Idle
    BY <1>0, <1>6 DEF SubscribeError
  <2>2. Outcome(v, FALSE) /\ made' = made /\ UNCHANGED <<slot, held>>
    BY <1>6 DEF SubscribeError
  <2>3. made' \in Nat /\ made' >= made
    BY <1>0, <2>2
  <2> QED
    BY <1>4, <2>1, <2>2, <2>3
<1>7. ASSUME NEW v \in Views, subscribe_resource_with_entry(v) PROVE Exact'
  <2>1. UNCHANGED made /\ subAt[v] \in Entries /\ Outcome(v, TRUE) /\ Bump(subAt[v])
        /\ held' = [held EXCEPT ![v] = subAt[v]]
    BY <1>7, Zenon DEF subscribe_resource_with_entry
  <2>2. subAt[v] = 1 /\ made = 1
    BY <1>0, <2>1 DEF Resolved, Fresh, Entries
  <2>3. vstate[v] \in {"subscribing", "leaving"} /\ relAt[v] = Idle
    BY <1>0, <2>1 DEF Mannered
  <2>4. held[v] # 1
    BY <2>3 DEF Exact
  <2>5. slot'[1].subscribers = slot[1].subscribers + 1
    BY <1>0, <2>1, <2>2 DEF Bump, Counted, TypeOK
  <2>6. slot'[1].subscribers = Cardinality(Holders(1)') /\ IsFiniteSet(Holders(1)')
    BY <2>1, <2>2, <2>4, <2>5, HoldersGrow DEF Exact
  <2>7. ASSUME NEW w \in Views
        PROVE  held'[w] = 1 <=> vstate'[w] = "on" \/ relAt'[w] # Idle
    <3>1. CASE w = v
      BY <1>0, <2>1, <2>2, <2>3, <3>1 DEF Outcome, TypeOK
    <3>2. CASE w # v
      BY <2>1, <3>2 DEF Outcome, TypeOK, Exact
    <3> QED
      BY <3>1, <3>2
  <2> QED
    BY <2>1, <2>2, <2>6, <2>7 DEF Exact
<1>8. ASSUME NEW v \in Views, UnsubscribeResolve(v) PROVE Exact'
  <2>1. relAt[v] # Idle /\ UNCHANGED <<made, slot, vstate>>
    BY <1>0, <1>8 DEF UnsubscribeResolve
  <2>2. held[v] = 1 /\ v \in DOMAIN held
    BY <2>1 DEF Exact, TypeOK
  <2>3. cur # 0
    BY <2>2 DEF Fresh, InService, Exact, Holders
  <2>4. cur # Idle
    BY <1>0 DEF Idle
  <2>5. relAt' = [relAt EXCEPT ![v] = cur] /\ held' = held
    BY <1>8, <2>3 DEF UnsubscribeResolve
  <2> QED
    BY <1>0, <1>1, <2>1, <2>4, <2>5 DEF TypeOK
<1>9. ASSUME NEW v \in Views, unsubscribe_resource(v) PROVE Exact'
  <2>1. relAt[v] \in Entries /\ relAt' = [relAt EXCEPT ![v] = Idle]
        /\ held' = [held EXCEPT ![v] = 0] /\ UNCHANGED <<made, vstate>>
    BY <1>9, UnsubscribeFacts
  <2>2. relAt[v] = 1 /\ made = 1
    BY <1>0, <2>1 DEF Resolved, Fresh, Entries
  <2>3. held[v] = 1 /\ vstate[v] = "off"
    BY <1>0, <2>1 DEF Exact, Mannered
  <2>4. /\ IsFiniteSet(Holders(1)') /\ Cardinality(Holders(1)') = slot[1].subscribers - 1
        /\ slot[1].subscribers \in Nat \ {0}
    BY <2>1, <2>3, HoldersShrink DEF Exact
  <2>5. slot[1].present
    BY <1>0, <2>4 DEF AbsentCountsNobody
  <2>6. slot'[1].subscribers = slot[1].subscribers - 1
    BY <1>9, <2>2, <2>4, <2>5, UnsubscribeCount DEF saturating_sub
  <2>7. \A w \in Views : held'[w] = 1 <=> vstate'[w] = "on" \/ relAt'[w] # Idle
    BY <2>1, <2>3 DEF Exact, TypeOK
  <2> QED
    BY <2>1, <2>2, <2>4, <2>6, <2>7 DEF Exact
<1>10. ASSUME NEW e \in Entries, PinSubscribe(e) PROVE Exact'
  <2>1. e \in pinAt /\ Bump(e) /\ held' = [held EXCEPT !["pin"] = e] /\ UNCHANGED <<made, vstate, relAt>>
    BY <1>10 DEF PinSubscribe
  <2>2. e = 1 /\ made = 1 /\ held["pin"] # 1
    BY <1>0, <2>1 DEF PinnedOnce, Fresh, Entries
  <2>3. slot'[1].subscribers = slot[1].subscribers + 1
    BY <1>0, <2>1, <2>2 DEF Bump, Counted, TypeOK
  <2>4. slot'[1].subscribers = Cardinality(Holders(1)') /\ IsFiniteSet(Holders(1)')
    BY <2>1, <2>2, <2>3, HoldersGrow DEF Exact
  <2>5. \A w \in Views : held'[w] = held[w]
    BY <2>1, ViewsAssumption DEF TypeOK
  <2> QED
    BY <2>1, <2>2, <2>4, <2>5 DEF Exact
<1>11. ASSUME NEW e \in Entries, EntryDrop(e) PROVE FALSE
  BY <1>0, <1>11 DEF EntryDrop, Referenced, Fresh, InService, Entries
<1>12. ASSUME NEW e \in Entries, NEW t \in 1..MaxTimers, LingerFire(e, t) PROVE Exact'
  <2>1. UNCHANGED <<made, held, vstate, relAt>>
    BY <1>12 DEF LingerFire, commands
  <2>2. slot'[1].subscribers = slot[1].subscribers
    BY <1>0, <1>12 DEF LingerFire, LingerMayDrop, Vacant, TypeOK
  <2> QED
    BY <1>0, <1>1, <2>1, <2>2
<1>13. ~TearDownDrop
  BY <1>0 DEF TearDownDrop, Resolved, Fresh, InService, Entries
<1>14. ~EvictDrop /\ ~tear_down_displaced
  BY <1>0 DEF EvictDrop, tear_down_displaced, Resolved, Fresh, InService, Entries
<1>15. CASE Unrelated
  <2>1. made' \in Nat /\ made' >= made
    BY <1>0, <1>15 DEF Unrelated, connect_context, PinClaim, spawn_unhealthy_teardown, TearDownGate,
       evict_cluster_entry, remove_cluster, ConnectFresh, insert_connected, ConnectError, vars, Resolve
  <2>2. UNCHANGED <<slot, held, vstate, relAt>>
    BY <1>15 DEF Unrelated, connect_context, PinClaim, spawn_unhealthy_teardown, TearDownGate,
       evict_cluster_entry, remove_cluster, ConnectFresh, insert_connected, ConnectError, vars, commands
  <2> QED
    BY <1>2, <2>1, <2>2
<1>16. \A v \in Views : ~UnmountTable(v)
  BY DEF UnmountTable
<1> QED
  BY <1>3, <1>5, <1>6, <1>7, <1>8, <1>9, <1>10, <1>11, <1>12, <1>13, <1>14, <1>15, <1>16
  DEF Next, Subscribe, Unsubscribe, TearDown, Evict, Replace, Unrelated

LEMMA CountStep ==
  ASSUME Tables = {} PROVE IInv /\ CountInv /\ [Next]_vars => CountInv'
<1> SUFFICES ASSUME IInv, CountInv, [Next]_vars PROVE CountInv'
  OBVIOUS
<1>1. TypeOK /\ Mannered /\ Resolved /\ AbsentCountsNobody /\ PinnedOnce /\ (Fresh => Exact)
  BY DEF IInv, CountInv
<1>2. Mannered' /\ Resolved' /\ AbsentCountsNobody' /\ PinnedOnce'
  BY <1>1, MannerStep, ResolvedStep, AbsentStep, PinnedStep
<1>3. Fresh' => Exact'
  BY <1>1, FreshBack, ExactStep
<1> QED
  BY <1>2, <1>3 DEF CountInv

(* What the invariant says of the first entry while it is in service: it   *)
(* counts its holders, and whoever holds it finds a watcher.               *)
LEMMA CountFacts ==
  ASSUME IInv, CountInv, made <= 1
  PROVE  RefcountExact /\ SubscriberKeepsWatcher
<1> SUFFICES ASSUME InService PROVE RefcountExact /\ SubscriberKeepsWatcher
  BY DEF RefcountExact, SubscriberKeepsWatcher
<1>1. cur = 1 /\ made = 1 /\ 1 \in Entries
  BY BoundsAssumption DEF IInv, TypeOK, InService, Entries
<1>2. Exact
  BY <1>1 DEF CountInv, Fresh
<1>3. ASSUME NEW h \in DOMAIN held, held[h] = 1 PROVE slot[1].watcher
  <2>1. h \in Holders(1)
    BY <1>3 DEF Holders
  <2>2. slot[1].subscribers # 0
    BY <1>2, <2>1, FS_EmptySet DEF Exact
  <2> QED
    BY <1>1, <2>2 DEF CountInv, AbsentCountsNobody, IInv, NoZombieWatcher
<1>4. DOMAIN held = Views \cup {"pin"}
  BY DEF IInv, TypeOK
<1> QED
  BY <1>1, <1>2, <1>3, <1>4 DEF Exact, Holders, RefcountExact, SubscriberKeepsWatcher

(* Without tables the count of the first entry in service is the number of *)
(* its holders, views and pin, for any number of views and timers and      *)
(* whatever teardown or eviction is under way (subscribe_resource,         *)
(* unsubscribe_resource).                                                  *)
THEOREM CountIsExact ==
  ASSUME Tables = {} PROVE Spec => [](made <= 1 => RefcountExact)
<1>1. IInv /\ CountInv => (made <= 1 => RefcountExact)
  BY CountFacts
<1> QED
  BY <1>1, InitIInv, NextIInv, MannerInit, CountStep, PTL DEF Spec

(* Hence no release and no linger takes the watcher from a view that is    *)
(* still subscribed (unsubscribe_resource and its linger task).            *)
THEOREM SubscriberKeeps ==
  ASSUME Tables = {} PROVE Spec => [](made <= 1 => SubscriberKeepsWatcher)
<1>1. IInv /\ CountInv => (made <= 1 => SubscriberKeepsWatcher)
  BY CountFacts
<1> QED
  BY <1>1, InitIInv, NextIInv, MannerInit, CountStep, PTL DEF Spec
=============================================================================
