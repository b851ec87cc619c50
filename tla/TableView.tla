----------------------------- MODULE TableView -----------------------------
(***************************************************************************)
(* A resource table of the webview and the watchers that feed it: the      *)
(* subscribe effect of ui/src/components/ResourceTable.tsx, with the row   *)
(* map of lib/multiCluster.ts and the sync tracker of lib/delayedFlag.ts.  *)
(*                                                                         *)
(* The table shows the rows of several (cluster, scope) pairs.  For each   *)
(* pair it registers a listener, then subscribes; deltas arrive as events  *)
(* while the snapshots are under way, and all snapshots are merged at once *)
(* when the last subscribe has settled.  Each pair's watcher runs          *)
(* throughout (another view may have started it); its cache, its dirty     *)
(* channel and its forwarder are those of ResourceWatcher, with one step   *)
(* for drain and emit.                                                     *)
(*                                                                         *)
(* TableInit, TableNext, ... are named so that one module can extend this  *)
(* specification and that of the connection hook, AutoReconnect.           *)
(***************************************************************************)
EXTENDS DirtyChannel, Sequences

CONSTANTS Pairs,     \* the (cluster, scope) pairs of the table
          Churning,  \* bound: the pairs whose objects change
          MaxWire    \* bound: emitted batches not yet handled, per pair

ASSUME PairsAssumption == Pairs # {} /\ Churning \subseteq Pairs
ASSUME MaxWireAssumption == MaxWire \in Nat \ {0}

VARIABLES
  cache,    \* pair -> the watcher's row cache
  behind,   \* pair -> the uid whose change is cached and not yet recorded
  inited,   \* pair -> the watcher's init_done flag
  marking,  \* pair -> init_done is stored, mark_init_done is still to come
  ch,       \* pair -> the dirty channel
  wire,     \* pair -> batches emitted to the table's listener, in order
  effect,   \* what the subscribe effect is doing
  lis,      \* pair -> its listener is registered
  resp,     \* pair -> its subscribe_resource call
  local,    \* pair -> its rows in localMap
  pending,  \* the pairs the sync tracker still waits for
  load      \* the load state

watcher == <<cache, behind, inited, marking, ch>>
view == <<effect, lis, resp, local, pending, load>>
tableVars == <<watcher, wire, view>>

NoResponse == [at |-> "none", rows |-> Empty, init |-> FALSE]
Responses == [at : {"none", "sent", "rows", "ok", "error"}, rows : Tables, init : BOOLEAN]

TableTypeOK ==
  /\ cache \in [Pairs -> Tables] /\ behind \in [Pairs -> SUBSET Uids]
  /\ inited \in [Pairs -> BOOLEAN] /\ marking \in [Pairs -> BOOLEAN]
  /\ ch \in [Pairs -> Channels]
  /\ wire \in [Pairs -> Seq(Batches)]
  /\ effect \in {"off", "registering", "subscribing", "merged", "failed"}
  /\ lis \in [Pairs -> BOOLEAN] /\ resp \in [Pairs -> Responses]
  /\ local \in [Pairs -> Tables] /\ pending \in SUBSET Pairs
  /\ load \in {"loading", "ready", "error"}

TableInit ==
  /\ cache = [p \in Pairs |-> Empty] /\ behind = [p \in Pairs |-> {}]
  /\ inited = [p \in Pairs |-> FALSE] /\ marking = [p \in Pairs |-> FALSE]
  /\ ch = [p \in Pairs |-> NewChannel] /\ wire = [p \in Pairs |-> <<>>]
  /\ effect = "off" /\ lis = [p \in Pairs |-> FALSE]
  /\ resp = [p \in Pairs |-> NoResponse] /\ local = [p \in Pairs |-> Empty]
  /\ pending = {} /\ load = "loading"

-----------------------------------------------------------------------------
(* The watcher of pair p: every change goes to the cache first and to the  *)
(* channel after the cache lock is released.                               *)
CacheWrite(p, u, r) ==
  /\ p \in Churning /\ behind[p] = {} /\ cache[p][u] # r
  /\ marking[p] => r = NoRow   \* reconcile_init_seen runs between the two
  /\ cache' = [cache EXCEPT ![p][u] = r]
  /\ behind' = [behind EXCEPT ![p] = {u}]
  /\ UNCHANGED <<inited, marking, ch, wire, view>>

Recorded(p, u) ==
  IF cache[p][u] = NoRow THEN record_delete(ch[p], u)
  ELSE record_upsert(ch[p], u, cache[p][u])

Record(p, u) ==
  /\ behind[p] = {u}
  /\ ch' = [ch EXCEPT ![p] = Recorded(p, u)]
  /\ behind' = [behind EXCEPT ![p] = {}]
  /\ UNCHANGED <<cache, inited, marking, wire, view>>

(* The first InitDone of the stream: the flag, the reconcile, the channel. *)
InitDone(p) ==
  /\ ~inited[p] /\ behind[p] = {}
  /\ inited' = [inited EXCEPT ![p] = TRUE]
  /\ marking' = [marking EXCEPT ![p] = TRUE]
  /\ UNCHANGED <<cache, behind, ch, wire, view>>

MarkInitDone(p) ==
  /\ marking[p] /\ behind[p] = {}
  /\ ch' = [ch EXCEPT ![p] = mark_init_done(@)]
  /\ marking' = [marking EXCEPT ![p] = FALSE]
  /\ UNCHANGED <<cache, behind, inited, wire, view>>

(* The forwarder.  An event nobody listens to is gone. *)
Emit(p) ==
  /\ HasWork(ch[p]) /\ Len(wire[p]) < MaxWire
  /\ \E b \in drain_capped(ch[p]) :
       /\ ch' = [ch EXCEPT ![p] = Remainder(@, b)]
       /\ wire' = IF lis[p] THEN [wire EXCEPT ![p] = Append(@, b)] ELSE wire
  /\ UNCHANGED <<cache, behind, inited, marking, view>>

-----------------------------------------------------------------------------
(* The effect runs: fresh row map, fresh tracker. *)
Mount ==
  /\ effect = "off"
  /\ effect' = "registering" /\ pending' = Pairs /\ load' = "loading"
  /\ UNCHANGED <<watcher, wire, lis, resp, local>>

Register(p) ==
  /\ effect = "registering" /\ ~lis[p]
  /\ lis' = [lis EXCEPT ![p] = TRUE]
  /\ UNCHANGED <<watcher, wire, effect, resp, local, pending, load>>

(* A registration is rejected: the catch at the end of the effect. *)
RegisterFails ==
  /\ effect = "registering" /\ \E p \in Pairs : ~lis[p]
  /\ effect' = "failed" /\ load' = "error"
  /\ UNCHANGED <<watcher, wire, lis, resp, local, pending>>

(* The subscribes go out once every listener is registered. *)
MaySubscribe_AtOnce == TRUE   \* mutant: listeners and subscribes race
MaySubscribe == \A p \in Pairs : lis[p]

Subscribe ==
  /\ effect = "registering" /\ MaySubscribe
  /\ effect' = "subscribing"
  /\ resp' = [p \in Pairs |-> [NoResponse EXCEPT !.at = "sent"]]
  /\ UNCHANGED <<watcher, wire, lis, local, pending, load>>

(* subscribe_resource reads the snapshot, then the init_done flag. *)
snapshot(p) ==
  /\ resp[p].at = "sent"
  /\ resp' = [resp EXCEPT ![p] = [at |-> "rows", rows |-> cache[p], init |-> FALSE]]
  /\ UNCHANGED <<watcher, wire, effect, lis, local, pending, load>>

init_done(p) ==
  /\ resp[p].at = "rows"
  /\ resp' = [resp EXCEPT ![p].at = "ok", ![p].init = inited[p]]
  /\ UNCHANGED <<watcher, wire, effect, lis, local, pending, load>>

(* The cluster is unavailable or cannot be connected. *)
SubscribeFails(p) ==
  /\ resp[p].at = "sent"
  /\ resp' = [resp EXCEPT ![p].at = "error"]
  /\ UNCHANGED <<watcher, wire, effect, lis, local, pending, load>>

(* mergeScopedSnapshots: the rows that deltas brought win. *)
Merged(p) ==
  [u \in Uids |-> IF local[p][u] # NoRow THEN local[p][u] ELSE resp[p].rows[u]]

(* The pairs whose initial sync a settled subscribe ends. *)
SettledSyncs_FailedOnly ==   \* mutant: a late subscriber waits for an event that is past
  {p \in Pairs : resp[p].at = "error"}
SettledSyncs_OkOnly ==   \* mutant: a failed pair is waited for
  {p \in Pairs : resp[p].init}
SettledSyncs_Any ==   \* mutant: one failed pair ends the sync of all
  IF \E p \in Pairs : resp[p].at = "error" THEN Pairs ELSE {p \in Pairs : resp[p].init}
SettledSyncs == {p \in Pairs : resp[p].at = "error" \/ resp[p].init}

(* Every subscribe has settled. *)
Merge ==
  LET ok == {p \in Pairs : resp[p].at = "ok"}
  IN /\ effect = "subscribing"
     /\ \A p \in Pairs : resp[p].at \in {"ok", "error"}
     /\ effect' = "merged"
     /\ local' = [p \in Pairs |-> Merged(p)]
     /\ pending' = pending \ SettledSyncs
     /\ load' = IF ok = {} THEN "error"
                ELSE IF \/ \A p \in ok : resp[p].init
                        \/ \E p \in Pairs : Keys(local'[p]) # {}
                     THEN "ready" ELSE load
     /\ UNCHANGED <<watcher, wire, lis, resp>>

(* onDelta, for every delta of a batch. *)
EndsSync_AnyBatch(b) == TRUE   \* mutant: the first rows end the sync
EndsSync(b) == b.init

Deliver(p) ==
  LET b == Head(wire[p])
  IN /\ wire[p] # <<>>
     /\ wire' = [wire EXCEPT ![p] = Tail(@)]
     /\ local' = [local EXCEPT ![p] = Apply(@, b)]
     /\ pending' = IF EndsSync(b) THEN pending \ {p} ELSE pending
     /\ load' = IF load = "loading" /\ (b.init \/ Keys(b.upserts) # {})
                THEN "ready" ELSE load
     /\ UNCHANGED <<watcher, effect, lis, resp>>

(* The cleanup: listeners gone, row map cleared, answers ignored. *)
Unmount ==
  /\ effect # "off"
  /\ effect' = "off" /\ lis' = [p \in Pairs |-> FALSE]
  /\ wire' = [p \in Pairs |-> <<>>]
  /\ resp' = [p \in Pairs |-> NoResponse] /\ local' = [p \in Pairs |-> Empty]
  /\ pending' = {} /\ load' = "loading"
  /\ UNCHANGED watcher

-----------------------------------------------------------------------------
Call(p) == snapshot(p) \/ init_done(p) \/ SubscribeFails(p)

TableNext ==
  \/ \E p \in Pairs :
       \/ \E u \in Uids : (\E r \in Maybe : CacheWrite(p, u, r)) \/ Record(p, u)
       \/ InitDone(p) \/ MarkInitDone(p) \/ Emit(p)
       \/ Register(p) \/ Call(p) \/ Deliver(p)
  \/ Mount \/ RegisterFails \/ Subscribe \/ Merge \/ Unmount

TableSpec == TableInit /\ [][TableNext]_tableVars

(* Tasks and callbacks run, commands are answered, a list ends. *)
TableLiveSpec ==
  /\ TableSpec
  /\ \A p \in Pairs : /\ WF_tableVars(\E u \in Uids : Record(p, u)) /\ SF_tableVars(InitDone(p))
                      /\ WF_tableVars(MarkInitDone(p)) /\ WF_tableVars(Emit(p))
                      /\ WF_tableVars(Register(p)) /\ WF_tableVars(Call(p)) /\ WF_tableVars(Deliver(p))
  /\ WF_tableVars(Subscribe) /\ WF_tableVars(Merge)

-----------------------------------------------------------------------------
Syncing == effect \notin {"off", "failed"} /\ pending # {}

(* The rows of pair p once everything under way has reached the table: a   *)
(* change still to be recorded decides over the channel, the channel over  *)
(* the wire, and there the last batch that has something to say of a uid.  *)
Mentions(b, u) == u \in b.deletes \/ b.upserts[u] # NoRow
Arrived(p) ==
  [u \in Uids |->
     LET said == {i \in 1..Len(wire[p]) : Mentions(wire[p][i], u)}
         last == CHOOSE i \in said : \A j \in said : j <= i
     IN IF said = {} THEN local[p][u] ELSE Apply(local[p], wire[p][last])[u]]
Settled(p) ==
  [u \in Uids |-> IF u \in behind[p] THEN cache[p][u] ELSE Caught(Arrived(p), ch[p])[u]]

(* No row is missed between the snapshot and the deltas: from the merge    *)
(* on, every row the watcher has cached is shown as it is, or a delta that *)
(* makes it so is on its way, whatever was emitted before the listener was *)
(* registered and whatever was overtaken by the snapshot.                  *)
NoRowMissed ==
  effect = "merged" =>
    \A p \in Pairs : resp[p].at = "ok" =>
      \A u \in Keys(cache[p]) : Settled(p)[u] = cache[p][u]

(* The table stops waiting for a pair only when that pair's watcher has    *)
(* finished its initial list or its subscribe failed.                      *)
SyncEndsOnList ==
  effect # "off" => \A p \in Pairs \ pending : inited[p] \/ resp[p].at = "error"

(* The state is typed, and no pair's sync ends before its list.            *)
SyncIsSound == TableTypeOK /\ SyncEndsOnList

(* What SubscribeResult says of an answer: init_done with no rows means     *)
(* that the kind has no instances.  The answer is two reads, so the list   *)
(* must not end, with rows, between an empty snapshot and the flag.        *)
EmptyIsGenuine ==
  [][\A p \in Pairs :
       ~inited[p] /\ inited'[p] /\ resp[p].at = "rows" /\ resp[p].rows = Empty
       => cache[p] = Empty]_tableVars

(* The spinner always comes down: also for a late subscriber, whose        *)
(* InitDone was emitted before it listened, and with members that fail.    *)
SpinnerStops ==
  (effect # "off") ~> (effect = "off" \/ (~Syncing /\ load # "loading"))

(* Deltas are newer than the snapshot: once everything has arrived, the    *)
(* table shows no row that the watcher does not have.                      *)
NoGhostRows ==
  effect = "merged" =>
    \A p \in Pairs : resp[p].at = "ok" =>
      \A u \in Uids : cache[p][u] = NoRow => Settled(p)[u] = NoRow
=============================================================================
