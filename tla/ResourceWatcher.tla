-------------------------- MODULE ResourceWatcher --------------------------
(***************************************************************************)
(* One live resource pipeline: the apiserver, the watcher task that        *)
(* mirrors a kind into a cache, the dirty channel, the forwarder that      *)
(* drains it, and the table of a webview listener that was attached before *)
(* the watcher started.                                                    *)
(*                                                                         *)
(*   apiserver --events--> watcher task --records--> DirtyChannel          *)
(*                             |                          |                *)
(*                           cache                    forwarder --> view   *)
(*                                                                         *)
(* Sources: crates/kube-ext/src/watcher.rs (start_with_api, start_dynamic, *)
(* preview, reconcile, Drop) and spawn_resource_forwarder in               *)
(* crates/app/src/commands.rs.  The kube-rs watcher and the apiserver are  *)
(* external: they are modelled from the events the task consumes.          *)
(*                                                                         *)
(* Preview = TRUE is the typed watcher, FALSE the dynamic one (CRDs).      *)
(***************************************************************************)
EXTENDS DirtyChannel, Sequences

CONSTANTS BadRows,      \* rows whose Row::build fails (dropped by the task)
          Preview,      \* does the watcher run the preview LIST?
          PreviewLimit, \* PREVIEW_LIMIT: items the preview LIST asks for
          MaxWrites,    \* bound: object changes on the apiserver
          MaxBreaks     \* bound: broken watches / lists

ASSUME BadRowsAssumption == BadRows \subseteq Rows
ASSUME PreviewAssumption == Preview \in BOOLEAN

VARIABLES
  \* The apiserver and the kube-rs stream (external).
  server,      \* the objects that exist, as rows
  writes,      \* changes made so far (bounded)
  phase,       \* "down": next event is Init; "list": replaying; "watch"
  page,        \* the part of the LIST still to be replayed as InitApply
  backlog,     \* watch events not delivered yet
  breaks,      \* stream errors so far (bounded)
  preview,     \* the preview future: "sleeping", "ready" or "none"
  previewRows, \* its result
  \* The watcher task.
  cache,       \* uid -> row
  initSeen,    \* uids replayed in the current Init..InitDone window
  initDone,    \* the init_done flag read by late subscribers
  pc,          \* "select", "record", "reconcile" or "preview"
  todo,        \* uids the running handler still has to deal with
  aborted,     \* task.abort() was called (Drop)
  \* The channel and its Notify.
  ch, permit,
  \* The forwarder task.
  fpc,         \* "idle", "check", "parked", "window", "drain", "emit", "exited"
  woken,       \* notify_waiters ran since the Notified future was created
  batch,       \* the batch being emitted
  \* The listener.
  view, synced

apiVars  == <<server, writes>>
strmVars == <<phase, page, backlog, breaks>>
prevVars == <<preview, previewRows>>
taskVars == <<cache, initSeen, initDone, pc, todo>>
chanVars == <<ch, permit>>
fwdVars  == <<fpc, woken, batch>>
viewVars == <<view, synced>>
vars == <<apiVars, strmVars, prevVars, taskVars, aborted, chanVars, fwdVars, viewVars>>

Events == [uid : Uids, row : Maybe]

TypeOK ==
  /\ server \in Tables /\ writes \in Nat
  /\ phase \in {"down", "list", "watch"}
  /\ page \in Tables /\ backlog \in Seq(Events) /\ breaks \in Nat
  /\ preview \in {"sleeping", "ready", "none"} /\ previewRows \in Tables
  /\ cache \in Tables /\ initSeen \subseteq Uids /\ initDone \in BOOLEAN
  /\ pc \in {"select", "record", "reconcile", "preview"} /\ todo \subseteq Uids
  /\ aborted \in BOOLEAN
  /\ ch \in Channels /\ permit \in BOOLEAN
  /\ fpc \in {"idle", "check", "parked", "window", "drain", "emit", "exited"}
  /\ woken \in BOOLEAN /\ batch \in Batches
  /\ view \in Tables /\ synced \in BOOLEAN

Init ==
  /\ server \in {t \in Tables : Keys(t) = {} \/ Keys(t) = Uids}
  /\ writes = 0
  /\ phase = "down" /\ page = Empty /\ backlog = << >> /\ breaks = 0
  /\ preview = (IF Preview THEN "sleeping" ELSE "none") /\ previewRows = Empty
  /\ cache = Empty /\ initSeen = {} /\ initDone = FALSE
  /\ pc = "select" /\ todo = {} /\ aborted = FALSE
  /\ ch = NewChannel /\ permit = FALSE
  /\ fpc = "idle" /\ woken = FALSE /\ batch = NoBatch
  /\ view = Empty /\ synced = FALSE

-----------------------------------------------------------------------------
(* The apiserver (external).  An object is created, changed or deleted;    *)
(* an open watch will report it.                                           *)
ServerWrite(u, r) ==
  /\ writes < MaxWrites /\ r # server[u]
  /\ server' = [server EXCEPT ![u] = r]
  /\ writes' = writes + 1
  /\ backlog' = IF phase = "down" THEN backlog
                ELSE Append(backlog, [uid |-> u, row |-> r])
  /\ UNCHANGED <<phase, page, breaks, prevVars, taskVars, aborted, chanVars, fwdVars, viewVars>>

(* The answer of the preview LIST: at most PreviewLimit objects, without   *)
(* the ones that do not serialise; a failed LIST answers with none.        *)
preview_rows ==
  /\ preview = "sleeping" /\ ~aborted
  /\ \E S \in SUBSET Keys(server) :
       /\ S = {} \/ Cardinality(S) = Least(PreviewLimit, Cardinality(Keys(server)))
       /\ previewRows' = [u \in Uids |-> IF u \in S /\ server[u] \notin BadRows
                                         THEN server[u] ELSE NoRow]
  /\ preview' = "ready"
  /\ UNCHANGED <<apiVars, strmVars, taskVars, aborted, chanVars, fwdVars, viewVars>>

-----------------------------------------------------------------------------
(* The watcher task.  It picks its next event at "select", the only await  *)
(* of its loop, and is cancelled there once it has been aborted.           *)
Awaiting == pc = "select" /\ ~aborted

(* The common tail of Apply and InitApply: a row that fails to build is    *)
(* dropped, one equal to the cached one is suppressed, any other is cached *)
(* and then, after the cache lock is released, recorded.                   *)
Project(u, r) ==
  IF r \in BadRows \/ cache[u] = r
  THEN UNCHANGED <<cache, pc, todo>>
  ELSE /\ cache' = [cache EXCEPT ![u] = r]
       /\ pc' = "record" /\ todo' = {u}

StreamInit ==
  /\ Awaiting /\ phase = "down"
  /\ phase' = "list" /\ page' = server /\ backlog' = << >>
  /\ initSeen' = {}
  /\ UNCHANGED <<apiVars, breaks, prevVars, cache, initDone, pc, todo, aborted,
                 chanVars, fwdVars, viewVars>>

StreamInitApply(u) ==
  /\ Awaiting /\ phase = "list" /\ page[u] # NoRow
  /\ page' = [page EXCEPT ![u] = NoRow]
  /\ preview' = "none"
  /\ initSeen' = initSeen \cup {u}
  /\ Project(u, page[u])
  /\ UNCHANGED <<apiVars, phase, backlog, breaks, previewRows, initDone, aborted,
                 chanVars, fwdVars, viewVars>>

(* The cached uids the list that just ended did not replay. *)
reconcile_Nothing == {}                                    \* mutant: no reconcile
reconcile_init_seen == Keys(cache) \ initSeen

(* InitDone: every stale uid leaves the cache and is recorded as deleted;  *)
(* mark_init_done then ends the handler.                                   *)
StreamInitDone ==
  /\ Awaiting /\ phase = "list" /\ Keys(page) = {}
  /\ phase' = "watch"
  /\ preview' = "none"
  /\ initDone' = TRUE
  /\ todo' = reconcile_init_seen
  /\ cache' = [u \in Uids |-> IF u \in reconcile_init_seen THEN NoRow ELSE cache[u]]
  /\ pc' = "reconcile" /\ initSeen' = {}
  /\ UNCHANGED <<apiVars, page, backlog, breaks, previewRows, aborted,
                 chanVars, fwdVars, viewVars>>

StreamApply ==
  /\ Awaiting /\ phase = "watch" /\ backlog # << >>
  /\ Head(backlog).row # NoRow
  /\ backlog' = Tail(backlog)
  /\ preview' = "none"
  /\ Project(Head(backlog).uid, Head(backlog).row)
  /\ UNCHANGED <<apiVars, phase, page, breaks, previewRows, initSeen, initDone,
                 aborted, chanVars, fwdVars, viewVars>>

StreamDelete ==
  /\ Awaiting /\ phase = "watch" /\ backlog # << >>
  /\ Head(backlog).row = NoRow
  /\ backlog' = Tail(backlog)
  /\ cache' = [cache EXCEPT ![Head(backlog).uid] = NoRow]
  /\ pc' = "record" /\ todo' = {Head(backlog).uid}
  /\ UNCHANGED <<apiVars, phase, page, breaks, prevVars, initSeen, initDone,
                 aborted, chanVars, fwdVars, viewVars>>

(* A stream error the watcher recovers from by listing again (410 Gone, a  *)
(* broken initial list, resume after sleep).  The events it missed are     *)
(* gone; the task only logs it.                                            *)
StreamError ==
  /\ Awaiting /\ phase # "down" /\ breaks < MaxBreaks
  /\ phase' = "down" /\ page' = Empty /\ backlog' = << >>
  /\ breaks' = breaks + 1
  /\ UNCHANGED <<apiVars, prevVars, taskVars, aborted, chanVars, fwdVars, viewVars>>

(* One record_upsert / record_delete of the running handler: the row that  *)
(* is recorded is the one the handler put into the cache.                  *)
Record(u) ==
  /\ pc \in {"record", "reconcile"} /\ u \in todo
  /\ ch' = IF cache[u] = NoRow THEN record_delete(ch, u)
           ELSE record_upsert(ch, u, cache[u])
  /\ permit' = (permit \/ ~ch.closed)
  /\ todo' = todo \ {u}
  /\ pc' = IF pc = "record" THEN "select" ELSE pc
  /\ UNCHANGED <<apiVars, strmVars, prevVars, cache, initSeen, initDone, aborted,
                 fwdVars, viewVars>>

MarkInitDone ==
  /\ pc = "reconcile" /\ todo = {}
  /\ ch' = mark_init_done(ch)
  /\ permit' = (permit \/ ~ch.closed)
  /\ pc' = "select"
  /\ UNCHANGED <<apiVars, strmVars, prevVars, cache, initSeen, initDone, todo,
                 aborted, fwdVars, viewVars>>

(* The preview branch of the select.  After InitDone it is ignored.        *)
PreviewStart ==
  /\ Awaiting /\ preview = "ready"
  /\ preview' = "none"
  /\ IF initDone THEN UNCHANGED <<pc, todo>>
     ELSE pc' = "preview" /\ todo' = Keys(previewRows)
  /\ UNCHANGED <<apiVars, strmVars, previewRows, cache, initSeen, initDone,
                 aborted, chanVars, fwdVars, viewVars>>

(* apply_preview keeps the cache locked for the whole loop, so the insert  *)
(* and its record are one step; only gaps are filled.                      *)
PreviewRow(u) ==
  /\ pc = "preview" /\ u \in todo
  /\ todo' = todo \ {u}
  /\ IF cache[u] # NoRow THEN UNCHANGED <<cache, chanVars>>
     ELSE /\ cache' = [cache EXCEPT ![u] = previewRows[u]]
          /\ ch' = record_upsert(ch, u, previewRows[u])
          /\ permit' = (permit \/ ~ch.closed)
  /\ UNCHANGED <<apiVars, strmVars, prevVars, initSeen, initDone, pc, aborted,
                 fwdVars, viewVars>>

PreviewEnd ==
  /\ pc = "preview" /\ todo = {}
  /\ pc' = "select"
  /\ UNCHANGED <<apiVars, strmVars, prevVars, cache, initSeen, initDone, todo,
                 aborted, chanVars, fwdVars, viewVars>>

-----------------------------------------------------------------------------
(* Drop for ResourceWatcher: abort the task, then close the channel.       *)
DropAbort ==
  /\ ~aborted
  /\ aborted' = TRUE
  /\ UNCHANGED <<apiVars, strmVars, prevVars, taskVars, chanVars, fwdVars, viewVars>>

(* notify_waiters wakes the future that exists now, parked or not yet, and *)
(* stores no permit.                                                       *)
notify_waiters_Forgotten == UNCHANGED woken   \* mutant
notify_waiters == woken' = TRUE

DropClose ==
  /\ aborted /\ ~ch.closed
  /\ ch' = close(ch)
  /\ notify_waiters
  /\ UNCHANGED <<apiVars, strmVars, prevVars, taskVars, aborted, permit, fpc,
                 batch, viewVars>>

-----------------------------------------------------------------------------
(* The forwarder.  wait_for_change creates the Notified future before it   *)
(* looks at the channel.                                                   *)
FwdNotified ==
  /\ fpc = "idle"
  /\ fpc' = "check" /\ woken' = FALSE
  /\ UNCHANGED <<apiVars, strmVars, prevVars, taskVars, aborted, chanVars, batch, viewVars>>

FwdCheck ==
  /\ fpc = "check"
  /\ fpc' = IF HasWork(ch) THEN "window"
            ELSE IF ch.closed THEN "exited" ELSE "parked"
  /\ UNCHANGED <<apiVars, strmVars, prevVars, taskVars, aborted, chanVars, woken,
                 batch, viewVars>>

FwdWake ==
  /\ fpc = "parked" /\ (permit \/ woken)
  /\ permit' = FALSE
  /\ fpc' = "idle"
  /\ UNCHANGED <<apiVars, strmVars, prevVars, taskVars, aborted, ch, woken, batch, viewVars>>

(* The debounce window (16 ms before InitDone, 1 s after) ends.            *)
FwdWindow ==
  /\ fpc = "window"
  /\ fpc' = "drain"
  /\ UNCHANGED <<apiVars, strmVars, prevVars, taskVars, aborted, chanVars, woken,
                 batch, viewVars>>

FwdDrain ==
  /\ fpc = "drain"
  /\ \E b \in drain_capped(ch) :
       /\ ch' = Remainder(ch, b)
       /\ batch' = b
       /\ fpc' = IF is_empty(b) THEN "idle" ELSE "emit"
  /\ UNCHANGED <<apiVars, strmVars, prevVars, taskVars, aborted, permit, woken, viewVars>>

FwdEmit ==
  /\ fpc = "emit"
  /\ view' = Apply(view, batch)
  /\ synced' = (synced \/ batch.init)
  /\ batch' = NoBatch
  /\ fpc' = "drain"
  /\ UNCHANGED <<apiVars, strmVars, prevVars, taskVars, aborted, chanVars, woken>>

-----------------------------------------------------------------------------
StreamStep ==
  \/ StreamInit \/ StreamInitDone \/ StreamApply \/ StreamDelete
  \/ \E u \in Uids : StreamInitApply(u)

TaskStep ==
  \/ \E u \in Uids : Record(u)
  \/ MarkInitDone \/ PreviewStart \/ PreviewEnd
  \/ \E u \in Uids : PreviewRow(u)

FwdStep ==
  FwdNotified \/ FwdCheck \/ FwdWake \/ FwdWindow \/ FwdDrain \/ FwdEmit

Next ==
  \/ \E u \in Uids, r \in Maybe : ServerWrite(u, r)
  \/ preview_rows
  \/ StreamStep \/ StreamError
  \/ TaskStep
  \/ DropAbort \/ DropClose
  \/ FwdStep

Spec == Init /\ [][Next]_vars

(* Tasks run on tokio's fair scheduler: the task's handlers, the forwarder *)
(* and the two statements of Drop always make progress, and the kube-rs    *)
(* stream keeps delivering (its backoff retries for ever).                 *)
Fairness ==
  WF_vars(StreamStep) /\ WF_vars(TaskStep) /\ WF_vars(FwdStep) /\ WF_vars(DropClose)

LiveSpec == Spec /\ Fairness
-----------------------------------------------------------------------------
(* While the watcher is held: what the listener shows, with the batch      *)
(* being emitted and everything pending in the channel applied to it, is   *)
(* exactly the cache, for every uid except those whose cache change the    *)
(* running handler has not recorded yet.  No delta is lost, duplicated     *)
(* into a stale value or reordered by coalescing, capping, previewing,     *)
(* suppression or resyncs.                                                 *)
Unrecorded == IF pc \in {"record", "reconcile"} THEN todo ELSE {}

NoDeltaLost ==
  ~ch.closed =>
    \A u \in Uids \ Unrecorded : Caught(Apply(view, batch), ch)[u] = cache[u]

(* A uid is never pending both as changed and as deleted: the emitted      *)
(* array, which lists upserts before deletes, would otherwise end in the   *)
(* wrong state.                                                            *)
PendingDisjoint == Keys(ch.changed) \cap ch.deleted = {}

(* The channel is sound: its maps and everything around them are typed,    *)
(* and an upsert and a delete of one object cancel each other before they  *)
(* are drained, whatever the watcher recorded while the forwarder slept    *)
(* (DirtyChannel::record_upsert, record_delete).                           *)
ChannelIsSound == TypeOK /\ PendingDisjoint

(* Once the initial sync is over the cache, with the watch events that are *)
(* still under way, is the apiserver's state: nothing a preview, a break   *)
(* or a resync brought in survives as a ghost row.  Rows that fail to      *)
(* serialise are excluded: the code drops them and keeps the old row.      *)
LatestEvent(u) ==
  LET at == {i \in 1..Len(backlog) : backlog[i].uid = u}
  IN  IF at = {} THEN cache[u]
      ELSE backlog[CHOOSE i \in at : \A j \in at : j <= i].row

CacheTracksServer ==
  phase = "watch" =>
    \A u \in Uids : server[u] \in BadRows \/ LatestEvent(u) = server[u]

(* A parked forwarder with nothing to wake it has nothing to deliver and   *)
(* its watcher has not been dropped (no lost wake-up).                     *)
NoLostWakeup ==
  fpc = "parked" /\ ~permit /\ ~woken => ~HasWork(ch) /\ ~ch.closed

(* The batch that carries InitDone completes the table: when it is drained *)
(* the listener that applies it shows the whole cache, but for rows whose  *)
(* record is still being made.                                             *)
SpinnerEndsOnFullTable ==
  [][batch'.init /\ ~ch.closed =>
       \A u \in Uids \ Unrecorded : Apply(view, batch')[u] = cache[u]]_batch

(* The pipeline implements the abstract feed: what was recorded is the     *)
(* source, what was drained is the replica, and InitDone is handed out     *)
(* only with a batch that leaves nothing behind.                           *)
Feed == INSTANCE DeltaFeed WITH
          source  <- Caught(Apply(view, batch), ch),
          replica <- Apply(view, batch),
          done    <- (synced \/ batch.init),
          open    <- ~ch.closed

ImplementsFeed == Feed!Spec

(* If the watcher is kept, the listener's table ends up as the apiserver's *)
(* state (writes and breaks are bounded) and its spinner ends.             *)
Converges ==
  [](aborted = FALSE) =>
    <>[](synced /\ \A u \in Uids : server[u] \in BadRows \/ view[u] = server[u])

(* A dropped watcher releases its forwarder.                               *)
ForwarderExits == aborted ~> fpc = "exited"
=============================================================================
