# FerrisScope: TLA+ models of the live data plane and the agent loop

FerrisScope is a desktop Kubernetes client: a Rust backend (Tauri) that keeps
clusters connected and mirrors resources, and a React webview that shows them.
Its bugs that tests hardly reach are in the *live data plane* (tasks, channels,
refcounts, health verdicts, connects, log streams and effects that run
concurrently and are torn down and rebuilt under each other), in the agent's
turn loop, which several commands race on one transcript, and in what has to
survive a crash (the session log, the pinned port-forwards). This directory
models those parts in TLA+, checks them with TLC on small instances and proves
with TLAPS, for every instance and under the hypotheses section 5 names, each safety
property that a passing run checks. `PROJECT.json` lists the components, runs,
mutants, source map, findings, hazards and theorems; this file explains them.

Run a model with `tlc -config X.cfg M`, a proof with `tlapm M.tla`.

## 1. Inventory

### Components, their state, operations and interactions

| component | source | state | operations | talks to |
|---|---|---|---|---|
| resource watcher | `kube-ext/src/watcher.rs` | row cache (uid to row), `init_seen`, `init_done`, preview future | stream events Init / InitApply / InitDone / Apply / Delete / error, preview, reconcile, Drop | kube-rs stream; dirty channel |
| dirty channel | `kube-ext/src/watcher.rs` | changed map, deleted set, `init_done_pending`, `closed`, a Notify | record, mark, close, wait, capped drain | one writer task, one drainer |
| resource forwarder | `app/src/commands.rs` | debounce phase | wait, sleep, drain, emit | channel, webview, search index |
| kind slots | `app/src/commands.rs`, `state.rs` | per (kind, scope): watcher, count, linger handle | subscribe, unsubscribe, linger, pin, teardown, eviction | views by command, entries by id |
| cluster health | `core/src/health.rs`, `commands.rs` | failure window, last verdict, broadcast, wiring claim, `unavailable` gate | probe round, forward, tear down, resume | entry map, panel (events and polls) |
| connection hook | `ui/src/lib/useClusterConnection.ts` | connect state, session refs, timers, store health | connect, cancel, reconnect, auto-reconnect session, effects | connect_context, reconnect_cluster, get_cluster_health |
| resource table | `ui/src/components/ResourceTable.tsx`, `lib/multiCluster.ts`, `lib/delayedFlag.ts` | row map, sync tracker, load state | mount, listen, subscribe, merge, delta, cleanup | slots by command, forwarders by event |
| cluster registry | `app/src/state.rs`, `commands.rs` | entry map, connect flights, search indices | entry, cache_lazy, connect_context, insert_connected, current_client, remove | everything above |
| log streams | `core/src/logs.rs`, `commands.rs`, `ui/src/components/log/LogView.tsx` | reader position and budgets, broadcast, stream registry, view refs | open, read, probe, reconnect, forward, start, stop, resume, tear down | cluster entries, pods, panel |
| port-forwards | `app/src/commands.rs`, `state.rs`, `core/src/portforwards.rs` | handles, pin overrides, a file | start, stop, pin, persist, clean up, restore | cluster entries, kubeconfig sources |
| agent turn loop | `app/src/agent/*.rs`, `agent/src/session` | transcript, turn gate, budgets, approvals, session log | send, round, tools, approve, compact, autocontinue, cancel, close, reopen | providers, tools, chat panel |
| global forwarding, metrics, access cache | `core`, `kube-ext`, `app`, `helper` | task registries, rings, slots | start, reconnect, stop, drop by cluster | cluster entries |
| providers, MCP, native tools | `agent`, `app/src/agent*` | child processes, credentials | requests, tool calls | agent loop |
| kubeconfig, SSH, cloud identity, fleet, prefs, updater, terminals, secrets, shims | `core`, `app` | files, processes | I/O | - |

What is not modelled, and why, is the `note` of each component in `PROJECT.json`.

### What is hard here

* **Check, then wait.** `wait_for_change`, `subscribe_resource_with_entry` and
  `get_cluster_health` read state and act on it after an await.
* **Identity by name.** Commands address clusters by id and look the entry up
  late; an entry can be gated, evicted or replaced in between.
* **Shared counts.** Views of different kinds share one refcount and release it
  by name, during linger windows whose cancellation may come too late.
* **One-shot signals.** The verdict is broadcast once into a bounded channel,
  emitted once to listeners that register asynchronously, and noticed in React
  only as a *transition*.
* **Snapshot against stream.** A late subscriber merges a snapshot with deltas
  that were emitted before, during and after it was taken.
* **Cancellation.** Aborted tasks, dropped futures and cancelled connects must
  give back their claims, counts, flights and marks.
* **Two copies of the truth.** The transcript and its log, the pins and their
  file, a log's position in the reader and in the panel are written one after
  the other, and a crash, a cancel or a teardown may fall between.
* **Budgets.** Rounds, empty answers, transient failures, overflows, dead
  reconnects and open attempts are counted in different places and reset by
  different events.

### What makes each component correct

Watcher and channel: no delta lost or reordered, cache follows the server, no
lost wake-up, InitDone only on a full table. Slots: exact count, a subscriber
keeps its watcher, an idle watcher goes. Health: the verdict is earned, reaches
the gate and the panel, the wiring claim comes back. Connection: one
attempt at a time, bounded sessions that end, no phantom "reconnecting". Table:
no missing and no ghost rows, the spinner ends, and ends on a full list.
Registry: a cluster that was left is not resurrected, one connect at a time, no
wedged entry wins, the index goes with its connection. Logs: no line twice, no
unexplained gap, no stream that nobody will stop, every line settles. Forwards:
the file is the pins, a pinned listener keeps listening. Agent: one loop per
transcript, well-formed requests and reloads, no message left behind by an
answer, a Stop button whenever there is something to stop, turns that end.

## 2. Modules

| module | models | theorems |
|---|---|---|
| `DirtyChannel` | the channel as operators on a record; used by the next and by `TableView` | lemmas in `ResourceWatcherProofs` |
| `ResourceWatcher` | apiserver, watcher task, channel, forwarder, one listener | `ResourceWatcherProofs` |
| `DeltaFeed` | abstract: a source, a replica brought up to date in instalments, "sync complete" with the last of them | refined by `ResourceWatcher` |
| `KindSlots` | one slot, its views, entries and their life cycle | `KindSlotsProofs` |
| `HealthMonitor` | probe, broadcast, forwarder, teardown, resume, panel | `HealthMonitorProofs` |
| `AutoReconnect` | one panel's connection and its retry session | `WebviewProofs` |
| `TableView` | the table's effect over the watchers of several pairs | `WebviewProofs` |
| `ClusterRegistry` | the entry map, the single flight and the index of one cluster id under concurrent connects, lookups and disconnects | `ClusterRegistryProofs` |
| `LogStream` | one log source from the container to the panel | `LogStreamProofs` |
| `PortForwards` | the forwards of one cluster, their pins and the file, over restarts | `PortForwardsProofs` |
| `Transcript` | the transcript's pure functions: repair, compaction cut, fold on reload | lemmas in `AgentTurnProofs` |
| `AgentTurn` | one chat: gate, loop, tools, compaction, log; extends `Transcript` | `AgentTurnProofs` |
| `MC*` | constants for TLC | - |

### ResourceWatcher and DirtyChannel

HashMaps from uid to row are total functions with `NoRow` for "no entry". The
watcher task's only await is its select, so `pc = "select"` is where it can be
cancelled; a handler's cache update and its record are *two* steps (`pc`
"record"/"reconcile"), because the code releases the cache lock in between.
`apply_preview` holds the lock, so insert and record of a row are one. The
Notify is a `permit` bit (notify_one) and a `woken` bit of the Notified future
(notify_waiters, which stores no permit). The forwarder creates the future
(`FwdNotified`), looks (`FwdCheck`), parks, wakes, sleeps its window, and drains
and emits chunk by chunk. `drain_capped` is the *set* of batches the code may
return: hash-map order is arbitrary. The apiserver and the kube-rs stream are
external: lists are snapshots replayed in any order, watch events queue in
order, a break loses the queue and leads to a new list. `Preview` distinguishes
the typed from the dynamic watcher; the latter stores `init_done` after the
reconcile instead of before, which only a preview could tell.

### KindSlots

Entries are generations `1..MaxEntries`; `cur` is the one in the map. Each
command has a step that resolves its entry (`cur` at that moment) and a step
that runs under that entry's lock; everything under one lock is atomic. Views
come in two kinds, by their cleanup: *careful* ones (`useDetailRow`,
`findDetailRow`, the pod list) release only a subscribe that resolved; *tables*
(`ResourceTable`, App's namespaces effect) always unsubscribe. The pin stands for
the namespaces slot, whose partner is App's effect, a table. `JoinHandle::abort`
may leave the linger task running (it was past its sleep), hence `Aborted(e)` is
a choice. `held` is history: who is counted where. The metrics slot and the log
streams that teardown and eviction also drop are not part of this state.
A view mounts again only after its own earlier commands have ended.

### HealthMonitor

Time is relative to the probe's ticks: `lag` is the last tick minus
`first_failure_at`, a failing probe adds `d` in `0..Timeout`; `silence` is history
for the property. Storing the verdict and sending it are two steps. A full
broadcast channel drops its oldest event (what `Lagged` means for the receiver).
The forwarder is *spawned* until its first poll, which builds the guard that gives
the wiring claim back (`FirstPoll`); its abort and the guard are separate, and an
abort before the first poll drops a future that has no guard yet: the claim stays
(history `orphaned`). `using` is a command that has resolved the entry and will
wire it, possibly after the entry was emptied or removed. One entry is followed,
so `on_system_resumed`'s walk over the map is its step for that entry; teardowns
that overlap run as one. The panel's poll is a step that may always be taken: the
code polls while the panel's status is "ok" and its tab is active
(`useClusterConnection.ts:341`), so `PanelLearns` speaks of such a panel.

### AutoReconnect

The refs are a record, the controller's methods operators on it. The two React
effects run as one step, some time after the values they depend on changed
(`shown`), so several changes may be seen as one. The backend is reduced to what
its commands answer: `entry` none / live / wedged. `reconnect_cluster`'s answer,
the clearing of the health and the re-run of the connect effect are one step.

### TableView

Reuses the channel operators; the watcher of a pair is reduced to cache writes,
records and its first InitDone, the forwarder to one step. Listener
registration, the two reads of `subscribe_resource` (`snapshot`, then
`init_done`), the merge after *all* subscribes have settled, and the cleanup are
steps. Later InitDones (a re-list) only repeat a mark the tracker ignores. Its
operators carry a prefix (`TableInit`, `TableNext`, `TableSpec`, `tableVars`), so that
one proof module can extend it beside `AutoReconnect`.

### ClusterRegistry

One cluster id; entries and flights are numbered as they are made. Callers are
`connect_context` commands and the client lookups of port-forwards; both go
through `AppState::entry`: the map (`GetExisting`), the flight table (`Join`,
under its own lock), the OnceCell (`GetOrInit`: run it or wait), the connect, and
`cache_lazy`, which looks at the cancel flag under the map lock. `ConnectAbort` is
the cancel, the timeout or a failure at any await; dropping the future that runs
a flight makes the cell free again for a waiter (`HandedOver`). `remove_cluster`
cancels the flight and takes the entry in one step, `drop_cluster_watchers` then
removes the index in another. An entry that a connect finds wedged is replaced
by a fresh client, a port-forward's by a second lookup. `hist` counts the
departures, so that "started before the operator left" can be said. Two entries
and, for the lookup, a second flight are enough for every replacement.

### LogStream

The reader's sessions: `OpenOk` computes what the request returns (tail on the
first open, everything since `last_ts` with a granularity of one timestamp
afterwards, the current instance only), `ReadLine` skips what it has seen,
`ReadClosed`/`ReadError` end the session, the three `Probe*` actions decide between
a reopen, the end and an interruption within the budgets. The broadcast keeps
`LineBuffer` events and reports its losses; the forwarder sends runs of lines as
one frame. A teardown empties the registry and so closes the channel, and the
forwarder turns that into an interruption. The panel's refs are the record
`view`; a source may leave and come back at any time (`Unwant`, `Want`). Container,
kubelet and network are external. Stream ids are reused when nothing refers to
them, to keep the state finite. `Unwant` forgets what was shown of the source
(`LogView` keeps its lines in the ring), so `NoLineTwice` speaks of one stay of a
source in the panel. A fatal open of a container that is alive or starting
(`logs.rs:174-193`) ends a stream like the fatal opens the model has, and the
resume's drop of the log streams and the gating of the entry are one step (`Slept`).

### PortForwards

`byId` has the pin a forward was started with, `overrides` the one it got later;
`Pinned` is how `persist_forwards` reads the two. Each lock section is a step, and
the file is written after the locks are released, so two commands may write
their snapshots in the other order (`clock`, history `raced`). A restart loses the
memory at any point and restores from the file one forward at a time, with the
commands already running. Listeners' sockets and statuses are not in the state.
`cleanup_orphaned_forwards`'s scan and removal are one step, and `Start` asks for a
context that is still in a source, where `pf_start` needs an entry of its cluster.

### AgentTurn and Transcript

A loop is named after the send that spawned it (or "auto"). Every stretch under
the runtime lock is one action, every log append another. Provider outcomes
(text, tool calls, empty, transient, overflow, usage limit, error) are choices of
the environment; `hist.asked` remembers which user messages were in a request.
Tool futures run concurrently and may wait for an approval. Compaction has its
start (in-flight mark and cut), the provider's answer, and the fold with its
marker. An answer that ends the turn may carry calls (`Text`):
with a finish reason other than `ToolCalls`, such as an answer cut at the token
limit, `turn.rs:707` ends the turn with unanswered calls in the transcript, and the
repair at the top of the next round answers them with notes. A turn that fails or
hits the round cap releases the gate without looking for messages queued behind
its last request; `hist.unheard` has those, `hist.dropped` the ones that a cancel, a
close or a crash cut off. `chat_cancel_streaming` and `chat_close` abort the loop at
its await with what that drops; `Crash` forgets everything but the log. `ChatOpen`
makes a new runtime from the log at any time after a close, also while a send that
resolved the closed runtime is still running. Such a *stray* shares nothing with the
new runtime but the session's log; its turn, if it starts one, is abstracted to what
it may append there (`Stray`), and a chat that has or had one is `hist.strayed`. One
panel per session is assumed.
`MaxRaces` bounds how often cancel, manual compaction, close and crash happen.
`Transcript` has the pure functions, with `WellFormed` as the providers' rule;
`Picked` keeps the members of a set in their order, which is what the repair's
`retain` and its collections of answered calls do. `Answers` gives a stray result to
every call with its id where the code moves it once (ids are unique), and `FoldHead`
has the repair that the code makes in the next lock section (nothing but a manual
compaction, `hist.folded`, can come between). The comment above
`repair_orphan_tool_calls` says its entries are persisted; they are not, and need not
be, because a reload makes the same repair.

## 3. Runs

| run | instance | distinct states | shows |
|---|---|---|---|
| `watcher` | 2 objects, 2 rows, cap 1, preview of 1, 1 write, 1 break | 772 k | `ChannelIsSound`, `NoDeltaLost`, `CacheTracksServer`, `NoLostWakeup`, `SpinnerEndsOnFullTable`, refinement of `DeltaFeed`, `Converges`, `ForwarderExits` |
| `slots` | 2 careful views, pin, 1 entry, 2 linger tasks | 180 k | exact count; a subscriber keeps its watcher; an idle one goes |
| `slots_live` | 1 table, 2 entries | 147 k | no zombie watcher, evicted entries are released |
| `health` | ticks of 2, probes 0..1, window 4, channel of 1 | 551 k | verdict is earned, reaches the gate, the panel learns, the claim comes back from every forwarder that was polled |
| `reconnect` | budget 2, 1 press, 1 sleep, Cancel | 916 k | one attempt at a time, budget, grayed only while retrying, sessions end |
| `table` | 2 pairs that may fail, one of them changing, 1 object, 2 rows | 351 k | no row is missed, a failing pair neither ends nor blocks the other's sync, the spinner stops |
| `registry` | 2 connects, 1 lookup, 1 disconnect, 1 reconnect, 1 wedge, 2 entries | 7.0 M | `NoResurrection`, `FlightsAreSound`, `IndexFollowsConnection`, `WedgedNeverWins` |
| `agent` | 2 messages, 1 tool call, 2 rounds, 1 overflow, 1 empty answer, tail of 1, 1 race | 2.1 M | `OneLoopWhileClaimsHold`, `RequestWellFormed`, `ReloadIsFaithful`, `NoMessageAbandoned`, `PanelTracksLoop` |
| `agent_ends` | 1 message, 2 tool calls, 2 rounds, every retry budget 1, 1 race | 53 k | `TurnEnds`, with the round cap reached |
| `logs` | 3 lines, the last two of one timestamp, buffer of 2, budgets of 1, 1 fault, 1 toggle | 486 k | `NoLineTwice`, `GapsAreExplained`, `StreamsAreOwned`, `EveryLineSettles` |
| `forwards` | 2 forwards, 2 commands at once, 3 starts, 3 edits, 1 restart | 4.4 M | `PinSurvives`, `FileIsSound`, `PinnedKeepListening` |

Some properties are conjunctions of named parts (`SlotsAreSound`, `WiringIsSound`,
`AttemptsAreSound`, `SyncIsSound`, `FlightsAreSound`, `ReloadIsFaithful`,
`PanelTracksLoop`, `StreamsAreOwned`, `FileIsSound`), each part with its own comment;
most include the module's `TypeOK` (`ChannelIsSound` is `TypeOK` and `PendingDisjoint`).

Why the bounds are enough: two objects are the least for which a capped drain
splits a batch and coalescing of one object meets another; two rows tell a stale
from a fresh value; one break brings the re-list over a non-empty cache; a cap
and a broadcast channel of one are always at their limit. Two views and the pin
show every sharing; two entries, an old and a new. `Interval`, `Timeout` and
`UnhealthyAfter` keep the code's order (a probe ends before the next tick, the
window is a few ticks). Two connects and a lookup share, hand over and replace a
flight while a disconnect cancels it. Two lines of one timestamp are the case a
comparison of timestamps decides, a third one is the line before or after them.
Two messages are the running turn and the one that is queued or races its end;
the round cap, the budgets and the tail are the least that are not degenerate
(transient failures have no retry in `agent`, where they would be a second copy of
the empty answers, and one in `agent_ends`); a second tool call is what takes a
turn to its round cap. Also checked by hand: `watcher` with two writes (an
object deleted and made again between two drains; `NoDeltaLost` is proved for any
number of writes) and an invalid row (1.5 M states), with three rows (1.3 M); `agent` with a transient
retry (7.4 M), with two tool calls and no race (63 k) and with one message and two
races (24 k).
Unbounded inputs are bounded by `MaxWrites`, `MaxBreaks`, `MaxEntries`, `MaxTimers`,
`MaxInbox`, `MaxWire`, `MaxPresses`, `MaxResumes`, `Churning`, `MaxWedges`, `MaxRaces`,
`MaxLines`, `MaxFrames`, `MaxFaults`, `MaxToggles`, `MaxStarts`, `MaxEdits`, `MaxRestarts`.
`CHECK_DEADLOCK FALSE` stands where the system may stop: a dropped watcher, and
the bounded commands of `registry`, `agent`, `logs` and `forwards`. `forwards` uses
the symmetry of the command slots; it has no liveness property.

Each property has a mutant, a plausible bug of a mapped definition that makes
TLC refute it: the reconcile left out, InitDone released with the first chunk,
a wake-up forgotten on close, the linger's re-check dropped, a claim not released
on abort, the window not restarted on recovery, and so on.

`TurnEnds` is about the budgets: an id is used for one call only, so the two calls of
`agent_ends` bound its tool rounds even without the cap. A loop that waits for an
approval counts as waiting for the operator, also in a chat that was closed before
its send spawned it.

### A run that refutes a statement of the repository

| run | statement (in brief) | what happens |
|---|---|---|
| `slots_table` | a watcher outlives its subscribers | a table unsubscribes what it never subscribed |

The quoted lines and the code lines are in `PROJECT.json`, `findings`.

### Further disagreements

These definitions stand in the modules and are checked by no run; put one into
the `INVARIANTS` (or `PROPERTIES`) of the cfg named here and TLC shows the trace.

| definition | cfg | statement | what happens |
|---|---|---|---|
| `NoWatcherOnWedgedEntry` | `MCKindSlots` | "`subscribe_*` calls return a clean "unavailable" error" (`commands.rs:1553`) | the gate is read before the lock is awaited (`:1318`) |
| `WedgeStartsSession` | `MCAutoReconnect` (property) | "a wedge detected by ANY of them recovers the same way" (`useClusterConnection.ts:105`) | the transition is consumed while connecting (`:360`) |
| `PinKeepsWatcher` | `MCKindSlotsTable`, with `Pinned = TRUE` | "so the reflector stays alive for the lifetime of the entry", "without depending on the frontend keeping its own subscription alive across cluster reconnects / React lifecycle quirks / 60 s linger windows" (`commands.rs:951`) | the cleanup of App's namespaces effect, the pinned slot's partner, unsubscribes unconditionally (`App.tsx:752-758`): torn down before its subscribe was sent, it takes the pin's count, and the linger drops the watcher |
| `RearmedOnEveryExit` | `MCHealthMonitor` | "Re-arm on every exit path — including abort, which drops this future and runs the guard" (`commands.rs:4446`) | the guard is a local of the async body (`:4452`): an abort (`:1531`) before the first poll leaves the wiring claim set, and no later subscribe wires the cluster |
| `EmptyIsGenuine` | `MCTableView` (property) | "If `init_done = true` and the snapshot is empty, the kind genuinely has no instances" (`commands.rs:1240`) | rows and flag are read one after the other (`:1386-1387`); a list that ends in between is answered as complete and empty, and its rows follow as deltas |
| `QueuedIsHeard` | `MCAgentTurn` | "The running turn-loop will see this message at the top of its next round (or, if it has already produced its final assistant response, when it does its end-of-turn pending-message check)" (`agent/commands.rs:1389`) | a turn that fails, gives up or hits the round cap (`turn.rs:327-332`, `475`, `510-514`, `589-591`, `622`, `660-664`) ends without either: the message waits for the operator's next one |
| `ClosedIsShown` | `MCAgentTurn` | "`chat_cancel_streaming` and `close_chat_runtime` send it themselves" (`turn.rs:245`, of the closing report) | `close_chat_runtime` aborts the turn and sends nothing (`runtime.rs:267-284`) |
| `NoGhostRows` | `MCTableView` | "deltas win — they're newer than the snapshot LIST" (`multiCluster.ts:73`) | a delete before the merge leaves no trace (`:89`) |
| `OneLoop` | `MCAgentTurn` | "a second send arriving in that window queues its message" (`agent/runtime.rs`, `TurnGate`) | a cancel in that window releases the claim of a turn it cannot abort yet; the next send starts a second loop |
| `NoLineTwiceAnySource` | `MCLogStream` | "skips the overlap instead of re-tailing" (`commands.rs`, `start_log_stream`) | `run_previous` ignores `resume_after` |
| `FileIsThePins` | `MCPortForwards` | "Persist every currently-pinned forward to `portforwards.json`. Called after start/stop/pin transitions." (`commands.rs:4887`) | `pf_stop` saves only if the forward was *started* pinned (`:4719`): one that was pinned later and is stopped stays in the file and comes back with the next launch |
| `IndexOnlyWhenConnected` | `MCClusterRegistry` | the index goes with its cluster | a disconnect that overtakes a connect removes the index before the connect registers it |

The exceptions `hist.stolen`, `hist.folded`, `hist.strayed`, `hist.raced`, `raced`,
`orphaned`, `strayed`, `orphan`, `stale`, `failed` and `unsaved` in the properties are exactly such cases, named so that the
rest can be shown.

Further behaviours the same models show, kept as prose because each would need a
property the code does not try to keep:

* a session that is reopened while a send of its closed chat is past its lookup has
  a second loop on its log: the reopened panel shows an idle chat, and no chat id
  leads to the runtime whose loop is running, so nothing can stop it (`AgentTurn`,
  `hist.strayed`);
* a `connect_context` that has its client when the operator leaves the cluster still
  inserts its entry; only lazy connects are refused (`ClusterRegistry`,
  `NoResurrection`);
* the claim released by a cancel (above) also leaves the panel idle over a
  running loop; a loop that is aborted while it compacts leaves
  `compaction_in_flight` set, so the chat is not compacted again before it is
  reopened; a manual compaction in the middle of a turn may fold a call away
  from its results, which are repaired in memory and on reload, not in the log;
  one that folds while the results are being logged has them in the marker's
  tail and then once more behind it, and `repair_tool_pairs` keeps both when the
  log is read back (`AgentTurn`, `hist.folded`). The latter takes a compaction, a
  crash and a reopening, so no trace shows it with `MaxRaces = 1`; the attempt to
  prove `RequestWellFormed` did, and its premise is `Undisturbed` since;
* a `persist_forwards` during the restore writes a file without the forwards that
  are still to be restored, and one after it drops those that failed to start;
  `cleanup_orphaned_forwards` leaves the overrides of what it removes, and an
  override overrules the pin of a later forward of the same id; two snapshots
  may be saved in the wrong order (`PortForwards`);
* a log source that is removed and added again while its stream is starting is
  not started anew (`strayed`), a stream that was started on an entry evicted
  meanwhile is not torn down with it (`orphan`), and lines with the timestamp of
  the last one before a reconnect are taken for seen (`LogStream`);
* a table's unsubscribe can overtake its own subscribe while that is connecting;
  the count it then takes is never released (`KindSlots`, views in `Tables`);
* after a reconnect a view releases from the new entry the count it took on the
  old one, which may be the namespaces pin's: `PinKeepsWatcher` also fails without
  any table, with one careful view and `MaxEntries = 2`;
* a detached teardown finds its cluster by id and may gate the entry that just
  replaced the wedged one;
* a command that resolved an entry before its eviction wires a forwarder that
  nothing aborts, and a forwarder that is not aborted yet may emit a queued
  recovery after a resume has set the gate (`HealthMonitor`);
* Cancel during an automatic attempt leaves the session marked as retrying
  (hence the exception in `BusyMeansRetrying` and `SessionEnds`), and a resume
  during one schedules a second attempt beside it (`AutoReconnect`).

## 4. Fairness

Only the system's own steps are fair: tokio tasks and JavaScript callbacks run,
timers fire, a command is answered, a resolved listener registration resolves.
Nothing obliges the operator, the apiserver, the network or the machine's lid.

* `ResourceWatcher`: weak fairness of the stream (kube-rs retries for ever with
  back-off), the task, the forwarder and the second half of Drop.
* `KindSlots`: of every command, linger task and multi-step teardown.
* `HealthMonitor`: of the probe, the forwarder, teardowns, an eviction's second
  half, event delivery and the poll (`HEALTH_POLL_MS`, of a connected panel in the
  active tab).
* `AutoReconnect`: of timers, answers, the poll and the effects.
* `LogStream`: of the reader, the forwarder, the commands, event delivery and the
  panel's resume, and of three things outside the module: an outage ends, the
  health monitor finds a wedged client, and the reconnect evicts it (what
  `HealthMonitor` and `AutoReconnect` show of their own parts). Without an end to
  an outage no line written during it could ever arrive.
* `AgentTurn`: of every loop and command, of the end of a compaction and of a tool
  call (each has a timeout), and of autocontinue. Not of approvals: `TurnEnds`
  allows a turn to wait for the operator.
* `ClusterRegistry` and `PortForwards` state no liveness and need none.
* `TableView`: the same as `AutoReconnect`, and *strong* fairness of a pair's `InitDone`: cache
  writes go on during a list and disable it for a step, but a list is finite.

## 5. Proofs

Eight modules prove the safety properties of their component for every value of
its constants; the proofs of an invariant all have the same three parts
(initial states, one step per action, conclusion). The strengthened invariants
are conjunctions of named parts and were checked by TLC on the instances of
section 3 before they were proved.

| module | theorems (property) |
|---|---|
| `ResourceWatcherProofs` | `ChannelSound` (`ChannelIsSound`), `DeltasAreNotLost` (`NoDeltaLost`), `NoWakeupIsLost` (`NoLostWakeup`), `SpinnerEnds` (`SpinnerEndsOnFullTable`), `PipelineImplementsFeed` (`ImplementsFeed`), `CacheTracks` (`CacheTracksServer`) |
| `KindSlotsProofs` | `SlotsTypeCorrect`, `NoZombies`, `SlotsSound` (`SlotsAreSound`), `CountIsExact` (`RefcountExact`), `SubscriberKeeps` (`SubscriberKeepsWatcher`) |
| `HealthMonitorProofs` | `Wiring` (`WiringIsSound`), `Earned` (`VerdictIsEarned`) |
| `WebviewProofs` | `Attempts` (`AttemptsAreSound`), `TableSync` (`SyncIsSound`), `TableRows` (`NoRowMissed`) |
| `ClusterRegistryProofs` | `StaysLeft` (`NoResurrection`), `Flying` (`FlightsAreSound`), `Indexed` (`IndexFollowsConnection`), `NeverWedged` (`WedgedNeverWins`) |
| `LogStreamProofs` | `Owned` (`StreamsAreOwned`), `ShownOnce` (`NoLineTwice`), `Gapless` (`GapsAreExplained`) |
| `PortForwardsProofs` | `Survives` (`PinSurvives`), `NothingSpurious` (`FileIsSound`), `KeepsListening` (`PinnedKeepListening`) |
| `AgentTurnProofs` | `SingleLoop` (`OneLoopWhileClaimsHold`), `PanelIsTrue` (`PanelTracksLoop`), `RepairSettles`, `RequestsAccepted` (`RequestWellFormed`), `LogSuffices` (`ReloadIsFaithful`), `MessagesHeard` (`NoMessageAbandoned`) |

**ResourceWatcher**, any sets of objects and rows, cap, preview limit and number
of writes and breaks. `IInv` is `TypeOK`, `PendingDisjoint`, `BatchInv`, `HandlerInv`
and `NoDeltaLost`. The equation "view, batch and channel together give the cache"
is not inductive alone: a drain is neutral only if the channel's two maps are
disjoint (lemma `DrainKeepsCaught`) and the previous batch has been applied
(`BatchInv`); a record restores the equation for its uid only if every other
unrecorded uid is still in `todo` (`HandlerInv`). `NoWakeupIsLost` rests on
the order "create the future, then look"; `SpinnerEnds` on the fast path of
the drain being the only one that carries InitDone, with nothing left behind.
The refinement: initial states map to initial states (`FeedInit`), records are
publications (`FeedRecord`), drains are instalments (`FeedDrain`), every other step
is a stutter (`FeedStep`). `CacheTracks` needs what is known *during* a list too
(`TracksInv`): a uid is still to be replayed, or has been replayed and is in the
cache, or is left to the reconcile, and a change made meanwhile is the latest
event of its uid in the backlog.

**KindSlots**. `NoZombieWatcher` with the types is inductive as it stands, for any
mix of careful views and tables and any number of entries: every step that
brings a count to zero leaves a handle to a task it just spawned, and every step
that may end that task vacates the slot or finds a count above zero. The two
count theorems hold without tables and for the first entry (`ASSUME Tables = {}`,
`made <= 1`), for any number of views and linger tasks. Both hypotheses are what
the code requires: a table's second release is the violation of `slots_table`, and
from the second entry on a release by name may hit an entry it was not taken on
(section 3; TLC refutes `RefcountExact` with `MaxEntries = 2`). The invariant
(`CountInv`) ties the count to the cardinality of the holders, and the holders to
where each view and the pin are in their protocol (`Mannered`, `PinnedOnce`). Nothing
is claimed of the pin's watcher: both hypotheses leave out what endangers it.

**HealthMonitor**, any interval and threshold, any probe shorter than the interval,
any channel capacity. The verdict is earned because the failure window lies within
the silence (`WindowInSilence`) and is never taken back (`VerdictIsFinal`).
`WiringIsSound` (a running forwarder has the claim, and a claim without one was left
by an abort before the first poll) is inductive with its part `VerdictOnItsWay`: for a forwarder
in its loop a stored verdict is still to be sent or is the newest event of its
queue, which an overflow never drops; one that is not there yet reads it in the
snapshot.

**AutoReconnect**, any retry budget, presses and sleeps. Lemmas say what each
operator of the controller keeps (`Sound`: not both a back-off and a call, a back-off
only below the budget, busy only in a session), whatever it is called from; the
rest relates the controller to the calls under way.

**TableView**, any pairs, objects and rows, any cap and number of batches in flight.
`TableInv` adds to the types and to `SyncEndsOnList` what the two properties lean on:
channels stay open and their two maps disjoint (`Apart`), nothing reaches a listener
that is not registered, and the merge comes after every answer (`Phases`), the end of a
list is told of only after it (`Listed`), and of each uid whose last change has been
recorded the newest news under way, looked for from the channel over the wire and the
unmerged snapshot to the table, is its row in the cache (`Tracks`). The last is the
reason why a snapshot that was taken before a delta and merged after it loses
nothing; it is stated for one uid (`Mentions`, `Arrived`), which takes the place of the
fold over the snapshots.

**ClusterRegistry**, any finite sets of connects, lookups and leavers. A flight
that is not settled is the current one or cancelled, and the current one is of
the present epoch (`Tracked`): so a connect that passes the check of the cancel flag
under the map's lock started after the last departure. `StaysLeft` is about these
lazy connects; `insert_connected` makes no such check. Each running flight has
exactly one worker (`Workers`), each settled current flight somebody who will
forget it (`Settler`). `Followed`, which holds until a departure overtakes a connect,
carries the index. `NeverWedged` is an action property of the same invariant.

**LogStream**, any number of lines, non-decreasing timestamps, tail, buffer, batch
and budgets. Three invariants, each resting on the one before: `OwnedInv` (types;
which stage of the pipe can still produce something; who holds which handle;
that a followed source has a live stream, a start or a pending interruption),
`OrderInv` (the resume points of panel and reader are not below the timestamp of
any line passed on, and the lines ascend along the pipe) and `GapInv` (each line is linked to the one before it
across the seams panel | frames | queue | reader, where a link says that nothing
between them could have been returned by an open, or that a loss mark
separates them). Instead of every conjunct for every action, lemma `Kinds` shows
that each step of the specification is of one of fourteen kinds (reads, emits,
drops, forwards, arrives, ...), and each invariant is shown for the kinds. The
length of a run of lines, a CHOOSE in the model, is characterised by a
least-counterexample argument (`LeastNatural`, from the well-foundedness of `<`),
which takes the place of an induction; `AgentTurnProofs` uses the same argument.

**PortForwards**, any sets of forwards and commands, any number of restarts. As
long as nothing crossed (`raced`), every pin is in the file, or in a snapshot that
is newer than every pending one without it, or its command is still to take one
(`Saved`); `Erased` is the same for what is no longer pinned. `KeepsListening` uses that
a pin in memory is what the operator made it (`Remembered`), which is what
`stop_cluster_forwards` reads.

**AgentTurn**, any number of sends, tool calls, rounds and retries. As long as no
cancel took a claim (`hist.stolen`): at most one command holds the claim, and
never beside a stored handle, and a loop is active exactly if the gate has its
handle (`Gated`). `Screened` and `Asked` tie the panel and the approvals to the one
loop. This much (`IInv`) needs nothing of what is in the transcript.

The other theorems are about its contents, for transcripts, logs and call lists of
any length. What `FlattenSeq`, `Picked` and the CHOOSEs of the model return is
characterised once: the running concatenations of a sequence of sequences exist and
are what `FlattenSeq` computes (`FlattenSteps`, by least counterexample), so a set of
sequences that is closed under concatenation and has every part has the whole
(`FlattenIn`), and every part is found in it (`FlattenSplit`). A transcript is
*paired* if each tool message is in the run behind a call it answers and each call has
an answer in its run, and *fit* if no call is made twice and none answered twice.
Paired and fit transcripts are well formed (`FitIsWellFormed`). The repair returns a
paired transcript whatever it is given (`RepairPairs`), leaves a paired one as it is
(`RepairIdentity`), keeps what is fit (`RepairFit`), loses only tool messages
(`RepairElements`) and makes a note up only for a call without an answer further on
(`RepairNotes`). A cut that does not fall in front of a tool message cuts no result
off from its call (`OwnedSplit`); the cut of a compaction lies within the transcript
(`CompactionCutFacts`), and the fold repairs what it leaves. A message
appended to the log is appended to what a reload makes of it (`BodyAppend`), a marker
replaces it (`BodyMark`).

The invariant of the system is `TInv`. `TTypes`, `Shape` and `Strays` hold always: every
tool message is behind a call it answers, the cut of a compaction under way is still
in the transcript, and a command that a closed runtime left behind is remembered in
`hist.strayed`. A call may be *without* an answer, since a turn can end with an answer
that was cut off; so a transcript is not paired at all times, only between the repair
at the top of a round and the request (`AtRequest`), which is what the repair is for.
`Tidy` holds while the chat is `Undisturbed`: no free call was ever seen in the
transcript or the log, a logged result is found by every reload (`Sound`); a loop that
waits for tools, or will push an answer, has calls that are new to the transcript, and
one that logs results has calls that the log does not answer yet (`AtCalls`); what a
loop is to push is in the log (`AtNotice`); what its last request carried was asked,
and until the answer is pushed only user messages came after it (`AtAnswer`); each
message but the tool results is in the log or its send is about to log it (`Logged`); a
gate that is free means that every message was asked, cut off, or queued behind the
last request of a turn that failed or hit the cap (`Given`). `RequestWellFormed` follows
from `AtRequest` and `Sound`, `ReloadIsFaithful` from `Shape`, `Sound` and `Logged`,
`NoMessageAbandoned` from `Given` and `Gated`. That the results go into the transcript
with their call in one lock hold is what keeps them behind it; that the end of a turn
looks for queued messages in the critical section that releases the gate is what makes
`Given` inductive for a turn that ends with an answer.

The theorems are silent about a chat after a cancel hit a claim, a manual compaction
folded the transcript under a turn, or a leftover of a closed runtime ran on beside the
reopened one (`PanelIsTrue` only about the first, and about closed chats).

Assumptions are the named `ASSUME`s of the modules, which TLC evaluates in every
run: `NoRow` is not a row, bounds are naturals (positive where a zero would
leave no queue, no budget or no entry), `BadRows` are rows, careful views, tables
and the pin have different names, as have connects, lookups and leavers, and as have
the forwards and "none"; the callers of the registry and the tool calls are
finitely many; a probe is shorter than its interval; timestamps do not decrease.

Not proved:

* liveness (`Converges`, `ForwarderExits`, `IdleWatcherIsDropped`,
  `EvictedEntryIsReleased`, `VerdictReachesGate`, `PanelLearns`, `SessionEnds`,
  `SpinnerStops`, `TurnEnds`, `EveryLineSettles`): fairness is out of the provers'
  reach;
* `SubscriberKeepsWatcher` with tables, which TLC refutes (`slots_table`), and the
  count theorems beyond the first entry, which are false there.

## 6. Abstractions to know about

Rows are values without content; a row that fails to serialise is a member of
`BadRows`. Durations are steps that may take any time, except the probe's.
Emit failures, logging and the search fan-out are left out. The kube-rs stream
never ends by itself. A lazy connect is one step in `KindSlots` and `AutoReconnect`.
InitDone may be held back for ever if more than the cap changes between any two
drains (hazard at `watcher.rs:413`); no property covers it because it depends on
rates.

Every append to the session log succeeds and is whole: ignored append errors, and a
last line that a power loss tore and the next append is glued to
(`session/mod.rs:364-379`, `446-457`), are not modelled.

Agent messages have no text: a message is its role, the send it came from and
the tool calls it makes or answers. A log line is its number and timestamp.

## 7. Not modelled

Wire formats and parsing (providers, MCP, OAuth, kubeconfig, Helm releases),
projections of resources to rows, RBAC queries, drawing, preferences, terminals,
the updater and platform shims: sequential code or I/O whose faults a unit test
reaches, or child processes. The metrics slot repeats the slot protocol of
`KindSlots`. Global forwarding and its privileged helper keep state worth modelling
and are next in the plan. The `note` of each component in `PROJECT.json` says what
of it is in a module.

## 8. Plan

Done: `DirtyChannel`, `ResourceWatcher`, `DeltaFeed`, `KindSlots`, `HealthMonitor`,
`AutoReconnect`, `TableView`, `ClusterRegistry`, `LogStream`, `PortForwards`,
`Transcript`, `AgentTurn`, and eight proof modules.

Next, in this order:

1. Global forwarding: address allocation and the helper's lease of it.
2. The metrics slot with its forwarder, and the helm watchers over the same
   channel.
3. `KindSlots` composed with `TableView`: the table over a slot that may be torn
   down and rebuilt; `ClusterRegistry` composed with `KindSlots` instead of its
   one-step connect.
