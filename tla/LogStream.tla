------------------------------ MODULE LogStream ------------------------------
(***************************************************************************)
(* One source of the log view, end to end: the reader task of a LogStream  *)
(* and its broadcast (crates/core/src/logs.rs), the forwarder and the      *)
(* registry of streams with the teardowns that empty it                    *)
(* (crates/app/src/commands.rs, state.rs), and the panel that starts,      *)
(* follows, resumes and stops the stream                                   *)
(* (ui/src/components/log/LogView.tsx).                                    *)
(*                                                                         *)
(* Lines are numbered as the container writes them; line k carries the     *)
(* timestamp Stamp[k], and 0 stands for "no timestamp yet".  Sleeps are    *)
(* the time between two steps.                                             *)
(***************************************************************************)
EXTENDS Integers, Sequences, FiniteSets

CONSTANTS MaxLines,      \* bound: lines the container writes
          Stamp,         \* the timestamp of each line
          TailLines,     \* the operator's tail: a number of lines, or NoTail
          DefaultTail,   \* DEFAULT_TAIL_LINES
          LineBuffer,    \* LINE_BUFFER
          BatchMax,      \* LOG_BATCH_MAX
          MaxWait,       \* MAX_WAIT_ATTEMPTS
          MaxDead,       \* MAX_DEAD_RECONNECTS
          MaxTransient,  \* MAX_TRANSIENT_RETRIES
          Ids,           \* stream ids, reused once nothing refers to one
          MaxFrames,     \* bound: frames on their way to the panel
          MaxFaults,     \* bound: exits, outages, wedges, sleeps, breaks, evictions
          MaxToggles     \* bound: times the source leaves the panel

NoTail == 0
Lines == 1..MaxLines

ASSUME StampAssumption ==
  /\ MaxLines \in Nat \ {0} /\ Stamp \in [Lines -> Nat \ {0}]
  /\ \A i, j \in Lines : i <= j => Stamp[i] <= Stamp[j]
ASSUME LimitsAssumption ==
  /\ TailLines \in Nat /\ DefaultTail \in Nat \ {0}
  /\ LineBuffer \in Nat \ {0} /\ BatchMax \in Nat \ {0}
  /\ {MaxWait, MaxDead, MaxTransient, MaxFaults, MaxToggles} \subseteq Nat
  /\ Ids \subseteq Nat \ {0} /\ MaxFrames \in Nat \ {0}

VARIABLES
  previous,  \* the source asks for the previous instance (LogViewSource)
  written,   \* lines written so far
  base,      \* those of them written by earlier instances of the container
  cont,      \* the container: "starting", "running", "restarting", "done", "gone"
  net,       \* does the apiserver answer?
  entry,     \* the ClusterEntry: "ok", "wedged", "unavailable", "none"
  evicting,  \* evict_cluster_entry has dropped the logs, not yet the entry
  reader,    \* the latest stream's reader task
  bus,       \* its broadcast channel, and the forwarder at the other end
  chan,      \* frames on their way to the panel
  sid,       \* its id
  logs,      \* AppState::logs, the ids in it
  stops,     \* stop_log_stream calls on their way
  call,      \* the start_log_stream call under way
  view,      \* the panel: mounted, wanted, starting, run, intr, status, ts
  shown,     \* lines shown since the source joined, 0 marks a reported loss
  cut,       \* lines no open could return: outside its tail, or of an old instance
  strayed,   \* the source left the panel while its start was under way
  orphan,    \* the reader is bound to an entry that has been removed
  faults, toggles

server == <<previous, written, base, cont, net>>
cluster == <<entry, evicting>>
pipe == <<reader, bus, chan, sid>>
registry == <<logs, stops, call>>
history == <<shown, cut, strayed, orphan>>
vars == <<server, cluster, pipe, registry, view, history, faults, toggles>>

Statuses == {"none", "starting", "waiting", "streaming", "ended", "error"}
NoReader == [pc |-> "none", first |-> FALSE, last |-> 0, skip |-> 0, pos |-> 0,
             eof |-> FALSE, end |-> 0, produced |-> FALSE, waits |-> 0, trans |-> 0,
             dead |-> 0, unreach |-> 0, stuck |-> FALSE]
NoBus == [q |-> <<>>, lagged |-> FALSE, closed |-> FALSE, fwd |-> FALSE]
NoView == [mounted |-> TRUE, wanted |-> FALSE, starting |-> FALSE, run |-> 0,
           intr |-> FALSE, status |-> "none", ts |-> 0]
NoCall == [pc |-> "none", resume |-> FALSE, after |-> 0]
Event(k, n) == [kind |-> k, line |-> n]
Frame(k, ls) == [kind |-> k, lines |-> ls]

Final == {"ended", "interrupted"}
Alive == reader.pc \in {"open", "pump", "probe"}

(* The pipeline is well formed, a queue never exceeds its limit, and no     *)
(* retry budget is overrun.                                                 *)
TypeOK ==
  /\ previous \in BOOLEAN /\ written \in 0..MaxLines /\ base \in 0..written
  /\ cont \in {"starting", "running", "restarting", "done", "gone"} /\ net \in BOOLEAN
  /\ entry \in {"ok", "wedged", "unavailable", "none"}
  /\ evicting \in BOOLEAN
  /\ reader.pc \in {"none", "open", "pump", "probe", "over"}
  /\ reader.pos \in 0..written /\ reader.end \in 0..written
  /\ reader.waits <= MaxWait /\ reader.trans <= MaxTransient
  /\ reader.dead <= MaxDead /\ reader.unreach <= MaxTransient
  /\ Len(bus.q) <= LineBuffer
  /\ \A i \in 1..Len(chan) : Len(chan[i].lines) <= BatchMax
  /\ logs \subseteq Ids /\ stops \subseteq Ids /\ sid \in Ids \cup {0}
  /\ call.pc \in {"none", "sent", "bound", "reply", "err"}
  /\ view.status \in Statuses /\ view.run \in Ids \cup {0}
  /\ cut \subseteq Lines /\ faults \in 0..MaxFaults /\ toggles \in 0..MaxToggles

Init ==
  /\ \/ previous = FALSE /\ written = 0 /\ base = 0 /\ cont = "starting"
     \/ previous = TRUE /\ written = MaxLines /\ base = MaxLines /\ cont = "running"
  /\ net = TRUE /\ entry = "ok" /\ evicting = FALSE
  /\ reader = NoReader /\ bus = NoBus /\ chan = <<>> /\ sid = 0
  /\ logs = {} /\ stops = {} /\ call = NoCall
  /\ view = NoView
  /\ shown = <<>> /\ cut = {} /\ strayed = FALSE /\ orphan = FALSE
  /\ faults = 0 /\ toggles = 0

-----------------------------------------------------------------------------
(* The pod and the way to it. *)
Fault == faults < MaxFaults /\ faults' = faults + 1

Write ==
  /\ cont = "running" /\ written < MaxLines /\ written' = written + 1
  /\ UNCHANGED <<previous, base, cont, net, cluster, pipe, registry, view, history, faults, toggles>>

(* The end of an instance is the end of a session that follows it. *)
Settle(c) ==
  /\ cont' = c
  /\ reader' = IF reader.pc = "pump" /\ ~reader.eof /\ cont = "running"
                 THEN [reader EXCEPT !.eof = TRUE, !.end = written] ELSE reader
  /\ base' = IF c = "running" THEN written ELSE base
  /\ UNCHANGED <<previous, written, net, cluster, bus, chan, sid, registry, view, history,
                 toggles>>

ContainerStarts == cont = "starting" /\ UNCHANGED faults /\ Settle("running")
ContainerExits == cont = "running" /\ Fault /\ \E c \in {"restarting", "done"} : Settle(c)
ContainerRestarts == cont = "restarting" /\ UNCHANGED faults /\ Settle("running")
PodDeleted == cont # "gone" /\ Fault /\ Settle("gone")

NetDown ==
  /\ net /\ Fault /\ net' = FALSE
  /\ UNCHANGED <<previous, written, base, cont, cluster, pipe, registry, view, history, toggles>>

NetUp ==
  /\ ~net /\ net' = TRUE
  /\ UNCHANGED <<previous, written, base, cont, cluster, pipe, registry, view, history, faults, toggles>>

(* The connection pool of the entry's client goes half-open: what is bound  *)
(* to it neither answers nor fails.                                         *)
Wedge ==
  /\ entry = "ok" /\ Fault /\ entry' = "wedged"
  /\ reader' = IF Alive /\ ~orphan THEN [reader EXCEPT !.stuck = TRUE] ELSE reader
  /\ UNCHANGED <<server, evicting, bus, chan, sid, registry, view, history, toggles>>

-----------------------------------------------------------------------------
(* The broadcast channel (tokio): a full buffer drops its oldest event and *)
(* the receiver learns that it lagged.                                     *)
PublishSilently(b, e) == [b EXCEPT !.q = IF Len(@) < LineBuffer THEN Append(@, e)
                                         ELSE Append(Tail(@), e)]
Publish(b, e) ==
  IF Len(b.q) < LineBuffer THEN [b EXCEPT !.q = Append(@, e)]
  ELSE [b EXCEPT !.q = Append(Tail(@), e), !.lagged = TRUE]

(* LogStream::drop: the reader is aborted and the channel closes.          *)
Over == [NoReader EXCEPT !.pc = "over"]
Close(b) == [b EXCEPT !.closed = TRUE]

(* AppState::drop_cluster_logs *)
DropLogs ==
  /\ logs' = {}
  /\ reader' = IF sid \in logs THEN Over ELSE reader
  /\ bus' = IF sid \in logs THEN Close(bus) ELSE bus

(* tear_down_unhealthy, once the health monitor has given up on the entry. *)
Unhealthy ==
  /\ entry = "wedged" \/ (entry = "ok" /\ ~net)
  /\ entry' = "unavailable"
  /\ UNCHANGED <<server, evicting, pipe, registry, view, history, faults, toggles>>

(* on_system_resumed: the logs go first, then the entry is gated.          *)
Slept ==
  /\ entry \in {"ok", "wedged"} /\ Fault
  /\ DropLogs /\ entry' = "unavailable"
  /\ UNCHANGED <<server, evicting, chan, sid, stops, call, view, history, toggles>>

(* evict_cluster_entry and drop_cluster_watchers: the logs, then (after    *)
(* the watchers) the entry itself.                                         *)
EvictLogs ==
  /\ ~evicting /\ evicting' = TRUE /\ DropLogs
  /\ UNCHANGED <<server, entry, chan, sid, stops, call, view, history, toggles>>

Reconnect == entry = "unavailable" /\ UNCHANGED faults /\ EvictLogs
Leave == entry \in {"ok", "wedged"} /\ Fault /\ EvictLogs

EvictEntry ==
  /\ evicting /\ evicting' = FALSE /\ entry' = "none"
  /\ orphan' = (orphan \/ Alive)
  /\ UNCHANGED <<server, pipe, registry, view, shown, cut, strayed, faults, toggles>>

-----------------------------------------------------------------------------
(* The reader task: run_live and open_stream, or run_previous.             *)
Finish(kind) ==
  /\ bus' = Publish(bus, Event(kind, 0))
  /\ reader' = Over

(* A retry's Waiting event changes the status line only and is left out.   *)
Retry(r) == reader' = r /\ UNCHANGED bus

(* Retries against an unreachable apiserver take minutes; the reply to     *)
(* start_log_stream is with the panel by then.                             *)
Interrupt == call.pc \notin {"bound", "reply"} /\ Finish("interrupted")

TailForOpen(first) ==
  IF first THEN TailLines ELSE IF TailLines = NoTail THEN DefaultTail ELSE TailLines

(* The last line an open leaves out: those of earlier instances, and those *)
(* beyond the tail.                                                        *)
Floor ==
  LET n == IF TailForOpen(reader.first) = NoTail THEN written ELSE TailForOpen(reader.first)
  IN  IF previous THEN 0 ELSE IF written - n > base THEN written - n ELSE base

(* log_stream succeeds: a terminated instance is served to its end.        *)
OpenOk ==
  /\ reader.pc = "open" /\ net
  /\ IF previous THEN base > 0 ELSE cont \in {"running", "restarting", "done"}
  /\ reader' = [reader EXCEPT !.pc = "pump", !.first = FALSE, !.pos = Floor,
                  !.skip = IF previous THEN 0 ELSE reader.last,
                  !.eof = previous \/ cont # "running",
                  !.end = IF previous THEN base ELSE IF cont # "running" THEN written ELSE 0,
                  !.produced = FALSE, !.waits = 0, !.trans = 0]
  /\ cut' = cut \cup {k \in 1..Floor : Stamp[k] > reader.last}
  /\ UNCHANGED bus

OpenStarting ==
  /\ reader.pc = "open" /\ ~previous /\ net /\ cont = "starting"
  /\ IF reader.waits < MaxWait THEN Retry([reader EXCEPT !.waits = @ + 1]) ELSE Finish("ended")
  /\ UNCHANGED cut

OpenTransient ==
  /\ reader.pc = "open" /\ ~previous /\ ~net
  /\ IF reader.trans < MaxTransient THEN Retry([reader EXCEPT !.trans = @ + 1]) ELSE Interrupt
  /\ UNCHANGED cut

(* The pod is gone; or run_previous, for which every open error is final.  *)
OpenFatal ==
  /\ reader.pc = "open"
  /\ IF previous THEN ~net ELSE net /\ cont = "gone"
  /\ Finish("ended") /\ UNCHANGED cut

SkippedBefore(k) == reader.skip # 0 /\ Stamp[k] < reader.skip
Skipped(k) == reader.skip # 0 /\ Stamp[k] <= reader.skip

ReadLine ==
  /\ reader.pc = "pump" /\ net
  /\ reader.pos < (IF reader.eof THEN reader.end ELSE written)
  /\ LET k == reader.pos + 1
     IN  IF Skipped(k)
           THEN reader' = [reader EXCEPT !.pos = k] /\ UNCHANGED bus
           ELSE /\ reader' = [reader EXCEPT !.pos = k, !.skip = 0, !.last = Stamp[k],
                                !.produced = TRUE]
                /\ bus' = Publish(bus, Event("line", k))
  /\ UNCHANGED cut

(* The session is over: at its end, or broken on the way.                  *)
EndSession ==
  /\ IF previous THEN Finish("ended")
     ELSE /\ reader' = [reader EXCEPT !.pc = "probe", !.skip = 0, !.pos = 0, !.eof = FALSE,
                          !.end = 0, !.dead = IF reader.produced THEN 0 ELSE @]
          /\ UNCHANGED bus
  /\ UNCHANGED cut

ReadClosed == reader.pc = "pump" /\ reader.eof /\ reader.pos = reader.end /\ EndSession
ReadError == reader.pc = "pump" /\ ~net /\ EndSession

Reopened(r) == [r EXCEPT !.pc = "open", !.produced = FALSE]

ProbeUnreachable ==
  /\ reader.pc = "probe" /\ ~net
  /\ IF reader.unreach < MaxTransient
       THEN Retry(Reopened([reader EXCEPT !.unreach = @ + 1])) ELSE Interrupt
  /\ UNCHANGED cut

ProbeAlive ==
  /\ reader.pc = "probe" /\ net /\ cont \in {"starting", "running", "restarting"}
  /\ IF reader.dead < MaxDead
       THEN Retry(Reopened([reader EXCEPT !.unreach = 0,
                              !.dead = IF reader.produced THEN @ ELSE @ + 1]))
       ELSE Finish("ended")
  /\ UNCHANGED cut

ProbeDone ==
  /\ reader.pc = "probe" /\ net /\ cont \in {"done", "gone"}
  /\ Finish("ended") /\ UNCHANGED cut

Reader ==
  /\ ~reader.stuck
  /\ \/ OpenOk \/ OpenStarting \/ OpenTransient \/ OpenFatal \/ ReadLine \/ ReadClosed
     \/ ReadError \/ ProbeUnreachable \/ ProbeAlive \/ ProbeDone
  /\ UNCHANGED <<server, cluster, chan, sid, registry, view, shown, strayed, orphan, faults, toggles>>

(* The server or a proxy cuts a stream that has nothing wrong with it.     *)
Break ==
  /\ reader.pc = "pump" /\ ~reader.stuck /\ net /\ Fault /\ EndSession
  /\ UNCHANGED <<server, cluster, chan, sid, registry, view, shown, strayed, orphan, toggles>>

-----------------------------------------------------------------------------
(* spawn_log_forwarder: a run of lines travels as one frame; a final event *)
(* or the closing of the channel ends the task.                            *)
Run(q) ==
  LET n == CHOOSE m \in 0..BatchMax :
             /\ m <= Len(q) /\ \A i \in 1..m : q[i].kind = "line"
             /\ m = BatchMax \/ m = Len(q) \/ q[m + 1].kind # "line"
  IN  [i \in 1..n |-> q[i].line]

ForwardLagged ==
  /\ bus.lagged
  /\ chan' = Append(chan, Frame("lagged", <<>>)) /\ bus' = [bus EXCEPT !.lagged = FALSE]

ForwardLines ==
  /\ ~bus.lagged /\ bus.q # <<>> /\ Head(bus.q).kind = "line"
  /\ LET ls == Run(bus.q)
     IN  /\ chan' = Append(chan, Frame("lines", ls))
         /\ bus' = [bus EXCEPT !.q = SubSeq(@, Len(ls) + 1, Len(@))]

ForwardFinal ==
  /\ ~bus.lagged /\ bus.q # <<>> /\ Head(bus.q).kind \in Final
  /\ chan' = Append(chan, Frame(Head(bus.q).kind, <<>>))
  /\ bus' = [bus EXCEPT !.q = Tail(@), !.fwd = FALSE]

ForwardClosedSilently ==
  /\ ~bus.lagged /\ bus.q = <<>> /\ bus.closed
  /\ UNCHANGED chan /\ bus' = [bus EXCEPT !.fwd = FALSE]

ForwardClosed ==
  /\ ~bus.lagged /\ bus.q = <<>> /\ bus.closed
  /\ chan' = Append(chan, Frame("interrupted", <<>>)) /\ bus' = [bus EXCEPT !.fwd = FALSE]

Forward ==
  /\ bus.fwd /\ Len(chan) < MaxFrames
  /\ ForwardLagged \/ ForwardLines \/ ForwardFinal \/ ForwardClosed
  /\ UNCHANGED <<server, cluster, reader, sid, registry, view, history, faults, toggles>>

-----------------------------------------------------------------------------
(* The command: available_entry, LogStream::start and the forwarder, then  *)
(* the registration.  A removed entry is connected anew (AppState::entry). *)
Unused == Ids \ (logs \cup stops \cup {view.run})

Bind ==
  /\ call.pc = "sent"
  /\ IF entry = "unavailable" \/ (entry = "none" /\ ~net)
       THEN call' = [call EXCEPT !.pc = "err"] /\ UNCHANGED <<pipe, entry, orphan>>
       ELSE /\ Unused # {} /\ sid' = CHOOSE s \in Unused : \A t \in Unused : s <= t
            /\ entry' = IF entry = "none" THEN "ok" ELSE entry
            /\ reader' = [NoReader EXCEPT !.pc = "open", !.first = call.after = 0,
                            !.last = IF previous THEN 0 ELSE call.after,
                            !.stuck = entry = "wedged"]
            /\ bus' = [NoBus EXCEPT !.fwd = TRUE] /\ chan' = <<>>
            /\ call' = [call EXCEPT !.pc = "bound"] /\ orphan' = FALSE
  /\ UNCHANGED <<server, evicting, logs, stops, view, shown, cut, strayed, faults, toggles>>

Insert ==
  /\ call.pc = "bound" /\ call' = [call EXCEPT !.pc = "reply"]
  /\ logs' = logs \cup {sid}
  /\ UNCHANGED <<server, cluster, pipe, stops, view, history, faults, toggles>>

(* stop_log_stream *)
Stop ==
  /\ \E s \in stops :
       /\ stops' = stops \ {s} /\ logs' = logs \ {s}
       /\ IF s = sid /\ s \in logs THEN reader' = Over /\ bus' = Close(bus)
          ELSE UNCHANGED <<reader, bus>>
  /\ UNCHANGED <<server, cluster, chan, sid, call, view, history, faults, toggles>>

-----------------------------------------------------------------------------
(* The panel.  A closed handle has a no-op handler: what its stream still   *)
(* sends is never seen, and only its place in the registry matters.         *)
Detached(s) ==
  IF s = sid THEN reader' = NoReader /\ bus' = NoBus /\ chan' = <<>> /\ sid' = 0
  ELSE UNCHANGED pipe

(* startOneStream, up to the invoke.                                        *)
Started(v, resume) ==
  /\ view' = [v EXCEPT !.starting = TRUE, !.status = "starting",
                       !.intr = IF resume THEN FALSE ELSE @]
  /\ call' = [pc |-> "sent", resume |-> resume, after |-> IF resume THEN v.ts ELSE 0]
  /\ strayed' = FALSE

(* The reconcile effect for a source that is wanted.                        *)
ReconciledWhileStarting(v) ==
  IF v.run # 0 \/ v.intr THEN view' = v /\ UNCHANGED <<call, strayed>>
  ELSE Started(v, FALSE)
Reconciled(v) ==
  IF v.run # 0 \/ v.starting \/ v.intr THEN view' = v /\ UNCHANGED <<call, strayed>>
  ELSE Started(v, FALSE)

Want ==
  /\ view.mounted /\ ~view.wanted /\ Reconciled([view EXCEPT !.wanted = TRUE])
  /\ UNCHANGED <<server, cluster, pipe, logs, stops, shown, cut, orphan, faults, toggles>>

(* Another source joined or left: the effect runs over this one too.        *)
Again ==
  /\ view.mounted /\ view.wanted /\ Reconciled(view) /\ view' # view
  /\ UNCHANGED <<server, cluster, pipe, logs, stops, shown, cut, orphan, faults, toggles>>

Unwant ==
  /\ view.mounted /\ view.wanted /\ toggles < MaxToggles /\ toggles' = toggles + 1
  /\ view' = [view EXCEPT !.wanted = FALSE, !.run = 0, !.status = "none"]
  /\ stops' = stops \cup ({view.run} \ {0}) /\ Detached(view.run)
  /\ shown' = <<>> /\ strayed' = (strayed \/ view.starting)
  /\ UNCHANGED <<server, cluster, logs, call, cut, orphan, faults>>

Unmount ==
  /\ view.mounted
  /\ view' = [NoView EXCEPT !.mounted = FALSE]
  /\ stops' = stops \cup ({view.run} \ {0}) /\ Detached(view.run)
  /\ shown' = <<>>
  /\ UNCHANGED <<server, cluster, logs, call, cut, strayed, orphan, faults, toggles>>

(* resumeInterrupted: the epoch effect and the timer.  Whether the store    *)
(* calls the cluster degraded by then is left open: it may be late.         *)
Resume ==
  /\ view.mounted /\ view.intr
  /\ IF view.wanted
       THEN ~view.starting /\ Started(view, TRUE)
       ELSE view' = [view EXCEPT !.intr = FALSE] /\ UNCHANGED <<call, strayed>>
  /\ UNCHANGED <<server, cluster, pipe, logs, stops, shown, cut, orphan, faults, toggles>>

(* The invoke resolves.                                                     *)
ReplyUnchecked ==
  /\ call.pc = "reply" /\ call' = NoCall
  /\ view' = IF view.mounted THEN [view EXCEPT !.starting = FALSE, !.run = sid] ELSE view
  /\ UNCHANGED <<server, cluster, pipe, logs, stops, history, faults, toggles>>

Reply ==
  /\ call.pc = "reply" /\ call' = NoCall
  /\ IF view.mounted /\ view.wanted
       THEN /\ view' = [view EXCEPT !.starting = FALSE, !.run = sid,
                          !.status = IF @ = "starting" THEN "streaming" ELSE @]
            /\ UNCHANGED <<stops, pipe>>
       ELSE /\ view' = [view EXCEPT !.starting = FALSE]
            /\ stops' = stops \cup {sid} /\ Detached(sid)
  /\ UNCHANGED <<server, cluster, logs, history, faults, toggles>>

ReplyErrorForgotten ==
  /\ call.pc = "err" /\ call' = NoCall
  /\ view' = [view EXCEPT !.starting = FALSE]
  /\ UNCHANGED <<server, cluster, pipe, logs, stops, history, faults, toggles>>

ReplyError ==
  /\ call.pc = "err" /\ call' = NoCall
  /\ view' = IF ~view.mounted \/ ~view.wanted THEN [view EXCEPT !.starting = FALSE]
             ELSE IF call.resume
               THEN [view EXCEPT !.starting = FALSE, !.intr = TRUE, !.status = "waiting"]
               ELSE [view EXCEPT !.starting = FALSE, !.status = "error"]
  /\ UNCHANGED <<server, cluster, pipe, logs, stops, history, faults, toggles>>

Streaming(st) == IF st \in {"none", "waiting", "starting"} THEN "streaming" ELSE st

(* The handler of a frame that reaches a wanted source.                     *)
Handled(f) ==
  \/ /\ f.kind = "interrupted"
     /\ view' = [view EXCEPT !.intr = TRUE, !.run = 0, !.status = "waiting"]
     /\ stops' = stops \cup ({view.run} \ {0}) /\ UNCHANGED shown
  \/ /\ f.kind = "lines"
     /\ view' = [view EXCEPT !.ts = Stamp[f.lines[Len(f.lines)]], !.status = Streaming(@)]
     /\ shown' = shown \o f.lines /\ UNCHANGED stops
  \/ /\ f.kind = "lagged" /\ shown' = Append(shown, 0) /\ UNCHANGED <<view, stops>>
  \/ /\ f.kind = "ended" /\ view' = [view EXCEPT !.status = "ended"]
     /\ UNCHANGED <<stops, shown>>

Deliver ==
  /\ chan # <<>> /\ chan' = Tail(chan)
  /\ IF view.mounted /\ view.wanted THEN Handled(Head(chan))
     ELSE UNCHANGED <<view, stops, shown>>
  /\ UNCHANGED <<server, cluster, reader, bus, sid, logs, call, cut, strayed, orphan, faults, toggles>>

-----------------------------------------------------------------------------
Environment ==
  \/ Write \/ ContainerStarts \/ ContainerExits \/ ContainerRestarts \/ PodDeleted
  \/ NetDown \/ NetUp \/ Wedge \/ Break
Cluster == Unhealthy \/ Slept \/ Reconnect \/ Leave \/ EvictEntry
Panel == Want \/ Again \/ Unwant \/ Unmount \/ Resume \/ Reply \/ ReplyError \/ Deliver
Next == Environment \/ Cluster \/ Reader \/ Forward \/ Bind \/ Insert \/ Stop \/ Panel

Spec == Init /\ [][Next]_vars

(* Tasks and handlers run; an outage ends; the health monitor finds a      *)
(* wedged client and the panel's reconnect evicts it (HealthMonitor,       *)
(* AutoReconnect); the retry timer fires.                                  *)
Fairness ==
  /\ WF_vars(Reader) /\ WF_vars(Forward) /\ WF_vars(Bind) /\ WF_vars(Insert) /\ WF_vars(Stop)
  /\ WF_vars(Reply) /\ WF_vars(ReplyError) /\ WF_vars(Deliver) /\ WF_vars(Resume)
  /\ WF_vars(NetUp) /\ WF_vars(Unhealthy) /\ WF_vars(Reconnect) /\ WF_vars(EvictEntry)

LiveSpec == Spec /\ Fairness

-----------------------------------------------------------------------------
(* Properties. *)

(* Reconnects and resumes re-request an overlapping window, yet the panel   *)
(* never shows a line twice or out of order (run_live's skip_through and    *)
(* last_ts, resume_after, LogView's lastTsRef).                             *)
InOrder(s) == \A i, j \in 1..Len(s) : i < j /\ s[i] # 0 /\ s[j] # 0 => s[i] < s[j]
NoLineTwice == ~previous => InOrder(shown)

(* The same of every source, the previous instance's included: "skips the   *)
(* overlap instead of re-tailing" (commands.rs, start_log_stream).          *)
NoLineTwiceAnySource == InOrder(shown)

(* Between two lines shown one after the other nothing is missing, except   *)
(* lines no open could return and lines that share the timestamp of the one *)
(* before them: a loss in the broadcast is always reported in between.      *)
GapsAreExplained ==
  ~previous =>
    \A i \in 1..(Len(shown) - 1) :
      shown[i] # 0 /\ shown[i + 1] # 0 =>
        \A k \in (shown[i] + 1)..(shown[i + 1] - 1) :
          k \in cut \/ Stamp[k] = Stamp[k - 1]

(* A second stream is never opened for a source while the first can still   *)
(* send to the panel (startingRef, interruptedRef, reconcileStreams).       *)
OneStreamPerSource ==
  call.pc = "sent" => ~Alive /\ ~bus.fwd /\ chan = <<>>

(* Every registered stream has somebody who will stop it: the panel holds   *)
(* its handle, or is about to receive it, or has asked for the stop.        *)
NoStreamLeaked ==
  \A s \in logs : \/ s = view.run \/ s \in stops
                  \/ s = sid /\ call.pc = "reply"

(* A source that is shown as followed is followed: its reader runs, or a    *)
(* final frame is on its way (unless the source left while its stream was    *)
(* being started).                                                          *)
FollowedMeansAlive ==
  /\ view.mounted /\ view.wanted /\ ~view.intr /\ ~view.starting /\ ~strayed
  /\ view.status \in {"streaming", "waiting"}
  => Alive \/ bus.fwd \/ chan # <<>>

(* Streams are owned: one per source, none that nobody will stop, and none  *)
(* shown as followed that is dead.                                          *)
StreamsAreOwned == TypeOK /\ OneStreamPerSource /\ NoStreamLeaked /\ FollowedMeansAlive

(* Every line the container writes reaches the panel, is beyond the reach   *)
(* of any open, or the source has ended, failed or left.                    *)
Delivered(k) ==
  \/ view.ts >= Stamp[k] \/ k \in cut
  \/ view.status \in {"ended", "error"} \/ ~view.wanted \/ ~view.mounted
  \/ strayed \/ orphan
EveryLineSettles == \A k \in Lines : written >= k ~> Delivered(k)
=============================================================================
