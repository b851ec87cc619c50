-------------------------- MODULE LogStreamProofs --------------------------
(***************************************************************************)
(* The log view: every stream is owned, no line is shown twice or out of   *)
(* order, and every gap is explained, for any number of lines and any      *)
(* timestamps, any tail, buffer and batch sizes and any retry budgets.     *)
(***************************************************************************)
EXTENDS LogStream, SequenceTheorems, WellFoundedInduction, TLAPS

Readers ==
  [pc : {"none", "open", "pump", "probe", "over"}, first : BOOLEAN, last : Nat, skip : Nat,
   pos : Nat, eof : BOOLEAN, end : Nat, produced : BOOLEAN, waits : 0..MaxWait,
   trans : 0..MaxTransient, dead : 0..MaxDead, unreach : 0..MaxTransient, stuck : BOOLEAN]
Events == [kind : {"line"}, line : Lines] \cup [kind : Final, line : {0}]
Buses == [q : Seq(Events), lagged : BOOLEAN, closed : BOOLEAN, fwd : BOOLEAN]
Frames == [kind : {"lines", "lagged"} \cup Final, lines : Seq(Lines)]
Calls == [pc : {"none", "sent", "bound", "reply", "err"}, resume : BOOLEAN, after : Nat]
Panels == [mounted : BOOLEAN, wanted : BOOLEAN, starting : BOOLEAN, run : Ids \cup {0},
           intr : BOOLEAN, status : Statuses, ts : Nat]

Types ==
  /\ previous \in BOOLEAN /\ written \in 0..MaxLines /\ base \in 0..written
  /\ cont \in {"starting", "running", "restarting", "done", "gone"} /\ net \in BOOLEAN
  /\ entry \in {"ok", "wedged", "unavailable", "none"} /\ evicting \in BOOLEAN
  /\ reader \in Readers /\ reader.pos <= written /\ reader.end <= written
  /\ bus \in Buses /\ Len(bus.q) <= LineBuffer
  /\ chan \in Seq(Frames)
  /\ \A i \in 1..Len(chan) :
       Len(chan[i].lines) <= BatchMax /\ (chan[i].kind = "lines" <=> chan[i].lines # <<>>)
  /\ logs \subseteq Ids /\ stops \subseteq Ids /\ sid \in Ids \cup {0}
  /\ call \in Calls /\ view \in Panels
  /\ shown \in Seq(0..MaxLines) /\ cut \subseteq Lines
  /\ strayed \in BOOLEAN /\ orphan \in BOOLEAN
  /\ faults \in 0..MaxFaults /\ toggles \in 0..MaxToggles

Quiet == ~Alive /\ ~bus.fwd /\ chan = <<>>

(* A final event or frame is the last of its stream. *)
PipeEnds ==
  /\ sid = 0 => Quiet
  /\ ~bus.fwd => ~Alive /\ bus.q = <<>>
  /\ bus.closed => ~Alive
  /\ \A i \in 1..Len(bus.q) : bus.q[i].kind \in Final => i = Len(bus.q) /\ ~Alive
  /\ \A i \in 1..Len(chan) : chan[i].kind \in Final => i = Len(chan) /\ ~bus.fwd
  /\ ~bus.fwd /\ chan # <<>> => chan[Len(chan)].kind \in Final

(* Who holds the handle of a stream that is not over. *)
Handles ==
  /\ view.mounted => (view.starting <=> call.pc # "none")
  /\ ~view.mounted => ~view.wanted /\ ~view.intr /\ ~view.starting
  /\ ~view.wanted => view.run = 0
  /\ view.run = sid \/ call.pc \in {"bound", "reply"} \/ Quiet
  /\ call.pc \in {"sent", "err"} => Quiet /\ ~view.intr
  /\ view.intr => Quiet

(* What the registry holds while a start is under way. *)
Registered ==
  /\ call.pc \in {"bound", "reply"} => sid \in Ids /\ view.run # sid
  /\ call.pc = "bound" => sid \notin logs /\ ~bus.closed /\ ~view.intr
  /\ bus.closed => sid \notin logs
  /\ call.pc \in {"bound", "reply"} =>
       /\ \A i \in 1..Len(bus.q) : bus.q[i].kind # "interrupted"
       /\ \A i \in 1..Len(chan) : chan[i].kind = "interrupted" => bus.closed
  /\ view.intr /\ call.pc = "reply" => sid \notin logs
  /\ view.run # 0 /\ (view.intr \/ view.starting) => view.run \notin logs
  /\ NoStreamLeaked

Followed ==
  /\ view.mounted /\ view.starting /\ ~view.wanted => strayed
  /\ /\ view.mounted /\ view.wanted /\ ~view.intr /\ ~strayed
     /\ call.pc \in {"none", "bound", "reply"} /\ view.status \in {"starting", "streaming", "waiting"}
     => ~Quiet

(* The lines on their way or shown. *)
ShownLines == {shown[i] : i \in 1..Len(shown)} \ {0}
FrameLines(i) == {chan[i].lines[j] : j \in 1..Len(chan[i].lines)}
BusLines == {bus.q[i].line : i \in 1..Len(bus.q)} \ {0}
Sent(l) == l \in ShownLines \/ l \in BusLines \/ \E i \in 1..Len(chan) : l \in FrameLines(i)
Below(A, B) == \A a \in A, b \in B : a < b

Resumes ==
  /\ ~view.wanted => shown = <<>>
  /\ \A l \in ShownLines : Stamp[l] <= view.ts
  /\ call.pc \in {"sent", "err"} => \A l \in ShownLines : Stamp[l] <= call.after
  /\ call.pc # "none" /\ ~call.resume => call.after = 0
  /\ view.mounted /\ view.wanted /\ ~view.intr /\ view.run = 0 /\ ~view.starting => ShownLines = {}

Ascending ==
  /\ InOrder(shown)
  /\ \A i \in 1..Len(chan) : InOrder(chan[i].lines) /\ Below(ShownLines, FrameLines(i)) /\ Below(FrameLines(i), BusLines)
  /\ \A i, j \in 1..Len(chan) : i < j => Below(FrameLines(i), FrameLines(j))
  /\ \A i, j \in 1..Len(bus.q) : i < j /\ bus.q[i].line # 0 /\ bus.q[j].line # 0 => bus.q[i].line < bus.q[j].line
  /\ Below(ShownLines, BusLines)

Reading ==
  /\ Alive => \A l \in Lines : Sent(l) => Stamp[l] <= reader.last
  /\ reader.pc = "pump" /\ reader.skip = 0 => \A l \in Lines : Sent(l) => l <= reader.pos
  /\ reader.pc = "pump" /\ reader.skip # 0 => reader.skip = reader.last

OrderInv == ~previous => Resumes /\ Ascending /\ Reading

(* Nothing is missing between two lines that follow one another, as far as *)
(* the opens could return it; a 0 stands for a reported loss.              *)
Explained(c, a, b) == \A k \in (a + 1)..b : k \in c \/ Stamp[k] = Stamp[k - 1]
Linked(c, a, b) == a # 0 /\ b # 0 => Explained(c, a, b - 1)
FirstOf(f) == IF f.kind = "lines" THEN f.lines[1] ELSE 0
LastOf(f) == IF f.kind = "lines" THEN f.lines[Len(f.lines)] ELSE 0
LastShown == IF shown = <<>> THEN 0 ELSE shown[Len(shown)]
LastFramed == IF chan = <<>> THEN LastShown ELSE LastOf(chan[Len(chan)])
Newest == IF bus.q # <<>> THEN bus.q[Len(bus.q)].line ELSE IF bus.lagged THEN 0 ELSE LastFramed

ShownLinks == \A i \in 1..(Len(shown) - 1) : Linked(cut, shown[i], shown[i + 1])
FrameLinks ==
  /\ \A i \in 1..Len(chan) : \A j \in 1..(Len(chan[i].lines) - 1) :
       Linked(cut, chan[i].lines[j], chan[i].lines[j + 1])
  /\ \A i \in 1..(Len(chan) - 1) : Linked(cut, LastOf(chan[i]), FirstOf(chan[i + 1]))
  /\ chan # <<>> => Linked(cut, LastShown, FirstOf(chan[1]))
QueueLinks ==
  /\ \A i \in 1..(Len(bus.q) - 1) : Linked(cut, bus.q[i].line, bus.q[i + 1].line)
  /\ ~bus.lagged /\ bus.q # <<>> => Linked(cut, LastFramed, bus.q[1].line)

(* The panel's cursor, the request's and the reader's stand at the last    *)
(* line of their end of the pipeline.                                      *)
Cursors ==
  /\ LastShown # 0 => Stamp[LastShown] = view.ts
  /\ LastShown # 0 /\ call.pc \in {"sent", "err"} => Stamp[LastShown] = call.after
Reaches ==
  /\ Alive /\ Newest # 0 => Stamp[Newest] = reader.last
  /\ reader.pc = "pump" /\ Newest # 0 => Explained(cut, Newest, reader.pos)

GapInv == ~previous => ShownLinks /\ FrameLinks /\ QueueLinks /\ Cursors /\ Reaches

-----------------------------------------------------------------------------
(* The operators of the pipeline. *)

(* Every nonempty set of naturals has a least element. *)
LEMMA LeastNatural ==
  ASSUME NEW T \in SUBSET Nat, T # {}
  PROVE  \E n \in T : \A m \in T : n <= m
<1>1. PICK n \in T : \A m \in T : ~(<<m, n>> \in OpToRel(<, Nat))
  BY NatLessThanWellFounded, WFMin
<1>2. \A m \in T : ~(m < n)
  BY <1>1 DEF OpToRel
<1> QED
  BY <1>2

(* A nonempty run is a prefix of the queue: lines, at most BatchMax. *)
LEMMA RunFacts ==
  ASSUME NEW q \in Seq(Events), q # <<>>, q[1].kind = "line"
  PROVE  /\ Run(q) \in Seq(Lines) /\ Len(Run(q)) \in 1..BatchMax /\ Len(Run(q)) <= Len(q)
         /\ \A i \in 1..Len(Run(q)) : Run(q)[i] = q[i].line /\ q[i].kind = "line"
<1> DEFINE T == {j \in Nat : j = BatchMax \/ j = Len(q) \/ q[j + 1].kind # "line"}
           P(m) == /\ m <= Len(q) /\ \A i \in 1..m : q[i].kind = "line"
                   /\ m = BatchMax \/ m = Len(q) \/ q[m + 1].kind # "line"
           n == CHOOSE m \in 0..BatchMax : P(m)
<1>0. BatchMax \in Nat \ {0} /\ Len(q) \in Nat \ {0}
  BY LimitsAssumption, EmptySeq
<1>1. PICK m \in T : \A j \in T : m <= j
  <2>1. Len(q) \in T
    BY <1>0
  <2> QED
    BY <2>1, LeastNatural
<1>2. m \in Nat /\ m <= Len(q) /\ m <= BatchMax
  BY <1>0, <1>1
<1>3. \A i \in 1..m : q[i].kind = "line"
  <2> SUFFICES ASSUME NEW i \in 1..m PROVE q[i].kind = "line"
    OBVIOUS
  <2>1. i - 1 \in Nat /\ ~(m <= i - 1) /\ (i - 1) + 1 = i
    BY <1>2
  <2> QED
    BY <1>1, <2>1
<1>4. P(m) /\ m \in 0..BatchMax
  BY <1>0, <1>1, <1>2, <1>3
<1> HIDE DEF P
<1>5. n \in 0..BatchMax /\ P(n)
  BY <1>4
<1> HIDE DEF n
<1> USE DEF P
<1>6. n # 0
  BY <1>0, <1>5
<1>7. Run(q) = [i \in 1..n |-> q[i].line]
  BY DEF Run, n
<1>8. \A i \in 1..n : q[i].line \in Lines
  <2> SUFFICES ASSUME NEW i \in 1..n PROVE q[i].line \in Lines
    OBVIOUS
  <2>1. i \in 1..Len(q) /\ q[i].kind = "line"
    BY <1>0, <1>5
  <2>2. q[i] \in Events
    BY <2>1, ElementOfSeq
  <2> QED
    BY <2>1, <2>2 DEF Events, Final
<1> HIDE DEF P
<1>9. Run(q) \in [1..n -> Lines] /\ n \in Nat
  BY <1>0, <1>5, <1>7, <1>8
<1>10. Run(q) \in Seq(Lines) /\ Len(Run(q)) = n
  BY <1>9, SeqDef, LenProperties
<1> QED
  BY <1>0, <1>5, <1>6, <1>7, <1>10 DEF P

(* A published event is the last; the oldest goes when the buffer is full, *)
(* and then the receiver is told.                                          *)
LEMMA PublishFacts ==
  ASSUME NEW b \in Buses, Len(b.q) <= LineBuffer, NEW e \in Events
  PROVE  /\ Publish(b, e) \in Buses /\ Len(Publish(b, e).q) \in 1..LineBuffer
         /\ Publish(b, e).q[Len(Publish(b, e).q)] = e
         /\ Publish(b, e).fwd = b.fwd /\ Publish(b, e).closed = b.closed
         /\ \E d \in {0, 1} :
              /\ Len(Publish(b, e).q) = Len(b.q) + 1 - d
              /\ \A i \in 1..(Len(Publish(b, e).q) - 1) : Publish(b, e).q[i] = b.q[i + d]
              /\ IF d = 1 THEN Publish(b, e).lagged ELSE Publish(b, e).lagged = b.lagged
<1>0. LineBuffer \in Nat \ {0} /\ b.q \in Seq(Events) /\ Len(b.q) \in Nat
  BY LimitsAssumption, LenProperties DEF Buses
<1>1. CASE Len(b.q) < LineBuffer
  <2> DEFINE s == Append(b.q, e)
  <2>1. /\ s \in Seq(Events) /\ Len(s) = Len(b.q) + 1 /\ s[Len(b.q) + 1] = e
        /\ \A i \in 1..Len(b.q) : s[i] = b.q[i]
    BY <1>0, AppendProperties
  <2>2. Publish(b, e) = [b EXCEPT !.q = s]
    BY <1>1 DEF Publish
  <2> HIDE DEF s
  <2>3. /\ Publish(b, e) \in Buses /\ Publish(b, e).q = s /\ Publish(b, e).fwd = b.fwd
        /\ Publish(b, e).closed = b.closed /\ Publish(b, e).lagged = b.lagged
    BY <2>1, <2>2 DEF Buses
  <2>4. Len(s) = Len(b.q) + 1 - 0 /\ \A i \in 1..(Len(s) - 1) : s[i] = b.q[i + 0]
    BY <1>0, <2>1
  <2> QED
    BY <1>0, <1>1, <2>1, <2>3, <2>4
<1>2. CASE ~(Len(b.q) < LineBuffer)
  <2> DEFINE t == Tail(b.q)
             s == Append(t, e)
  <2>0. b.q # <<>>
    BY <1>0, <1>2, EmptySeq
  <2>1. t \in Seq(Events) /\ Len(t) = Len(b.q) - 1 /\ \A i \in 1..Len(t) : t[i] = b.q[i + 1]
    BY <1>0, <2>0, HeadTailProperties
  <2>2. /\ s \in Seq(Events) /\ Len(s) = Len(t) + 1 /\ s[Len(t) + 1] = e
        /\ \A i \in 1..Len(t) : s[i] = t[i]
    BY <2>1, AppendProperties
  <2>3. Publish(b, e) = [b EXCEPT !.q = s, !.lagged = TRUE]
    BY <1>2 DEF Publish
  <2> HIDE DEF s, t
  <2>4. /\ Publish(b, e) \in Buses /\ Publish(b, e).q = s /\ Publish(b, e).fwd = b.fwd
        /\ Publish(b, e).closed = b.closed /\ Publish(b, e).lagged = TRUE
    BY <2>2, <2>3 DEF Buses
  <2>5. Len(s) = Len(b.q) + 1 - 1 /\ \A i \in 1..(Len(s) - 1) : s[i] = b.q[i + 1]
    BY <1>0, <2>1, <2>2
  <2>6. Len(b.q) = LineBuffer /\ Len(s) = LineBuffer /\ s[Len(s)] = e
    BY <1>0, <1>2, <2>1, <2>2
  <2> QED
    BY <1>0, <2>4, <2>5, <2>6
<1> QED
  BY <1>1, <1>2

-----------------------------------------------------------------------------
(* What a step does to the stream, whoever takes it.  Nothing: *)
Calm ==
  /\ UNCHANGED <<previous, bus, chan, sid, logs, stops, call, view, shown, cut, strayed>>
  /\ reader'.pc = reader.pc /\ reader'.last = reader.last
  /\ reader'.skip = reader.skip /\ reader'.pos = reader.pos

(* the reader goes on without an event: it opens, skips a line, or ends a  *)
(* session;                                                                *)
Opens ==
  /\ reader'.pc = "pump" /\ cut \subseteq cut'
  /\ ~previous => /\ reader'.skip = reader.last
                  /\ \A k \in 1..reader'.pos : Stamp[k] <= reader.last \/ k \in cut'
Skips ==
  /\ reader.pc = "pump" /\ reader'.pc = "pump" /\ cut' = cut /\ reader'.skip = reader.skip
  /\ reader.pos + 1 \in Lines /\ reader'.pos = reader.pos + 1
  /\ reader.skip # 0 /\ Stamp[reader.pos + 1] <= reader.skip
Reads ==
  /\ UNCHANGED <<previous, bus, chan, sid, logs, stops, call, view, shown, strayed>>
  /\ Alive /\ Alive' /\ reader'.last = reader.last
  /\ Opens \/ Skips \/ (reader'.pc # "pump" /\ cut' = cut)

(* it publishes the next line; *)
Emits ==
  /\ UNCHANGED <<previous, chan, sid, logs, stops, call, view, shown, cut, strayed>>
  /\ reader.pc = "pump" /\ reader'.pc = "pump" /\ reader'.skip = 0
  /\ reader.pos + 1 \in Lines /\ reader'.pos = reader.pos + 1
  /\ reader.skip # 0 => Stamp[reader.pos + 1] > reader.skip
  /\ reader'.last = Stamp[reader.pos + 1]
  /\ bus' = Publish(bus, Event("line", reader.pos + 1))

(* it is over, with a final event; *)
Ends ==
  /\ UNCHANGED <<previous, chan, sid, logs, stops, call, view, shown, cut, strayed>>
  /\ Alive /\ reader' = Over
  /\ \E kind \in Final :
       /\ bus' = Publish(bus, Event(kind, 0))
       /\ kind = "interrupted" => call.pc \notin {"bound", "reply"}

(* or it is aborted, with its place in the registry. *)
Drops ==
  /\ UNCHANGED <<previous, chan, sid, call, view, shown, cut, strayed>>
  /\ logs' \subseteq logs /\ stops' \subseteq stops
  /\ \A s \in logs' : s \in stops => s \in stops'
  /\ \/ sid \in logs /\ sid \notin logs' /\ reader' = Over /\ bus' = Close(bus)
     \/ UNCHANGED <<reader, bus>>

LEMMA EnvironmentKind ==
  ASSUME Types,
         \/ Write \/ ContainerStarts \/ ContainerExits \/ ContainerRestarts \/ PodDeleted
         \/ NetDown \/ NetUp \/ Wedge \/ Unhealthy \/ EvictEntry \/ UNCHANGED vars
  PROVE  Calm
<1>0. reader \in Readers
  BY DEF Types
<1>1. CASE Write \/ NetDown \/ NetUp \/ Unhealthy \/ EvictEntry \/ UNCHANGED vars
  BY <1>1 DEF Write, NetDown, NetUp, Unhealthy, EvictEntry, vars, server, cluster, pipe, registry,
     history, Calm
<1>2. ASSUME NEW c, Settle(c) PROVE Calm
  BY <1>0, <1>2 DEF Settle, Calm, cluster, registry, history, Readers
<1>3. CASE Wedge
  BY <1>0, <1>3 DEF Wedge, Calm, server, registry, history, Readers
<1> QED
  BY <1>1, <1>2, <1>3 DEF ContainerStarts, ContainerExits, ContainerRestarts, PodDeleted

LEMMA DropKind ==
  ASSUME Types, Slept \/ Reconnect \/ Leave \/ Stop
  PROVE  Drops
<1>1. CASE DropLogs /\ UNCHANGED <<previous, chan, sid, stops, call, view, shown, cut, strayed>>
  BY <1>1 DEF DropLogs, Drops
<1>2. CASE Slept
  BY <1>1, <1>2 DEF Slept, server, history
<1>3. CASE Reconnect \/ Leave
  BY <1>1, <1>3 DEF Reconnect, Leave, EvictLogs, server, history
<1>4. CASE Stop
  BY <1>4 DEF Stop, server, cluster, history, Drops
<1> QED
  BY <1>2, <1>3, <1>4

LEMMA ReaderKind ==
  ASSUME Types, Reader \/ Break
  PROVE  Reads \/ Emits \/ Ends
<1>0. /\ reader \in Readers /\ reader.pos <= written /\ reader.end <= written
      /\ written \in 0..MaxLines /\ MaxLines \in Nat /\ Stamp \in [Lines -> Nat \ {0}]
  BY StampAssumption DEF Types
<1>1. UNCHANGED <<previous, chan, sid, logs, stops, call, view, shown, strayed>>
  BY DEF Reader, Break, server, registry
<1>2. ASSUME NEW kind \in Final, Finish(kind), Alive, UNCHANGED cut,
             kind = "interrupted" => call.pc \notin {"bound", "reply"}
      PROVE  Ends
  BY <1>1, <1>2 DEF Ends, Finish
<1>3. ASSUME Alive, Alive', UNCHANGED <<bus, cut>>, reader'.pc # "pump", reader'.last = reader.last
      PROVE  Reads
  BY <1>1, <1>3 DEF Reads
<1>4. CASE OpenOk
  <2>1. UNCHANGED bus /\ Alive /\ Alive' /\ reader'.last = reader.last /\ reader'.pc = "pump"
    BY <1>0, <1>4 DEF OpenOk, Alive, Readers
  <2>2. reader'.pos = Floor /\ (~previous => reader'.skip = reader.last)
    BY <1>0, <1>4 DEF OpenOk, Readers
  <2>3. cut' = cut \cup {k \in 1..Floor : Stamp[k] > reader.last}
    BY <1>4 DEF OpenOk
  <2>4. Floor \in 0..written
    BY <1>0, LimitsAssumption DEF Floor, TailForOpen, Types, NoTail
  <2>5. \A k \in 1..reader'.pos : Stamp[k] <= reader.last \/ k \in cut'
    <3> SUFFICES ASSUME NEW k \in 1..reader'.pos PROVE Stamp[k] <= reader.last \/ k \in cut'
      OBVIOUS
    <3>1. k \in Lines /\ k \in 1..Floor
      BY <1>0, <2>2, <2>4 DEF Lines
    <3>2. Stamp[k] \in Nat /\ reader.last \in Nat
      BY <1>0, <3>1 DEF Readers
    <3> QED
      BY <2>3, <3>1, <3>2
  <2> QED
    BY <1>1, <2>1, <2>2, <2>3, <2>5 DEF Reads, Opens
<1>5. CASE OpenStarting \/ OpenTransient \/ OpenFatal
  <2>1. Alive /\ UNCHANGED cut
    BY <1>5 DEF OpenStarting, OpenTransient, OpenFatal, Alive
  <2>2. ASSUME NEW r, Retry(r), r.pc = "open", r.last = reader.last PROVE Reads
    BY <1>3, <2>1, <2>2 DEF Retry, Alive
  <2>3. [reader EXCEPT !.waits = @ + 1].pc = reader.pc /\ [reader EXCEPT !.waits = @ + 1].last = reader.last
    BY <1>0 DEF Readers
  <2>4. [reader EXCEPT !.trans = @ + 1].pc = reader.pc /\ [reader EXCEPT !.trans = @ + 1].last = reader.last
    BY <1>0 DEF Readers
  <2>5. CASE OpenStarting
    BY <1>2, <2>1, <2>2, <2>3, <2>5 DEF OpenStarting, Final
  <2>6. CASE OpenTransient
    BY <1>2, <2>1, <2>2, <2>4, <2>6 DEF OpenTransient, Interrupt, Final
  <2>7. CASE OpenFatal
    BY <1>2, <2>1, <2>7 DEF OpenFatal, Final
  <2> QED
    BY <1>5, <2>5, <2>6, <2>7
<1>6. CASE ReadLine
  <2> DEFINE k == reader.pos + 1
  <2>1. k \in Lines /\ Stamp[k] \in Nat /\ reader.skip \in Nat /\ reader.pc = "pump" /\ UNCHANGED cut
    BY <1>0, <1>6 DEF ReadLine, Readers, Lines
  <2>2. CASE Skipped(k)
    <3>1. reader' = [reader EXCEPT !.pos = k] /\ UNCHANGED bus
      BY <1>6, <2>2 DEF ReadLine
    <3>2. /\ reader'.pc = "pump" /\ reader'.skip = reader.skip /\ reader'.last = reader.last
          /\ reader'.pos = k
      BY <1>0, <2>1, <3>1 DEF Readers
    <3> QED
      BY <1>1, <2>1, <2>2, <3>1, <3>2 DEF Reads, Skips, Skipped, Alive
  <2>3. CASE ~Skipped(k)
    <3>1. /\ reader' = [reader EXCEPT !.pos = k, !.skip = 0, !.last = Stamp[k], !.produced = TRUE]
          /\ bus' = Publish(bus, Event("line", k))
      BY <1>6, <2>3 DEF ReadLine
    <3>2. reader'.pc = "pump" /\ reader'.skip = 0 /\ reader'.last = Stamp[k] /\ reader'.pos = k
      BY <1>0, <2>1, <3>1 DEF Readers
    <3>3. reader.skip # 0 => Stamp[k] > reader.skip
      BY <2>1, <2>3 DEF Skipped
    <3> QED
      BY <1>1, <2>1, <3>1, <3>2, <3>3 DEF Emits
  <2> QED
    BY <2>2, <2>3
<1>7. CASE EndSession /\ reader.pc = "pump"
  <2>1. CASE previous
    BY <1>2, <1>7, <2>1 DEF EndSession, Alive, Final
  <2>2. CASE ~previous
    <3>1. UNCHANGED <<bus, cut>> /\ reader'.pc = "probe" /\ reader'.last = reader.last
      BY <1>0, <1>7, <2>2 DEF EndSession, Readers
    <3> QED
      BY <1>3, <1>7, <3>1 DEF Alive
  <2> QED
    BY <2>1, <2>2
<1>8. CASE ProbeUnreachable \/ ProbeAlive \/ ProbeDone
  <2>1. Alive /\ UNCHANGED cut
    BY <1>8 DEF ProbeUnreachable, ProbeAlive, ProbeDone, Alive
  <2>3. CASE ProbeUnreachable
    <3>1. CASE reader.unreach < MaxTransient
      <4>1. UNCHANGED bus /\ reader' = Reopened([reader EXCEPT !.unreach = @ + 1])
        BY <2>3, <3>1 DEF ProbeUnreachable, Retry
      <4>2. reader'.pc = "open" /\ reader'.last = reader.last
        BY <1>0, <4>1 DEF Reopened, Readers
      <4> QED
        BY <1>3, <2>1, <4>1, <4>2 DEF Alive
    <3>2. CASE ~(reader.unreach < MaxTransient)
      BY <1>2, <2>1, <2>3, <3>2 DEF ProbeUnreachable, Interrupt, Final
    <3> QED
      BY <3>1, <3>2
  <2>4. CASE ProbeAlive
    <3>1. CASE reader.dead < MaxDead
      <4>1. UNCHANGED bus /\ reader' = Reopened([reader EXCEPT !.unreach = 0,
                                !.dead = IF reader.produced THEN @ ELSE @ + 1])
        BY <2>4, <3>1 DEF ProbeAlive, Retry
      <4>2. reader'.pc = "open" /\ reader'.last = reader.last
        BY <1>0, <4>1 DEF Reopened, Readers
      <4> QED
        BY <1>3, <2>1, <4>1, <4>2 DEF Alive
    <3>2. CASE ~(reader.dead < MaxDead)
      BY <1>2, <2>1, <2>4, <3>2 DEF ProbeAlive, Final
    <3> QED
      BY <3>1, <3>2
  <2>5. CASE ProbeDone
    BY <1>2, <2>1, <2>5 DEF ProbeDone, Final
  <2> QED
    BY <1>8, <2>3, <2>4, <2>5
<1> QED
  BY <1>4, <1>5, <1>6, <1>7, <1>8 DEF Reader, Break, ReadClosed, ReadError

-----------------------------------------------------------------------------
(* Types. *)
LEMMA InitTypes == Init => Types
<1> SUFFICES ASSUME Init PROVE Types
  OBVIOUS
<1>0. MaxLines \in Nat /\ {MaxWait, MaxDead, MaxTransient, MaxFaults, MaxToggles} \subseteq Nat
  BY StampAssumption, LimitsAssumption
<1>1. reader \in Readers /\ reader.pos = 0 /\ reader.end = 0
  BY <1>0 DEF Init, NoReader, Readers
<1>2. bus \in Buses /\ Len(bus.q) = 0
  BY DEF Init, NoBus, Buses
<1>3. call \in Calls /\ view \in Panels
  BY DEF Init, NoCall, NoView, Calls, Panels, Statuses
<1>4. written \in 0..MaxLines /\ base \in 0..written
  BY <1>0 DEF Init
<1>5. previous \in BOOLEAN /\ net \in BOOLEAN /\ evicting \in BOOLEAN /\ strayed \in BOOLEAN /\ orphan \in BOOLEAN
  BY Zenon DEF Init
<1>6. chan \in Seq(Frames) /\ Len(chan) = 0 /\ shown \in Seq(0..MaxLines)
  BY EmptySeq DEF Init
<1>7. /\ cont \in {"starting", "running", "restarting", "done", "gone"}
      /\ entry \in {"ok", "wedged", "unavailable", "none"}
      /\ logs \subseteq Ids /\ stops \subseteq Ids /\ sid \in Ids \cup {0} /\ cut \subseteq Lines
  BY DEF Init
<1>8. faults \in 0..MaxFaults /\ toggles \in 0..MaxToggles
  BY <1>0 DEF Init
<1> QED
  BY <1>0, <1>1, <1>2, <1>3, <1>4, <1>5, <1>6, <1>7, <1>8, LimitsAssumption DEF Types

(* The server side, what the reader may become, and what a bus may hold:   *)
(* each is typed whatever the other two do.                                *)
ServerTypes ==
  /\ previous \in BOOLEAN /\ written \in 0..MaxLines /\ base \in 0..written
  /\ cont \in {"starting", "running", "restarting", "done", "gone"} /\ net \in BOOLEAN
  /\ entry \in {"ok", "wedged", "unavailable", "none"} /\ evicting \in BOOLEAN
  /\ faults \in 0..MaxFaults /\ toggles \in 0..MaxToggles
PipeTypes ==
  /\ reader \in Readers /\ reader.pos <= written /\ reader.end <= written
  /\ bus \in Buses /\ Len(bus.q) <= LineBuffer
  /\ chan \in Seq(Frames)
  /\ \A i \in 1..Len(chan) :
       Len(chan[i].lines) <= BatchMax /\ (chan[i].kind = "lines" <=> chan[i].lines # <<>>)
PanelTypes ==
  /\ logs \subseteq Ids /\ stops \subseteq Ids /\ sid \in Ids \cup {0}
  /\ call \in Calls /\ view \in Panels
  /\ shown \in Seq(0..MaxLines) /\ cut \subseteq Lines
  /\ strayed \in BOOLEAN /\ orphan \in BOOLEAN

LEMMA TypesParts == Types <=> ServerTypes /\ PipeTypes /\ PanelTypes
  BY DEF Types, ServerTypes, PipeTypes, PanelTypes

LEMMA Limits ==
  /\ MaxLines \in Nat \ {0} /\ Stamp \in [Lines -> Nat \ {0}] /\ Lines = 1..MaxLines
  /\ LineBuffer \in Nat \ {0} /\ BatchMax \in Nat \ {0}
  /\ MaxWait \in Nat /\ MaxDead \in Nat /\ MaxTransient \in Nat /\ MaxFaults \in Nat /\ MaxToggles \in Nat
  /\ 0 \notin Ids /\ Ids \subseteq Nat
  BY StampAssumption, LimitsAssumption DEF Lines

LEMMA IdleTypes ==
  /\ NoReader \in Readers /\ NoReader.pos = 0 /\ NoReader.end = 0 /\ NoReader.pc = "none"
  /\ Over \in Readers /\ Over.pos = 0 /\ Over.end = 0 /\ Over.pc = "over"
  /\ NoBus \in Buses /\ NoBus.q = <<>> /\ ~NoBus.fwd /\ ~NoBus.lagged /\ ~NoBus.closed
  /\ <<>> \in Seq(Frames)
<1>1. NoReader \in Readers /\ NoReader.pos = 0 /\ NoReader.end = 0 /\ NoReader.pc = "none"
  BY Limits DEF NoReader, Readers
<1>2. Over \in Readers /\ Over.pos = 0 /\ Over.end = 0 /\ Over.pc = "over"
  BY <1>1 DEF Over, Readers
<1> QED
  BY <1>1, <1>2 DEF NoBus, Buses

LEMMA ServerStep ==
  ASSUME Types, [Next]_vars
  PROVE  ServerTypes' /\ written <= written'
<1>1. ServerTypes
  BY TypesParts
<1> USE Limits DEF ServerTypes
<1>2. CASE Write
  BY <1>1, <1>2 DEF Write, cluster
<1>3. ASSUME NEW c \in {"running", "restarting", "done", "gone"}, Settle(c), faults' \in 0..MaxFaults
      PROVE ServerTypes' /\ written <= written'
  BY <1>1, <1>3 DEF Settle, cluster
<1>4. Fault => faults' \in 0..MaxFaults
  BY <1>1 DEF Fault
<1>5. CASE ContainerStarts \/ ContainerExits \/ ContainerRestarts \/ PodDeleted
  BY <1>1, <1>3, <1>4, <1>5 DEF ContainerStarts, ContainerExits, ContainerRestarts, PodDeleted
<1>5a. ASSUME UNCHANGED <<previous, written, base, cont>>, faults' \in 0..MaxFaults, toggles' \in 0..MaxToggles,
              net' \in BOOLEAN, entry' \in {"ok", "wedged", "unavailable", "none"}, evicting' \in BOOLEAN
       PROVE  ServerTypes' /\ written <= written'
  BY <1>1, <1>5a
<1>6. CASE NetDown \/ NetUp
  <2>1. net' \in BOOLEAN
    BY <1>6, Zenon DEF NetDown, NetUp
  <2>2. UNCHANGED <<previous, written, base, cont, entry, evicting, toggles>> /\ faults' \in 0..MaxFaults
    BY <1>1, <1>4, <1>6 DEF NetDown, NetUp, cluster
  <2> QED
    BY <1>1, <1>5a, <2>1, <2>2
<1>7. CASE Wedge
  BY <1>1, <1>4, <1>7 DEF Wedge, server
<1>8. CASE Unhealthy \/ Slept \/ Reconnect \/ Leave \/ EvictEntry
  <2>1. evicting' \in BOOLEAN
    <3>1. evicting' = evicting \/ evicting' = TRUE \/ evicting' = FALSE
      BY <1>8, Zenon DEF Unhealthy, Slept, Reconnect, Leave, EvictLogs, EvictEntry
    <3> QED
      BY <1>1, <3>1, Zenon
  <2>2. UNCHANGED <<previous, written, base, cont, net, toggles>> /\ faults' \in 0..MaxFaults
    BY <1>1, <1>4, <1>8 DEF Unhealthy, Slept, Reconnect, Leave, EvictLogs, EvictEntry, server
  <2>3. entry' \in {"ok", "wedged", "unavailable", "none"}
    BY <1>1, <1>8 DEF Unhealthy, Slept, Reconnect, Leave, EvictLogs, EvictEntry
  <2> QED
    BY <1>1, <1>5a, <2>1, <2>2, <2>3
<1>9. CASE Reader \/ Break \/ Forward \/ Insert \/ Stop \/ UNCHANGED vars
  BY <1>1, <1>4, <1>9 DEF Reader, Break, Forward, Insert, Stop, vars, server, cluster
<1>10. CASE Bind
  BY <1>1, <1>10 DEF Bind, server
<1>11. CASE Unwant
  BY <1>1, <1>11 DEF Unwant, server, cluster
<1>12. CASE Want \/ Again \/ Unmount \/ Resume \/ Reply \/ ReplyError \/ Deliver
  <2>1. UNCHANGED <<server, cluster, faults, toggles>>
    <3>1. CASE Want \/ Again \/ Resume
      BY <3>1 DEF Want, Again, Resume
    <3>2. CASE Unmount \/ Reply \/ ReplyError \/ Deliver
      BY <3>2 DEF Unmount, Reply, ReplyError, Deliver
    <3> QED
      BY <1>12, <3>1, <3>2
  <2> QED
    BY <1>1, <2>1 DEF server, cluster
<1> QED
  BY <1>2, <1>5, <1>6, <1>7, <1>8, <1>9, <1>10, <1>11, <1>12 DEF Next, Environment, Cluster, Panel

(* The panel's steps leave the stream alone or detach it. *)
LEMMA PanelPipe ==
  ASSUME Want \/ Again \/ Unwant \/ Unmount \/ Resume \/ Reply \/ ReplyError
  PROVE  UNCHANGED pipe \/ (reader' = NoReader /\ bus' = NoBus /\ chan' = <<>> /\ sid' = 0)
<1>1. CASE Want \/ Again \/ Resume \/ ReplyError
  BY <1>1 DEF Want, Again, Resume, ReplyError
<1>2. \A s : Detached(s) => UNCHANGED pipe \/ (reader' = NoReader /\ bus' = NoBus /\ chan' = <<>> /\ sid' = 0)
  BY DEF Detached
<1>3. CASE Unwant \/ Unmount
  BY <1>2, <1>3 DEF Unwant, Unmount
<1>4. CASE Reply
  <2>1. UNCHANGED pipe \/ Detached(sid)
    BY <1>4 DEF Reply
  <2> QED
    BY <1>2, <2>1
<1> QED
  BY <1>1, <1>3, <1>4

(* The updates of the reader's record keep its type. *)
LEMMA ReaderUpdates ==
  ASSUME NEW r \in Readers, NEW n \in Nat, NEW k \in Nat, NEW l \in Nat, NEW b \in BOOLEAN
  PROVE  /\ LET x == [r EXCEPT !.pc = "pump", !.first = FALSE, !.pos = n, !.skip = k, !.eof = b,
                        !.end = l, !.produced = FALSE, !.waits = 0, !.trans = 0]
            IN x \in Readers /\ x.pos = n /\ x.end = l
         /\ LET x == [r EXCEPT !.pos = n] IN x \in Readers /\ x.pos = n /\ x.end = r.end
         /\ LET x == [r EXCEPT !.pos = n, !.skip = 0, !.last = l, !.produced = TRUE]
            IN x \in Readers /\ x.pos = n /\ x.end = r.end
         /\ LET x == Reopened(r) IN x \in Readers /\ x.pos = r.pos /\ x.end = r.end
<1>0. 0 \in 0..MaxWait /\ 0 \in 0..MaxTransient /\ 0 \in Nat
  BY Limits
<1>1. [r EXCEPT !.pc = "pump", !.first = FALSE, !.pos = n, !.skip = k, !.eof = b,
                !.end = l, !.produced = FALSE, !.waits = 0, !.trans = 0] \in Readers
  BY <1>0 DEF Readers
<1>2. [r EXCEPT !.pos = n] \in Readers
  BY DEF Readers
<1>3. [r EXCEPT !.pos = n, !.skip = 0, !.last = l, !.produced = TRUE] \in Readers
  BY DEF Readers
<1>4. Reopened(r) \in Readers
  BY DEF Readers, Reopened
<1> QED
  BY <1>1, <1>2, <1>3, <1>4 DEF Readers, Reopened

LEMMA ReaderBudgets ==
  ASSUME NEW r \in Readers
  PROVE  /\ r.waits < MaxWait => [r EXCEPT !.waits = @ + 1] \in Readers
         /\ r.trans < MaxTransient => [r EXCEPT !.trans = @ + 1] \in Readers
         /\ r.unreach < MaxTransient => [r EXCEPT !.unreach = @ + 1] \in Readers
         /\ \A d \in 0..MaxDead : [r EXCEPT !.unreach = 0, !.dead = d] \in Readers
         /\ \A d \in 0..MaxDead : [r EXCEPT !.pc = "probe", !.skip = 0, !.pos = 0, !.eof = FALSE,
                                            !.end = 0, !.dead = d] \in Readers
<1>0. MaxWait \in Nat /\ MaxTransient \in Nat
  BY Limits
<1>1. r.waits < MaxWait => [r EXCEPT !.waits = @ + 1] \in Readers
  BY <1>0 DEF Readers
<1>2. r.trans < MaxTransient => [r EXCEPT !.trans = @ + 1] \in Readers
  BY <1>0 DEF Readers
<1>3. r.unreach < MaxTransient => [r EXCEPT !.unreach = @ + 1] \in Readers
  BY <1>0 DEF Readers
<1>4. ASSUME NEW d \in 0..MaxDead PROVE [r EXCEPT !.unreach = 0, !.dead = d] \in Readers
  <2>1. 0 \in 0..MaxTransient
    BY <1>0
  <2> QED
    BY <2>1 DEF Readers
<1>5. \A d \in 0..MaxDead : [r EXCEPT !.pc = "probe", !.skip = 0, !.pos = 0, !.eof = FALSE,
                                       !.end = 0, !.dead = d] \in Readers
  BY DEF Readers
<1> QED
  BY <1>1, <1>2, <1>3, <1>4, <1>5

LEMMA ReaderTyped ==
  ASSUME Types, [Next]_vars
  PROVE  reader' \in Readers /\ reader'.pos <= written' /\ reader'.end <= written'
<1> DEFINE Goal == reader' \in Readers /\ reader'.pos <= written' /\ reader'.end <= written'
<1>0. /\ reader \in Readers /\ reader.pos <= written /\ reader.end <= written
      /\ written \in 0..MaxLines /\ base \in 0..written /\ previous \in BOOLEAN
  BY DEF Types
<1>00. written' \in Nat /\ written <= written'
  BY ServerStep, Limits DEF ServerTypes
<1>1. CASE UNCHANGED reader
  BY <1>0, <1>00, <1>1 DEF Readers
<1>2. CASE reader' = Over \/ reader' = NoReader
  BY <1>00, <1>2, IdleTypes
<1>3. ASSUME NEW c, Settle(c) PROVE Goal
  BY <1>0, <1>00, <1>3 DEF Settle, Readers
<1>3a. ASSUME reader' \in Readers, reader'.pos \in 0..written, reader'.end \in 0..written PROVE Goal
  BY <1>0, <1>00, <1>3a
<1>3b. reader.pos \in 0..written /\ reader.end \in 0..written
  BY <1>0 DEF Readers
<1>4. CASE Wedge
  <2>1. reader' = reader \/ reader' = [reader EXCEPT !.stuck = TRUE]
    BY <1>4 DEF Wedge
  <2>2. CASE reader' = [reader EXCEPT !.stuck = TRUE]
    <3>1. reader' \in Readers /\ reader'.pos = reader.pos /\ reader'.end = reader.end
      BY <1>0, <2>2 DEF Readers
    <3> QED
      BY <1>3a, <1>3b, <3>1
  <2> QED
    BY <1>1, <2>1, <2>2
<1>5. CASE OpenOk
  <2> DEFINE e == IF previous THEN base ELSE IF cont # "running" THEN written ELSE 0
             k == IF previous THEN 0 ELSE reader.last
             b == previous \/ cont # "running"
  <2>1. Floor \in 0..written /\ Floor \in Nat
    BY <1>0, LimitsAssumption DEF Floor, TailForOpen, NoTail
  <2>2. e \in 0..written /\ e \in Nat /\ k \in Nat
    BY <1>0 DEF Readers
  <2>3. b \in BOOLEAN
    OBVIOUS
  <2>4. reader' = [reader EXCEPT !.pc = "pump", !.first = FALSE, !.pos = Floor, !.skip = k, !.eof = b,
                     !.end = e, !.produced = FALSE, !.waits = 0, !.trans = 0]
    BY <1>5 DEF OpenOk
  <2> HIDE DEF e, k, b
  <2>5. reader' \in Readers
    BY <1>0, <2>1, <2>2, <2>3, <2>4, ReaderUpdates
  <2>6. reader'.pos = Floor /\ reader'.end = e
    BY <1>0, <2>4 DEF Readers
  <2> QED
    BY <1>3a, <2>1, <2>2, <2>5, <2>6
<1>6. CASE OpenStarting \/ OpenTransient \/ OpenFatal
  <2>1. \/ reader' = Over
        \/ reader' = [reader EXCEPT !.waits = @ + 1] /\ reader.waits < MaxWait
        \/ reader' = [reader EXCEPT !.trans = @ + 1] /\ reader.trans < MaxTransient
    BY <1>6 DEF OpenStarting, OpenTransient, OpenFatal, Retry, Finish, Interrupt
  <2>2. CASE reader' = [reader EXCEPT !.waits = @ + 1] /\ reader.waits < MaxWait
    <3>1. reader' \in Readers
      BY <1>0, <2>2, ReaderBudgets
    <3>2. reader'.pos = reader.pos /\ reader'.end = reader.end
      BY <1>0, <2>2 DEF Readers
    <3> QED
      BY <1>3a, <1>3b, <3>1, <3>2
  <2>3. CASE reader' = [reader EXCEPT !.trans = @ + 1] /\ reader.trans < MaxTransient
    <3>1. reader' \in Readers
      BY <1>0, <2>3, ReaderBudgets
    <3>2. reader'.pos = reader.pos /\ reader'.end = reader.end
      BY <1>0, <2>3 DEF Readers
    <3> QED
      BY <1>3a, <1>3b, <3>1, <3>2
  <2> QED
    BY <1>2, <2>1, <2>2, <2>3
<1>7. CASE ReadLine
  <2> DEFINE k == reader.pos + 1
  <2>1. k \in 0..written /\ k \in Nat /\ Stamp[k] \in Nat
    <3>1. k \in 1..written
      BY <1>0, <1>7 DEF ReadLine, Readers
    <3>2. k \in Lines
      BY <1>0, <3>1, Limits
    <3> QED
      BY <1>0, <3>1, <3>2, Limits
  <2>2. \/ reader' = [reader EXCEPT !.pos = k]
        \/ reader' = [reader EXCEPT !.pos = k, !.skip = 0, !.last = Stamp[k], !.produced = TRUE]
    BY <1>7 DEF ReadLine
  <2> HIDE DEF k
  <2>3. reader' \in Readers /\ reader'.pos = k /\ reader'.end = reader.end
    <3>1. CASE reader' = [reader EXCEPT !.pos = k]
      BY <1>0, <2>1, <3>1, ReaderUpdates
    <3>2. CASE reader' = [reader EXCEPT !.pos = k, !.skip = 0, !.last = Stamp[k], !.produced = TRUE]
      <4>1. reader' \in Readers
        BY <1>0, <2>1, <3>2, ReaderUpdates
      <4>2. reader'.pos = k /\ reader'.end = reader.end
        BY <1>0, <3>2 DEF Readers
      <4> QED
        BY <4>1, <4>2
    <3> QED
      BY <2>2, <3>1, <3>2
  <2> QED
    BY <1>3a, <1>3b, <2>1, <2>3
<1>8. CASE EndSession
  <2> DEFINE d == IF reader.produced THEN 0 ELSE reader.dead
  <2>1. \/ reader' = Over
        \/ reader' = [reader EXCEPT !.pc = "probe", !.skip = 0, !.pos = 0, !.eof = FALSE, !.end = 0, !.dead = d]
    BY <1>8 DEF EndSession, Finish
  <2>2. d \in 0..MaxDead
    BY <1>0, Limits DEF Readers
  <2> HIDE DEF d
  <2>3. CASE reader' # Over
    <3>0. reader' \in Readers
      BY <1>0, <2>1, <2>2, <2>3, ReaderBudgets
    <3>1. reader' \in Readers /\ reader'.pos = 0 /\ reader'.end = 0
      BY <1>0, <2>1, <2>3, <3>0 DEF Readers
    <3> QED
      BY <1>0, <1>3a, <3>1
  <2> QED
    BY <1>2, <2>3
<1>9. CASE ProbeUnreachable \/ ProbeAlive \/ ProbeDone
  <2>0. ASSUME NEW r \in Readers, r.pos = reader.pos, r.end = reader.end, reader' = Reopened(r) PROVE Goal
    <3>1. reader' \in Readers /\ reader'.pos = reader.pos /\ reader'.end = reader.end
      BY <2>0, ReaderUpdates
    <3> QED
      BY <1>3a, <1>3b, <3>1
  <2>1. CASE ProbeUnreachable
    <3> DEFINE r == [reader EXCEPT !.unreach = @ + 1]
    <3>1. \/ reader' = Over
          \/ reader' = Reopened(r) /\ reader.unreach < MaxTransient
      BY <2>1 DEF ProbeUnreachable, Retry, Interrupt, Finish
    <3>2. reader.unreach < MaxTransient => r \in Readers
      BY <1>0, ReaderBudgets
    <3>3. r.pos = reader.pos /\ r.end = reader.end
      BY <1>0 DEF Readers
    <3> HIDE DEF r
    <3>4. CASE reader' = Over
      BY <1>2, <3>4
    <3>5. CASE reader' # Over
      BY <2>0, <3>1, <3>2, <3>3, <3>5
    <3> QED
      BY <3>4, <3>5
  <2>2. CASE ProbeAlive
    <3> DEFINE d == IF reader.produced THEN reader.dead ELSE reader.dead + 1
               r == [reader EXCEPT !.unreach = 0, !.dead = d]
    <3>1. reader' = Over \/ (reader.dead < MaxDead /\ reader' = Reopened(r))
      BY <2>2 DEF ProbeAlive, Retry, Finish
    <3>2. reader.dead < MaxDead => d \in 0..MaxDead
      BY <1>0, Limits DEF Readers
    <3> HIDE DEF d
    <3>3. reader.dead < MaxDead => r \in Readers
      BY <1>0, <3>2, ReaderBudgets
    <3>4. r.pos = reader.pos /\ r.end = reader.end
      BY <1>0 DEF Readers
    <3> HIDE DEF r
    <3>5. CASE reader' = Over
      BY <1>2, <3>5
    <3>6. CASE reader' # Over
      BY <2>0, <3>1, <3>3, <3>4, <3>6
    <3> QED
      BY <3>5, <3>6
  <2>3. CASE ProbeDone
    BY <1>2, <2>3 DEF ProbeDone, Finish
  <2> QED
    BY <1>9, <2>1, <2>2, <2>3
<1>10. CASE Reader \/ Break
  <2> HIDE DEF Goal
  <2> QED
    BY <1>5, <1>6, <1>7, <1>8, <1>9, <1>10 DEF Reader, Break, ReadClosed, ReadError
<1>11. CASE Bind
  <2>1. call \in Calls /\ written' = written
    BY <1>11 DEF Types, Bind, server
  <2>2. CASE UNCHANGED pipe
    BY <1>1, <2>2 DEF pipe
  <2>3. CASE ~(UNCHANGED pipe)
    <3>1. reader' = [NoReader EXCEPT !.pc = "open", !.first = call.after = 0,
                            !.last = IF previous THEN 0 ELSE call.after,
                            !.stuck = entry = "wedged"]
      BY <1>11, <2>3 DEF Bind
    <3> DEFINE f == call.after = 0
               w == entry = "wedged"
               l == IF previous THEN 0 ELSE call.after
    <3>2. f \in BOOLEAN /\ w \in BOOLEAN
      OBVIOUS
    <3>3. l \in Nat
      BY <2>1 DEF Calls
    <3>4. reader' = [NoReader EXCEPT !.pc = "open", !.first = f, !.last = l, !.stuck = w]
      BY <3>1
    <3> HIDE DEF f, w, l
    <3>5. reader' \in Readers /\ reader'.pos = 0 /\ reader'.end = 0
      BY <3>2, <3>3, <3>4, IdleTypes DEF Readers
    <3> QED
      BY <1>0, <1>3a, <3>5
  <2> QED
    BY <2>2, <2>3
<1>12. CASE Slept \/ Reconnect \/ Leave \/ Stop
  BY <1>1, <1>2, <1>12, DropKind DEF Drops
<1>13. CASE Forward \/ Insert \/ Deliver \/ UNCHANGED vars
  BY <1>1, <1>13 DEF Forward, Insert, Deliver, pipe, vars
<1>14. CASE Want \/ Again \/ Unwant \/ Unmount \/ Resume \/ Reply \/ ReplyError
  BY <1>1, <1>2, <1>14, PanelPipe DEF pipe
<1>15. CASE Write \/ NetDown \/ NetUp \/ Unhealthy \/ EvictEntry
  BY <1>1, <1>15 DEF Write, NetDown, NetUp, Unhealthy, EvictEntry, pipe
<1> QED
  BY <1>3, <1>4, <1>10, <1>11, <1>12, <1>13, <1>14, <1>15
  DEF Next, Environment, Cluster, Panel, ContainerStarts, ContainerExits, ContainerRestarts, PodDeleted

LEMMA EventTypes ==
  /\ \A k \in Lines : Event("line", k) \in Events
  /\ \A kind \in Final : Event(kind, 0) \in Events
  BY DEF Event, Events

LEMMA BusTyped ==
  ASSUME Types, [Next]_vars
  PROVE  bus' \in Buses /\ Len(bus'.q) <= LineBuffer
<1>0. bus \in Buses /\ Len(bus.q) <= LineBuffer /\ bus.q \in Seq(Events) /\ Len(bus.q) \in Nat
  BY LenProperties DEF Types, Buses
<1>1. CASE UNCHANGED bus
  BY <1>0, <1>1
<1>2. CASE bus' = NoBus
  <2>1. Len(NoBus.q) = 0
    BY IdleTypes, EmptySeq
  <2> QED
    BY <1>2, <2>1, IdleTypes, Limits
<1>3. CASE Reader \/ Break
  BY <1>0, <1>1, <1>3, ReaderKind, EventTypes, PublishFacts, Limits DEF Reads, Emits, Ends
<1>4. CASE Slept \/ Reconnect \/ Leave \/ Stop
  BY <1>0, <1>1, <1>4, DropKind DEF Drops, Close, Buses
<1>5. CASE Forward
  <2>1. CASE ForwardLagged \/ ForwardClosed
    BY <1>0, <2>1 DEF ForwardLagged, ForwardClosed, Buses
  <2>2. CASE ForwardLines
    <3> DEFINE n == Len(Run(bus.q))
               t == SubSeq(bus.q, n + 1, Len(bus.q))
    <3>1. n \in 1..BatchMax /\ n <= Len(bus.q)
      BY <1>0, <2>2, RunFacts DEF ForwardLines
    <3>2. t \in Seq(Events) /\ Len(t) <= Len(bus.q)
      <4>1. \A i \in n + 1..Len(bus.q) : bus.q[i] \in Events
        BY <1>0, <3>1, ElementOfSeq
      <4>2. /\ t \in Seq(Events)
            /\ Len(t) = IF n + 1 <= Len(bus.q) THEN Len(bus.q) - (n + 1) + 1 ELSE 0
        BY <1>0, <3>1, <4>1, SubSeqProperties
      <4> HIDE DEF n, t
      <4> QED
        BY <1>0, <3>1, <4>2, Limits
    <3>3. bus' = [bus EXCEPT !.q = t]
      BY <2>2 DEF ForwardLines
    <3> HIDE DEF t
    <3>4. bus' \in Buses /\ bus'.q = t
      BY <1>0, <3>2, <3>3 DEF Buses
    <3> QED
      BY <1>0, <3>2, <3>4, Limits, LenProperties
  <2>3. CASE ForwardFinal
    <3> DEFINE t == Tail(bus.q)
    <3>1. t \in Seq(Events) /\ Len(t) = Len(bus.q) - 1
      BY <1>0, <2>3, HeadTailProperties DEF ForwardFinal
    <3>2. bus' = [bus EXCEPT !.q = t, !.fwd = FALSE]
      BY <2>3 DEF ForwardFinal
    <3> HIDE DEF t
    <3>4. bus' \in Buses /\ bus'.q = t
      BY <1>0, <3>1, <3>2 DEF Buses
    <3> QED
      BY <1>0, <3>1, <3>4, Limits
  <2> QED
    BY <1>5, <2>1, <2>2, <2>3 DEF Forward
<1>6. CASE Bind
  <2>1. UNCHANGED bus \/ bus' = [NoBus EXCEPT !.fwd = TRUE]
    BY <1>6 DEF Bind, pipe
  <2>2. [NoBus EXCEPT !.fwd = TRUE] \in Buses /\ [NoBus EXCEPT !.fwd = TRUE].q = <<>>
    BY IdleTypes DEF Buses
  <2>3. Len(<<>>) = 0 /\ 0 <= LineBuffer
    BY Limits
  <2> QED
    BY <1>1, <2>1, <2>2, <2>3
<1>7. CASE Want \/ Again \/ Unwant \/ Unmount \/ Resume \/ Reply \/ ReplyError
  BY <1>1, <1>2, <1>7, PanelPipe DEF pipe
<1>8. CASE Environment \/ Unhealthy \/ EvictEntry \/ UNCHANGED vars
  BY <1>1, <1>3, <1>8, EnvironmentKind DEF Environment, Calm
<1>9. CASE Insert \/ Deliver
  BY <1>1, <1>9 DEF Insert, Deliver, pipe
<1> QED
  BY <1>3, <1>4, <1>5, <1>6, <1>7, <1>8, <1>9 DEF Next, Cluster, Panel

FrameOK(f) == /\ f \in Frames /\ Len(f.lines) <= BatchMax
              /\ f.kind = "lines" <=> f.lines # <<>>

LEMMA ChanTyped ==
  ASSUME Types, [Next]_vars
  PROVE  chan' \in Seq(Frames) /\ \A i \in 1..Len(chan') : FrameOK(chan'[i])
<1>0. /\ chan \in Seq(Frames) /\ Len(chan) \in Nat /\ \A i \in 1..Len(chan) : FrameOK(chan[i])
      /\ bus.q \in Seq(Events)
  BY LenProperties, ElementOfSeq DEF Types, FrameOK, Buses
<1>1. CASE UNCHANGED chan
  BY <1>0, <1>1
<1>2. CASE chan' = <<>>
  BY <1>2, EmptySeq
<1>3. ASSUME NEW f, FrameOK(f), chan' = Append(chan, f)
      PROVE  chan' \in Seq(Frames) /\ \A i \in 1..Len(chan') : FrameOK(chan'[i])
  <2>1. /\ chan' \in Seq(Frames) /\ Len(chan') = Len(chan) + 1 /\ chan'[Len(chan) + 1] = f
        /\ \A i \in 1..Len(chan) : chan'[i] = chan[i]
    BY <1>0, <1>3, AppendProperties DEF FrameOK
  <2>2. \A i \in 1..Len(chan') : i \in 1..Len(chan) \/ i = Len(chan) + 1
    BY <1>0, <2>1
  <2> QED
    BY <1>0, <1>3, <2>1, <2>2
<1>4. ASSUME NEW k \in {"lagged"} \cup Final PROVE FrameOK(Frame(k, <<>>))
  <2>1. Len(<<>>) = 0 /\ 0 <= BatchMax /\ <<>> \in Seq(Lines)
    BY Limits
  <2> QED
    BY <2>1 DEF FrameOK, Frame, Frames, Final
<1>5. CASE Forward
  <2>1. CASE ForwardLines
    <3>1. Run(bus.q) \in Seq(Lines) /\ Len(Run(bus.q)) \in 1..BatchMax
      BY <1>0, <2>1, RunFacts DEF ForwardLines
    <3>2. Run(bus.q) # <<>>
      BY <3>1, Limits
    <3>3. FrameOK(Frame("lines", Run(bus.q)))
      BY <3>1, <3>2, Limits DEF FrameOK, Frame, Frames
    <3> QED
      BY <1>3, <2>1, <3>3 DEF ForwardLines
  <2>2. CASE ForwardLagged \/ ForwardFinal \/ ForwardClosed
    <3>1. \E k \in {"lagged"} \cup Final : chan' = Append(chan, Frame(k, <<>>))
      BY <2>2 DEF ForwardLagged, ForwardFinal, ForwardClosed, Final
    <3> QED
      BY <1>3, <1>4, <3>1
  <2> QED
    BY <1>5, <2>1, <2>2 DEF Forward
<1>6. CASE Deliver
  <2>1. chan # <<>> /\ chan' = Tail(chan)
    BY <1>6 DEF Deliver
  <2>2. /\ chan' \in Seq(Frames) /\ Len(chan') = Len(chan) - 1
        /\ \A i \in 1..Len(chan') : chan'[i] = chan[i + 1]
    BY <1>0, <2>1, HeadTailProperties
  <2>3. \A i \in 1..Len(chan') : i + 1 \in 1..Len(chan)
    BY <1>0, <2>2
  <2> QED
    BY <1>0, <2>2, <2>3
<1>7. CASE Want \/ Again \/ Unwant \/ Unmount \/ Resume \/ Reply \/ ReplyError
  BY <1>1, <1>2, <1>7, PanelPipe DEF pipe
<1>8. CASE Environment \/ Unhealthy \/ EvictEntry \/ UNCHANGED vars \/ Reader
  BY <1>1, <1>8, EnvironmentKind, ReaderKind DEF Environment, Calm, Reads, Emits, Ends
<1>9. CASE Slept \/ Reconnect \/ Leave \/ Stop
  BY <1>1, <1>9, DropKind DEF Drops
<1>10. CASE Bind \/ Insert
  BY <1>1, <1>2, <1>10 DEF Bind, Insert, pipe
<1> QED
  BY <1>5, <1>6, <1>7, <1>8, <1>9, <1>10 DEF Next, Cluster, Panel

(* The panel's record. *)
LEMMA PanelUpdates ==
  ASSUME NEW v \in Panels, NEW b \in BOOLEAN, NEW r \in Ids \cup {0}, NEW st \in Statuses, NEW t \in Nat
  PROVE  /\ [v EXCEPT !.starting = TRUE, !.status = "starting", !.intr = b] \in Panels
         /\ [v EXCEPT !.wanted = b] \in Panels /\ [v EXCEPT !.intr = b] \in Panels
         /\ [v EXCEPT !.wanted = FALSE, !.run = 0, !.status = "none"] \in Panels
         /\ [NoView EXCEPT !.mounted = FALSE] \in Panels
         /\ [v EXCEPT !.starting = FALSE] \in Panels
         /\ [v EXCEPT !.starting = FALSE, !.run = r, !.status = st] \in Panels
         /\ [v EXCEPT !.starting = FALSE, !.intr = TRUE, !.status = st] \in Panels
         /\ [v EXCEPT !.starting = FALSE, !.status = st] \in Panels
         /\ [v EXCEPT !.intr = TRUE, !.run = 0, !.status = st] \in Panels
         /\ [v EXCEPT !.ts = t, !.status = st] \in Panels
         /\ [v EXCEPT !.status = st] \in Panels
<1>0. "none" \in Statuses /\ "starting" \in Statuses /\ 0 \in Ids \cup {0}
  BY DEF Statuses
<1>1. [v EXCEPT !.starting = TRUE, !.status = "starting", !.intr = b] \in Panels
  BY <1>0 DEF Panels
<1>2. [v EXCEPT !.wanted = b] \in Panels /\ [v EXCEPT !.intr = b] \in Panels
  BY DEF Panels
<1>3. [v EXCEPT !.wanted = FALSE, !.run = 0, !.status = "none"] \in Panels
  BY <1>0 DEF Panels
<1>4. [NoView EXCEPT !.mounted = FALSE] \in Panels
  BY <1>0 DEF Panels, NoView
<1>5. [v EXCEPT !.starting = FALSE] \in Panels
  BY DEF Panels
<1>6. [v EXCEPT !.starting = FALSE, !.run = r, !.status = st] \in Panels
  BY DEF Panels
<1>7. [v EXCEPT !.starting = FALSE, !.intr = TRUE, !.status = st] \in Panels
  BY DEF Panels
<1>8. [v EXCEPT !.starting = FALSE, !.status = st] \in Panels
  BY DEF Panels
<1>9. [v EXCEPT !.intr = TRUE, !.run = 0, !.status = st] \in Panels
  BY <1>0 DEF Panels
<1>10. [v EXCEPT !.ts = t, !.status = st] \in Panels
  BY DEF Panels
<1>11. [v EXCEPT !.status = st] \in Panels
  BY DEF Panels
<1> QED
  BY <1>1, <1>2, <1>3, <1>4, <1>5, <1>6, <1>7, <1>8, <1>9, <1>10, <1>11

-----------------------------------------------------------------------------
(* What the panel's steps do.  It starts a stream, afresh or to resume; *)
Starts ==
  /\ view.mounted /\ ~view.starting
  /\ view'.mounted /\ view'.wanted /\ view'.starting /\ ~view'.intr
  /\ view'.status = "starting" /\ view'.run = view.run /\ view'.ts = view.ts
  /\ call'.pc = "sent" /\ ~strayed'
  /\ \/ view.run = 0 /\ ~view.intr /\ ~call'.resume /\ call'.after = 0
     \/ view.wanted /\ view.intr /\ call'.resume /\ call'.after = view.ts

(* it marks the source as wanted again, or forgets an interruption; *)
Marks ==
  /\ view.mounted /\ view'.mounted /\ ~view.wanted /\ view'.starting = view.starting
  /\ view'.status = view.status /\ view'.run = view.run /\ view'.ts = view.ts
  /\ UNCHANGED <<call, strayed>>
  /\ \/ view'.wanted /\ view'.intr = view.intr /\ (view.run # 0 \/ view.starting \/ view.intr)
     \/ ~view'.wanted /\ view.intr /\ ~view'.intr

(* the source leaves it, or it goes away itself. *)
Leaves ==
  /\ view.mounted /\ ~view'.wanted /\ view'.run = 0 /\ view'.status = "none" /\ shown' = <<>>
  /\ stops' = stops \cup ({view.run} \ {0}) /\ Detached(view.run)
  /\ UNCHANGED <<previous, logs, call, cut>>
  /\ \/ /\ view.wanted /\ view'.mounted /\ view'.starting = view.starting /\ view'.intr = view.intr
        /\ view'.ts = view.ts /\ strayed' = (strayed \/ view.starting)
     \/ /\ ~view'.mounted /\ ~view'.starting /\ ~view'.intr /\ UNCHANGED strayed

LEMMA StartFacts ==
  ASSUME Types, Want \/ Again \/ Resume
  PROVE  /\ Starts \/ Marks
         /\ UNCHANGED <<previous, pipe, logs, stops, shown, cut>>
         /\ view' \in Panels /\ call' \in Calls /\ strayed' \in BOOLEAN
<1>0. view \in Panels /\ call \in Calls /\ strayed \in BOOLEAN
  BY DEF Types
<1>1. UNCHANGED <<previous, pipe, logs, stops, shown, cut>>
  BY DEF Want, Again, Resume, server
<1>2. ASSUME NEW v \in Panels, NEW resume \in BOOLEAN, Started(v, resume)
      PROVE  /\ view' \in Panels /\ view'.mounted = v.mounted /\ view'.wanted = v.wanted /\ view'.starting
             /\ view'.intr = (IF resume THEN FALSE ELSE v.intr) /\ view'.status = "starting"
             /\ view'.run = v.run /\ view'.ts = v.ts
             /\ call' \in Calls /\ call'.pc = "sent" /\ call'.resume = resume
             /\ call'.after = (IF resume THEN v.ts ELSE 0) /\ ~strayed' /\ strayed' \in BOOLEAN
  <2> DEFINE b == IF resume THEN FALSE ELSE v.intr
             t == IF resume THEN v.ts ELSE 0
  <2>1. b \in BOOLEAN /\ t \in Nat
    BY <1>2 DEF Panels
  <2>2. view' = [v EXCEPT !.starting = TRUE, !.status = "starting", !.intr = b]
    BY <1>2 DEF Started
  <2>3. call' = [pc |-> "sent", resume |-> resume, after |-> t] /\ strayed' = FALSE
    BY <1>2 DEF Started
  <2> HIDE DEF b, t
  <2>4. view' \in Panels
    BY <1>2, <2>1, <2>2, PanelUpdates, 0 \in Ids \cup {0}, 0 \in Nat, "none" \in Statuses DEF Statuses
  <2>5. /\ view'.mounted = v.mounted /\ view'.wanted = v.wanted /\ view'.starting
        /\ view'.intr = b /\ view'.status = "starting" /\ view'.run = v.run /\ view'.ts = v.ts
    BY <1>2, <2>1, <2>2 DEF Panels
  <2>6. call' \in Calls /\ call'.pc = "sent" /\ call'.resume = resume /\ call'.after = t
    BY <2>1, <2>3 DEF Calls
  <2> QED
    BY <2>3, <2>4, <2>5, <2>6 DEF b, t
<1>3. CASE Want
  <2> DEFINE v == [view EXCEPT !.wanted = TRUE]
  <2>1. /\ v \in Panels /\ v.mounted = view.mounted /\ v.wanted /\ v.starting = view.starting
        /\ v.intr = view.intr /\ v.status = view.status /\ v.run = view.run /\ v.ts = view.ts
    BY <1>0 DEF Panels
  <2>2. view.mounted /\ ~view.wanted /\ Reconciled(v)
    BY <1>3 DEF Want
  <2> HIDE DEF v
  <2>3. CASE v.run # 0 \/ v.starting \/ v.intr
    <3>1. view' = v /\ UNCHANGED <<call, strayed>>
      BY <2>2, <2>3 DEF Reconciled
    <3> QED
      BY <1>0, <1>1, <2>1, <2>2, <2>3, <3>1 DEF Marks
  <2>4. CASE ~(v.run # 0 \/ v.starting \/ v.intr)
    <3>1. Started(v, FALSE)
      BY <2>2, <2>4 DEF Reconciled
    <3> QED
      BY <1>1, <1>2, <2>1, <2>2, <2>4, <3>1 DEF Starts
  <2> QED
    BY <2>3, <2>4
<1>4. CASE Again
  <2>1. view.mounted /\ view.wanted /\ Reconciled(view) /\ view' # view
    BY <1>4 DEF Again
  <2>2. Started(view, FALSE) /\ view.run = 0 /\ ~view.starting /\ ~view.intr
    BY <2>1 DEF Reconciled
  <2> QED
    BY <1>0, <1>1, <1>2, <2>1, <2>2 DEF Starts
<1>5. CASE Resume
  <2>1. CASE view.wanted
    <3>1. view.mounted /\ view.intr /\ ~view.starting /\ Started(view, TRUE)
      BY <1>5, <2>1 DEF Resume
    <3> QED
      BY <1>0, <1>1, <1>2, <2>1, <3>1 DEF Starts
  <2>2. CASE ~view.wanted
    <3>1. view.mounted /\ view.intr /\ view' = [view EXCEPT !.intr = FALSE] /\ UNCHANGED <<call, strayed>>
      BY <1>5, <2>2 DEF Resume
    <3>2. /\ view' \in Panels /\ view'.mounted = view.mounted /\ view'.wanted = view.wanted
          /\ view'.starting = view.starting /\ ~view'.intr /\ view'.status = view.status
          /\ view'.run = view.run /\ view'.ts = view.ts
      BY <1>0, <3>1 DEF Panels
    <3> QED
      BY <1>0, <1>1, <2>2, <3>1, <3>2 DEF Marks
  <2> QED
    BY <2>1, <2>2
<1> QED
  BY <1>3, <1>4, <1>5

LEMMA LeaveFacts ==
  ASSUME Types, Unwant \/ Unmount
  PROVE  Leaves /\ view' \in Panels /\ strayed' \in BOOLEAN /\ stops' \subseteq Ids
<1>0. view \in Panels /\ strayed \in BOOLEAN /\ stops \subseteq Ids /\ view.run \in Ids \cup {0}
  BY DEF Types, Panels
<1>1. stops' = stops \cup ({view.run} \ {0}) /\ Detached(view.run) /\ shown' = <<>> /\ view.mounted
      /\ UNCHANGED <<previous, logs, call, cut>>
  BY DEF Unwant, Unmount, server
<1>2. stops' \subseteq Ids
  BY <1>0, <1>1
<1>3. CASE Unwant
  <2>1. /\ view.wanted /\ view' = [view EXCEPT !.wanted = FALSE, !.run = 0, !.status = "none"]
        /\ strayed' = (strayed \/ view.starting)
    BY <1>3 DEF Unwant
  <2>2. /\ view' \in Panels /\ view'.mounted = view.mounted /\ ~view'.wanted
        /\ view'.starting = view.starting /\ view'.intr = view.intr /\ view'.status = "none"
        /\ view'.run = 0 /\ view'.ts = view.ts
    BY <1>0, <2>1 DEF Panels, Statuses
  <2>3. strayed' \in BOOLEAN
    BY <2>1
  <2> QED
    BY <1>1, <1>2, <2>1, <2>2, <2>3 DEF Leaves
<1>4. CASE Unmount
  <2>1. view' = [NoView EXCEPT !.mounted = FALSE] /\ UNCHANGED strayed
    BY <1>4 DEF Unmount, history
  <2>2. view' \in Panels /\ ~view'.mounted /\ ~view'.wanted /\ ~view'.starting /\ ~view'.intr
        /\ view'.status = "none" /\ view'.run = 0
    BY <2>1 DEF NoView, Panels, Statuses
  <2> QED
    BY <1>0, <1>1, <1>2, <2>1, <2>2 DEF Leaves
<1> QED
  BY <1>3, <1>4

(* The reply is taken, or its stream is stopped at once. *)
Takes ==
  /\ call.pc = "reply" /\ call'.pc = "none" /\ ~view'.starting
  /\ UNCHANGED <<previous, logs, shown, cut, strayed>>
  /\ view'.mounted = view.mounted /\ view'.wanted = view.wanted /\ view'.intr = view.intr
  /\ view'.ts = view.ts
  /\ \/ /\ view.mounted /\ view.wanted /\ view'.run = sid /\ UNCHANGED <<stops, pipe>>
        /\ view'.status = (IF view.status = "starting" THEN "streaming" ELSE view.status)
     \/ /\ ~(view.mounted /\ view.wanted) /\ view'.run = view.run /\ view'.status = view.status
        /\ stops' = stops \cup {sid} /\ Detached(sid)

(* The start failed; a resume is tried again. *)
Fails ==
  /\ call.pc = "err" /\ call'.pc = "none" /\ ~view'.starting
  /\ UNCHANGED <<previous, pipe, logs, stops, shown, cut, strayed>>
  /\ view'.mounted = view.mounted /\ view'.wanted = view.wanted /\ view'.ts = view.ts
  /\ view'.run = view.run
  /\ \/ ~(view.mounted /\ view.wanted) /\ view'.intr = view.intr /\ view'.status = view.status
     \/ view.mounted /\ view.wanted /\ call.resume /\ view'.intr /\ view'.status = "waiting"
     \/ /\ view.mounted /\ view.wanted /\ ~call.resume /\ view'.intr = view.intr
        /\ view'.status = "error"

LEMMA NoCallFacts == NoCall \in Calls /\ NoCall.pc = "none"
  BY DEF NoCall, Calls

LEMMA TakeFacts ==
  ASSUME Types, Reply, sid \in Ids
  PROVE  Takes /\ view' \in Panels /\ call' \in Calls /\ stops' \subseteq Ids
<1>0. view \in Panels /\ stops \subseteq Ids
  BY DEF Types
<1>1. call.pc = "reply" /\ call' = NoCall /\ UNCHANGED <<previous, logs, shown, cut, strayed>>
  BY DEF Reply, server, history
<1>2. CASE view.mounted /\ view.wanted
  <2> DEFINE st == IF view.status = "starting" THEN "streaming" ELSE view.status
  <2>1. view' = [view EXCEPT !.starting = FALSE, !.run = sid, !.status = st] /\ UNCHANGED <<stops, pipe>>
    BY <1>2 DEF Reply
  <2>2. st \in Statuses
    BY <1>0 DEF Panels, Statuses
  <2> HIDE DEF st
  <2>3. view' \in Panels
    BY <1>0, <2>1, <2>2 DEF Panels
  <2>4. /\ view'.mounted = view.mounted /\ view'.wanted = view.wanted /\ ~view'.starting
        /\ view'.intr = view.intr /\ view'.ts = view.ts /\ view'.run = sid /\ view'.status = st
    BY <1>0, <2>1 DEF Panels
  <2> QED
    BY <1>0, <1>1, <1>2, <2>1, <2>3, <2>4, NoCallFacts DEF Takes, st
<1>3. CASE ~(view.mounted /\ view.wanted)
  <2>1. view' = [view EXCEPT !.starting = FALSE] /\ stops' = stops \cup {sid} /\ Detached(sid)
    BY <1>3 DEF Reply
  <2>2. /\ view' \in Panels
        /\ view'.mounted = view.mounted /\ view'.wanted = view.wanted /\ ~view'.starting
        /\ view'.intr = view.intr /\ view'.ts = view.ts /\ view'.run = view.run
        /\ view'.status = view.status
    BY <1>0, <2>1 DEF Panels
  <2> QED
    BY <1>0, <1>1, <1>3, <2>1, <2>2, NoCallFacts DEF Takes
<1> QED
  BY <1>2, <1>3

LEMMA FailFacts ==
  ASSUME Types, ReplyError
  PROVE  Fails /\ view' \in Panels /\ call' \in Calls
<1>0. view \in Panels
  BY DEF Types
<1>1. /\ call.pc = "err" /\ call' = NoCall
      /\ UNCHANGED <<previous, pipe, logs, stops, shown, cut, strayed>>
  BY DEF ReplyError, server, history
<1>2. CASE ~(view.mounted /\ view.wanted)
  <2>1. view' = [view EXCEPT !.starting = FALSE]
    BY <1>2 DEF ReplyError
  <2>2. /\ view' \in Panels
        /\ view'.mounted = view.mounted /\ view'.wanted = view.wanted /\ ~view'.starting
        /\ view'.intr = view.intr /\ view'.ts = view.ts /\ view'.run = view.run
        /\ view'.status = view.status
    BY <1>0, <2>1 DEF Panels
  <2> QED
    BY <1>1, <1>2, <2>2, NoCallFacts DEF Fails
<1>3. CASE view.mounted /\ view.wanted /\ call.resume
  <2>1. view' = [view EXCEPT !.starting = FALSE, !.intr = TRUE, !.status = "waiting"]
    BY <1>3 DEF ReplyError
  <2>2. /\ view' \in Panels
        /\ view'.mounted = view.mounted /\ view'.wanted = view.wanted /\ ~view'.starting
        /\ view'.intr /\ view'.ts = view.ts /\ view'.run = view.run
        /\ view'.status = "waiting"
    BY <1>0, <2>1 DEF Panels, Statuses
  <2> QED
    BY <1>1, <1>3, <2>2, NoCallFacts DEF Fails
<1>4. CASE view.mounted /\ view.wanted /\ ~call.resume
  <2>1. view' = [view EXCEPT !.starting = FALSE, !.status = "error"]
    BY <1>4 DEF ReplyError
  <2>2. /\ view' \in Panels
        /\ view'.mounted = view.mounted /\ view'.wanted = view.wanted /\ ~view'.starting
        /\ view'.intr = view.intr /\ view'.ts = view.ts /\ view'.run = view.run
        /\ view'.status = "error"
    BY <1>0, <2>1 DEF Panels, Statuses
  <2> QED
    BY <1>1, <1>4, <2>2, NoCallFacts DEF Fails
<1> QED
  BY <1>2, <1>3, <1>4

(* A frame reaches the panel. *)
Arrives ==
  /\ chan # <<>> /\ chan' = Tail(chan)
  /\ UNCHANGED <<previous, reader, bus, sid, logs, call, cut, strayed>>
  /\ view'.mounted = view.mounted /\ view'.wanted = view.wanted /\ view'.starting = view.starting
  /\ \/ ~(view.mounted /\ view.wanted) /\ UNCHANGED <<view, stops, shown>>
     \/ /\ view.mounted /\ view.wanted /\ chan[1].kind = "interrupted"
        /\ view'.intr /\ view'.run = 0 /\ view'.ts = view.ts /\ view'.status = "waiting"
        /\ stops' = stops \cup ({view.run} \ {0}) /\ UNCHANGED shown
     \/ /\ view.mounted /\ view.wanted /\ chan[1].kind = "lines"
        /\ view'.intr = view.intr /\ view'.run = view.run
        /\ view'.ts = Stamp[chan[1].lines[Len(chan[1].lines)]]
        /\ view'.status = view.status \/ view'.status = "streaming"
        /\ view'.status = "streaming" => view.status \in {"none", "waiting", "starting", "streaming"}
        /\ shown' = shown \o chan[1].lines /\ UNCHANGED stops
     \/ /\ view.mounted /\ view.wanted /\ chan[1].kind = "lagged"
        /\ shown' = Append(shown, 0) /\ UNCHANGED <<view, stops>>
     \/ /\ view.mounted /\ view.wanted /\ chan[1].kind = "ended"
        /\ view'.intr = view.intr /\ view'.run = view.run /\ view'.ts = view.ts
        /\ view'.status = "ended" /\ UNCHANGED <<stops, shown>>

LEMMA ArriveFacts ==
  ASSUME Types, Deliver
  PROVE  Arrives /\ view' \in Panels /\ stops' \subseteq Ids /\ shown' \in Seq(0..MaxLines)
<1>0. /\ view \in Panels /\ stops \subseteq Ids /\ shown \in Seq(0..MaxLines) /\ chan \in Seq(Frames)
      /\ view.run \in Ids \cup {0} /\ view.status \in Statuses
  BY DEF Types, Panels
<1>1. /\ chan # <<>> /\ chan' = Tail(chan) /\ Head(chan) = chan[1]
      /\ UNCHANGED <<previous, reader, bus, sid, logs, call, cut, strayed>>
  BY <1>0 DEF Deliver, server
<1>2. CASE ~(view.mounted /\ view.wanted)
  <2>1. UNCHANGED <<view, stops, shown>>
    BY <1>2 DEF Deliver
  <2> QED
    BY <1>0, <1>1, <1>2, <2>1 DEF Arrives
<1>3. CASE view.mounted /\ view.wanted
  <2>0. Handled(chan[1])
    BY <1>1, <1>3 DEF Deliver
  <2>1. CASE chan[1].kind = "interrupted"
    <3>1. /\ view' = [view EXCEPT !.intr = TRUE, !.run = 0, !.status = "waiting"]
          /\ stops' = stops \cup ({view.run} \ {0}) /\ UNCHANGED shown
      BY <2>0, <2>1 DEF Handled
    <3>2. /\ view' \in Panels /\ view'.mounted = view.mounted /\ view'.wanted = view.wanted
          /\ view'.starting = view.starting /\ view'.intr /\ view'.run = 0 /\ view'.ts = view.ts
          /\ view'.status = "waiting"
      BY <1>0, <3>1 DEF Panels, Statuses
    <3>3. stops' \subseteq Ids
      BY <1>0, <3>1
    <3> QED
      BY <1>0, <1>1, <1>3, <2>1, <3>1, <3>2, <3>3 DEF Arrives
  <2>2. CASE chan[1].kind = "lines"
    <3> DEFINE ls == chan[1].lines
               t == Stamp[ls[Len(ls)]]
               st == Streaming(view.status)
    <3>1. 1 \in 1..Len(chan) /\ ls \in Seq(Lines) /\ ls # <<>>
      <4>1. 1 \in 1..Len(chan)
        BY <1>0, <1>1, EmptySeq
      <4>2. chan[1] \in Frames
        BY <1>0, <4>1, ElementOfSeq
      <4>3. ls # <<>>
        BY <2>2, <4>1 DEF Types
      <4> HIDE DEF ls
      <4> QED
        BY <4>1, <4>2, <4>3 DEF Frames, ls
    <3>2. Len(ls) \in 1..Len(ls) /\ ls[Len(ls)] \in Lines
      BY <3>1, EmptySeq, ElementOfSeq
    <3>3. t \in Nat /\ st \in Statuses
      BY <1>0, <3>2, Limits DEF Streaming, Statuses
    <3>4. (st = view.status \/ st = "streaming") /\ (st = "streaming" => view.status \in {"none", "waiting", "starting", "streaming"})
      BY <1>0 DEF Streaming
    <3>5. view' = [view EXCEPT !.ts = t, !.status = st] /\ shown' = shown \o ls /\ UNCHANGED stops
      BY <2>0, <2>2 DEF Handled
    <3>6. shown' \in Seq(0..MaxLines)
      <4>1. Lines \subseteq 0..MaxLines
        BY Limits
      <4>2. ls \in Seq(0..MaxLines)
        BY <3>1, <4>1, SeqMonotonic
      <4> QED
        BY <1>0, <3>5, <4>2, ConcatProperties
    <3>7. ls = chan[1].lines /\ t = Stamp[chan[1].lines[Len(chan[1].lines)]]
      OBVIOUS
    <3> HIDE DEF ls, t, st
    <3>8. /\ view' \in Panels /\ view'.mounted = view.mounted /\ view'.wanted = view.wanted
          /\ view'.starting = view.starting /\ view'.intr = view.intr /\ view'.run = view.run
          /\ view'.ts = t /\ view'.status = st
      BY <1>0, <3>3, <3>5 DEF Panels
    <3> QED
      BY <1>0, <1>1, <1>3, <2>2, <3>4, <3>5, <3>6, <3>7, <3>8 DEF Arrives
  <2>3. CASE chan[1].kind = "lagged"
    <3>1. shown' = Append(shown, 0) /\ UNCHANGED <<view, stops>>
      BY <2>0, <2>3 DEF Handled
    <3>2. shown' \in Seq(0..MaxLines)
      BY <1>0, <3>1, Limits, AppendProperties, 0 \in 0..MaxLines
    <3> QED
      BY <1>0, <1>1, <1>3, <2>3, <3>1, <3>2 DEF Arrives
  <2>4. CASE chan[1].kind = "ended"
    <3>1. view' = [view EXCEPT !.status = "ended"] /\ UNCHANGED <<stops, shown>>
      BY <2>0, <2>4 DEF Handled
    <3>2. /\ view' \in Panels /\ view'.mounted = view.mounted /\ view'.wanted = view.wanted
          /\ view'.starting = view.starting /\ view'.intr = view.intr /\ view'.run = view.run
          /\ view'.ts = view.ts /\ view'.status = "ended"
      BY <1>0, <3>1 DEF Panels, Statuses
    <3> QED
      BY <1>0, <1>1, <1>3, <2>4, <3>1, <3>2 DEF Arrives
  <2> QED
    BY <2>0, <2>1, <2>2, <2>3, <2>4 DEF Handled
<1> QED
  BY <1>2, <1>3

(* A start is refused, or it opens a stream under an unused id. *)
Refused ==
  /\ call.pc = "sent" /\ call'.pc = "err" /\ call'.resume = call.resume /\ call'.after = call.after
  /\ UNCHANGED <<previous, pipe, logs, stops, view, shown, cut, strayed>>
Bound ==
  /\ call.pc = "sent" /\ call'.pc = "bound" /\ call'.resume = call.resume /\ call'.after = call.after
  /\ sid' \in Ids \ (logs \cup stops \cup {view.run})
  /\ reader'.pc = "open" /\ (~previous => reader'.last = call.after)
  /\ bus'.fwd /\ ~bus'.closed /\ ~bus'.lagged /\ bus'.q = <<>> /\ chan' = <<>>
  /\ UNCHANGED <<previous, logs, stops, view, shown, cut, strayed>>

LEMMA BindFacts ==
  ASSUME Types, Bind
  PROVE  (Refused \/ Bound) /\ call' \in Calls /\ sid' \in Ids \cup {0}
<1>0. call \in Calls /\ sid \in Ids \cup {0} /\ call.pc = "sent"
  BY DEF Types, Bind
<1>1. UNCHANGED <<previous, logs, stops, view, shown, cut, strayed>>
  BY DEF Bind, server
<1>2. CASE entry = "unavailable" \/ (entry = "none" /\ ~net)
  <2>1. call' = [call EXCEPT !.pc = "err"] /\ UNCHANGED pipe
    BY <1>2 DEF Bind
  <2>2. call' \in Calls /\ call'.pc = "err" /\ call'.resume = call.resume /\ call'.after = call.after
    BY <1>0, <2>1 DEF Calls
  <2> QED
    BY <1>0, <1>1, <2>1, <2>2 DEF Refused, pipe
<1>3. CASE ~(entry = "unavailable" \/ (entry = "none" /\ ~net))
  <2>1. /\ Unused # {} /\ sid' = CHOOSE s \in Unused : \A t \in Unused : s <= t
        /\ reader' = [NoReader EXCEPT !.pc = "open", !.first = call.after = 0,
                            !.last = IF previous THEN 0 ELSE call.after,
                            !.stuck = entry = "wedged"]
        /\ bus' = [NoBus EXCEPT !.fwd = TRUE] /\ chan' = <<>>
        /\ call' = [call EXCEPT !.pc = "bound"]
    BY <1>3 DEF Bind
  <2>2. Unused \in SUBSET Nat
    BY Limits DEF Unused
  <2>3. \E s \in Unused : \A t \in Unused : s <= t
    BY <2>1, <2>2, LeastNatural
  <2>4. sid' \in Ids \ (logs \cup stops \cup {view.run})
    BY <2>1, <2>3 DEF Unused
  <2>5. call' \in Calls /\ call'.pc = "bound" /\ call'.resume = call.resume /\ call'.after = call.after
    BY <1>0, <2>1 DEF Calls
  <2>6. reader'.pc = "open" /\ (~previous => reader'.last = call.after)
    BY <2>1 DEF NoReader
  <2>7. bus'.fwd /\ ~bus'.closed /\ ~bus'.lagged /\ bus'.q = <<>>
    BY <2>1 DEF NoBus
  <2> QED
    BY <1>0, <1>1, <2>1, <2>4, <2>5, <2>6, <2>7 DEF Bound
<1> QED
  BY <1>2, <1>3

Inserted ==
  /\ call.pc = "bound" /\ call'.pc = "reply" /\ call'.resume = call.resume /\ call'.after = call.after
  /\ logs' = logs \cup {sid}
  /\ UNCHANGED <<previous, pipe, stops, view, shown, cut, strayed>>

LEMMA InsertFacts ==
  ASSUME Types, Insert
  PROVE  Inserted /\ call' \in Calls
<1>1. call \in Calls
  BY DEF Types
<1>2. call' \in Calls /\ call'.pc = "reply" /\ call'.resume = call.resume /\ call'.after = call.after
  BY <1>1 DEF Insert, Calls
<1> QED
  BY <1>2 DEF Insert, Inserted, server, history

(* The forwarder's steps, with what they leave alone. *)
Forwards ==
  /\ bus.fwd /\ (ForwardLagged \/ ForwardLines \/ ForwardFinal \/ ForwardClosed)
  /\ UNCHANGED <<previous, reader, sid, logs, stops, call, view, shown, cut, strayed>>

(* Every step is of one of these kinds. *)
LEMMA Kinds ==
  ASSUME Types, [Next]_vars, call.pc \in {"bound", "reply"} => sid \in Ids
  PROVE  \/ Calm \/ Reads \/ Emits \/ Ends \/ Drops \/ Forwards \/ Refused \/ Bound \/ Inserted
         \/ (Starts \/ Marks) /\ UNCHANGED <<previous, pipe, logs, stops, shown, cut>>
         \/ Leaves \/ Takes \/ Fails \/ Arrives
<1>1. CASE Environment \/ Unhealthy \/ EvictEntry \/ Reader \/ UNCHANGED vars
  BY <1>1, EnvironmentKind, ReaderKind DEF Environment
<1>2. CASE Slept \/ Reconnect \/ Leave \/ Stop
  BY <1>2, DropKind
<1>3. CASE Forward
  BY <1>3 DEF Forward, Forwards, server, registry, history
<1>4. CASE Bind \/ Insert
  BY <1>4, BindFacts, InsertFacts
<1>5. CASE Want \/ Again \/ Resume
  BY <1>5, StartFacts
<1>6. CASE Unwant \/ Unmount
  BY <1>6, LeaveFacts
<1>7. CASE Reply \/ ReplyError \/ Deliver
  <2>1. Reply => call.pc = "reply"
    BY DEF Reply
  <2> QED
    BY <1>7, <2>1, TakeFacts, FailFacts, ArriveFacts
<1> QED
  BY <1>1, <1>2, <1>3, <1>4, <1>5, <1>6, <1>7 DEF Next, Cluster, Panel

LEMMA TypesStep ==
  ASSUME Types, [Next]_vars, call.pc \in {"bound", "reply"} => sid \in Ids
  PROVE  Types'
<1>1. ServerTypes'
  BY ServerStep
<1>2. PipeTypes'
  <2>1. chan' \in Seq(Frames) /\ \A i \in 1..Len(chan') : FrameOK(chan'[i])
    BY ChanTyped
  <2>2. \A i \in 1..Len(chan') :
          Len(chan'[i].lines) <= BatchMax /\ (chan'[i].kind = "lines" <=> chan'[i].lines # <<>>)
    BY <2>1 DEF FrameOK
  <2> QED
    BY <2>1, <2>2, ReaderTyped, BusTyped DEF PipeTypes
<1>3. PanelTypes'
  <2>0. PanelTypes
    BY TypesParts
  <2>1. orphan' \in BOOLEAN
    <3>1. orphan' = orphan \/ orphan' = FALSE \/ orphan' = (orphan \/ Alive)
      <4>1. CASE Environment \/ Cluster \/ Reader \/ Forward \/ Insert \/ Stop \/ UNCHANGED vars
        BY <4>1 DEF Environment, Cluster, Write, ContainerStarts, ContainerExits, ContainerRestarts,
           PodDeleted, Settle, NetDown, NetUp, Wedge, Break, Unhealthy, Slept, Reconnect, Leave,
           EvictLogs, EvictEntry, Reader, Forward, Insert, Stop, history, vars
      <4>2. CASE Bind
        BY <4>2 DEF Bind
      <4>3. CASE Panel
        BY <4>3 DEF Panel, Want, Again, Unwant, Unmount, Resume, Reply, ReplyError, Deliver, history
      <4> QED
        BY <4>1, <4>2, <4>3 DEF Next
    <3> QED
      BY <2>0, <3>1 DEF PanelTypes
  <2>2. cut' \subseteq Lines
    <3>1. cut' = cut \/ cut' = cut \cup {k \in 1..Floor : Stamp[k] > reader.last}
      <4>1. CASE Reader
        BY <4>1 DEF Reader, OpenOk, OpenStarting, OpenTransient, OpenFatal, ReadLine, ReadClosed,
           ReadError, EndSession, ProbeUnreachable, ProbeAlive, ProbeDone
      <4>2. CASE ~Reader
        <5>1. CASE Environment \/ Cluster \/ Forward \/ Insert \/ Stop \/ UNCHANGED vars
          BY <5>1 DEF Environment, Cluster, Write, ContainerStarts, ContainerExits, ContainerRestarts,
             PodDeleted, Settle, NetDown, NetUp, Wedge, Break, EndSession, Unhealthy, Slept, Reconnect,
             Leave, EvictLogs, EvictEntry, Forward, Insert, Stop, history, vars
        <5>2. CASE Bind
          BY <5>2 DEF Bind
        <5>3. CASE Panel
          BY <5>3 DEF Panel, Want, Again, Unwant, Unmount, Resume, Reply, ReplyError, Deliver, history
        <5> QED
          BY <4>2, <5>1, <5>2, <5>3 DEF Next
      <4> QED
        BY <4>1, <4>2
    <3>2. Floor \in 0..written
      BY LimitsAssumption DEF Floor, TailForOpen, NoTail, Types
    <3>3. 1..Floor \subseteq Lines
      BY <3>2, Limits DEF Types
    <3> QED
      BY <2>0, <3>1, <3>3 DEF PanelTypes
  <2>3. /\ logs' \subseteq Ids /\ stops' \subseteq Ids /\ sid' \in Ids \cup {0}
        /\ call' \in Calls /\ view' \in Panels /\ shown' \in Seq(0..MaxLines) /\ strayed' \in BOOLEAN
    <3> USE <2>0 DEF PanelTypes
    <3>1. CASE Environment \/ Unhealthy \/ EvictEntry \/ Reader \/ UNCHANGED vars
      BY <3>1, EnvironmentKind, ReaderKind DEF Environment, Calm, Reads, Emits, Ends
    <3>2. CASE Slept \/ Reconnect \/ Leave \/ Stop
      BY <3>2, DropKind DEF Drops
    <3>3. CASE Forward
      BY <3>3 DEF Forward, server, registry, history
    <3>4. CASE Bind
      BY <3>4, BindFacts DEF Refused, Bound, pipe
    <3>5. CASE Insert
      <4>1. Inserted /\ call' \in Calls /\ sid \in Ids
        BY <3>5, InsertFacts DEF Inserted
      <4> QED
        BY <4>1 DEF Inserted, pipe
    <3>6. CASE Want \/ Again \/ Resume
      BY <3>6, StartFacts DEF pipe
    <3>7. CASE Unwant \/ Unmount
      <4>1. Leaves /\ view' \in Panels /\ strayed' \in BOOLEAN /\ stops' \subseteq Ids
        BY <3>7, LeaveFacts
      <4>2. sid' = sid \/ sid' = 0
        BY <4>1 DEF Leaves, Detached, pipe
      <4> QED
        BY <4>1, <4>2, EmptySeq DEF Leaves
    <3>8. CASE Reply
      <4>1. Takes /\ view' \in Panels /\ call' \in Calls /\ stops' \subseteq Ids
        BY <3>8, TakeFacts DEF Reply
      <4>2. sid' = sid \/ sid' = 0
        BY <4>1 DEF Takes, Detached, pipe
      <4> QED
        BY <4>1, <4>2 DEF Takes
    <3>9. CASE ReplyError
      BY <3>9, FailFacts DEF Fails, pipe
    <3>10. CASE Deliver
      BY <3>10, ArriveFacts DEF Arrives
    <3> QED
      BY <3>1, <3>2, <3>3, <3>4, <3>5, <3>6, <3>7, <3>8, <3>9, <3>10 DEF Next, Cluster, Panel
  <2> QED
    BY <2>1, <2>2, <2>3 DEF PanelTypes
<1>4. ServerTypes' /\ PipeTypes' /\ PanelTypes' => Types'
  BY DEF Types, ServerTypes, PipeTypes, PanelTypes
<1> QED
  BY <1>1, <1>2, <1>3, <1>4

-----------------------------------------------------------------------------
(* What the forwarder's frame takes from the queue: n events. *)
Fetches(f, n) ==
  /\ f \in Frames /\ n \in 0..Len(bus.q) /\ chan' = Append(chan, f)
  /\ bus'.closed = bus.closed /\ Len(bus'.q) = Len(bus.q) - n
  /\ \A i \in 1..Len(bus'.q) : bus'.q[i] = bus.q[i + n]
  /\ \/ /\ f.kind = "lagged" /\ n = 0 /\ f.lines = <<>> /\ bus.lagged /\ ~bus'.lagged /\ bus'.fwd
     \/ /\ f.kind = "lines" /\ n = Len(f.lines) /\ n # 0 /\ ~bus.lagged /\ ~bus'.lagged /\ bus'.fwd
        /\ \A i \in 1..n : f.lines[i] = bus.q[i].line /\ bus.q[i].kind = "line"
     \/ /\ f.kind \in Final /\ n = 1 /\ f.lines = <<>> /\ bus.q[1].kind = f.kind
        /\ ~bus.lagged /\ ~bus'.lagged /\ ~bus'.fwd
     \/ /\ f.kind = "interrupted" /\ n = 0 /\ f.lines = <<>> /\ bus.closed /\ bus.q = <<>>
        /\ ~bus.lagged /\ ~bus'.lagged /\ ~bus'.fwd

LEMMA ForwardFacts ==
  ASSUME Types, Forwards
  PROVE  \E f \in Frames, n \in Nat : Fetches(f, n)
<1>0. bus \in Buses /\ bus.q \in Seq(Events) /\ Len(bus.q) \in Nat /\ bus.fwd
  BY LenProperties DEF Types, Buses, Forwards
<1>1. /\ \A i \in 1..Len(bus.q) : bus.q[i + 0] = bus.q[i]
      /\ 0 \in 0..Len(bus.q) /\ Len(bus.q) = Len(bus.q) - 0
  BY <1>0
<1>2. CASE ForwardLagged
  <2> DEFINE f == Frame("lagged", <<>>)
  <2>1. f \in Frames /\ f.kind = "lagged" /\ f.lines = <<>>
    BY EmptySeq DEF Frame, Frames
  <2>2. bus.lagged /\ chan' = Append(chan, f) /\ bus' = [bus EXCEPT !.lagged = FALSE]
    BY <1>2 DEF ForwardLagged
  <2> HIDE DEF f
  <2>3. bus'.q = bus.q /\ ~bus'.lagged /\ bus'.closed = bus.closed /\ bus'.fwd
    BY <1>0, <2>2 DEF Buses
  <2>4. Fetches(f, 0)
    BY <1>0, <1>1, <2>1, <2>2, <2>3 DEF Fetches
  <2> QED
    BY <2>1, <2>4
<1>3. CASE ForwardLines
  <2> DEFINE ls == Run(bus.q)
             f == Frame("lines", ls)
             s == SubSeq(bus.q, Len(ls) + 1, Len(bus.q))
  <2>1. ~bus.lagged /\ bus.q # <<>> /\ bus.q[1].kind = "line"
    BY <1>0, <1>3 DEF ForwardLines
  <2>2. /\ ls \in Seq(Lines) /\ Len(ls) \in 1..BatchMax /\ Len(ls) <= Len(bus.q)
        /\ \A i \in 1..Len(ls) : ls[i] = bus.q[i].line /\ bus.q[i].kind = "line"
    BY <1>0, <2>1, RunFacts
  <2>3. chan' = Append(chan, f) /\ bus' = [bus EXCEPT !.q = s]
    BY <1>3 DEF ForwardLines
  <2> HIDE DEF ls
  <2>4. f \in Frames /\ f.kind = "lines" /\ f.lines = ls
    BY <2>2 DEF Frame, Frames
  <2>5. Len(ls) \in Nat /\ Len(ls) # 0 /\ BatchMax \in Nat
    BY <2>2, LimitsAssumption
  <2>6. s \in Seq(Events) /\ Len(s) = Len(bus.q) - Len(ls) /\ \A i \in 1..Len(s) : s[i] = bus.q[i + Len(ls)]
    <3>1. Len(ls) + 1 \in Int /\ Len(bus.q) \in Int
      BY <1>0, <2>5
    <3>2. \A i \in (Len(ls) + 1)..Len(bus.q) : bus.q[i] \in Events
      BY <1>0, <2>5, ElementOfSeq
    <3>3. /\ s \in Seq(Events) /\ Len(s) = IF Len(ls) + 1 <= Len(bus.q) THEN Len(bus.q) - (Len(ls) + 1) + 1 ELSE 0
          /\ \A i \in 1..(Len(bus.q) - (Len(ls) + 1) + 1) : s[i] = bus.q[(Len(ls) + 1) + i - 1]
      BY <3>1, <3>2, SubSeqProperties
    <3> HIDE DEF s
    <3>4. Len(s) = Len(bus.q) - Len(ls)
      BY <1>0, <2>2, <2>5, <3>3
    <3>5. ASSUME NEW i \in 1..Len(s) PROVE s[i] = bus.q[i + Len(ls)]
      <4>1. i \in 1..(Len(bus.q) - (Len(ls) + 1) + 1) /\ (Len(ls) + 1) + i - 1 = i + Len(ls)
        BY <1>0, <2>5, <3>4
      <4> QED
        BY <3>3, <4>1
    <3> QED
      BY <3>3, <3>4, <3>5
  <2> HIDE DEF f, s
  <2>7. bus'.q = s /\ bus'.lagged = bus.lagged /\ bus'.closed = bus.closed /\ bus'.fwd
    BY <1>0, <2>3 DEF Buses
  <2>8. Fetches(f, Len(ls))
    BY <1>0, <2>1, <2>2, <2>3, <2>4, <2>5, <2>6, <2>7 DEF Fetches
  <2> QED
    BY <2>4, <2>5, <2>8
<1>4. CASE ForwardFinal
  <2> DEFINE f == Frame(Head(bus.q).kind, <<>>)
             s == Tail(bus.q)
  <2>1. ~bus.lagged /\ bus.q # <<>> /\ bus.q[1].kind \in Final /\ Head(bus.q) = bus.q[1]
    BY <1>0, <1>4 DEF ForwardFinal
  <2>2. chan' = Append(chan, f) /\ bus' = [bus EXCEPT !.q = s, !.fwd = FALSE]
    BY <1>4 DEF ForwardFinal
  <2>3. f \in Frames /\ f.kind = bus.q[1].kind /\ f.lines = <<>>
    BY <2>1, EmptySeq DEF Frame, Frames
  <2>4. s \in Seq(Events) /\ Len(s) = Len(bus.q) - 1 /\ \A i \in 1..Len(s) : s[i] = bus.q[i + 1]
    BY <1>0, <2>1, HeadTailProperties
  <2>5. 1 \in 0..Len(bus.q)
    BY <1>0, <2>1, EmptySeq
  <2> HIDE DEF f, s
  <2>6. bus'.q = s /\ bus'.lagged = bus.lagged /\ bus'.closed = bus.closed /\ ~bus'.fwd
    BY <1>0, <2>2 DEF Buses
  <2>7. Fetches(f, 1)
    BY <1>0, <2>1, <2>2, <2>3, <2>4, <2>5, <2>6 DEF Fetches
  <2> QED
    BY <2>3, <2>7
<1>5. CASE ForwardClosed
  <2> DEFINE f == Frame("interrupted", <<>>)
  <2>1. f \in Frames /\ f.kind = "interrupted" /\ f.lines = <<>>
    BY EmptySeq DEF Frame, Frames, Final
  <2>2. ~bus.lagged /\ bus.q = <<>> /\ bus.closed /\ chan' = Append(chan, f) /\ bus' = [bus EXCEPT !.fwd = FALSE]
    BY <1>5 DEF ForwardClosed
  <2> HIDE DEF f
  <2>3. bus'.q = bus.q /\ bus'.lagged = bus.lagged /\ bus'.closed = bus.closed /\ ~bus'.fwd
    BY <1>0, <2>2 DEF Buses
  <2>4. Fetches(f, 0)
    BY <1>1, <2>1, <2>2, <2>3 DEF Fetches
  <2> QED
    BY <2>1, <2>4
<1> QED
  BY <1>2, <1>3, <1>4, <1>5 DEF Forwards

(* A detached stream is forgotten; another one is left alone. *)
LEMMA DetachFacts ==
  ASSUME NEW s, Detached(s)
  PROVE  \/ /\ s = sid /\ sid' = 0 /\ ~Alive' /\ reader'.pc = "none" /\ chan' = <<>>
            /\ bus'.q = <<>> /\ ~bus'.fwd /\ ~bus'.closed /\ ~bus'.lagged
         \/ s # sid /\ UNCHANGED pipe
  BY DEF Detached, NoReader, NoBus, Alive

-----------------------------------------------------------------------------
(* Streams are owned. *)
OwnedInv == Types /\ PipeEnds /\ Handles /\ Registered /\ Followed

(* What a published event leaves of the queue. *)
LEMMA QueueFacts ==
  ASSUME Types, NEW e \in Events, bus' = Publish(bus, e)
  PROVE  /\ bus'.fwd = bus.fwd /\ bus'.closed = bus.closed
         /\ Len(bus'.q) \in Nat \ {0} /\ bus'.q[Len(bus'.q)] = e
         /\ \A i \in 1..(Len(bus'.q) - 1) : \E j \in 1..Len(bus.q) : bus'.q[i] = bus.q[j]
<1>0. bus \in Buses /\ Len(bus.q) <= LineBuffer /\ Len(bus.q) \in Nat /\ LineBuffer \in Nat
  BY LenProperties, LimitsAssumption DEF Types, Buses
<1>1. /\ Len(bus'.q) \in 1..LineBuffer /\ bus'.q[Len(bus'.q)] = e
      /\ bus'.fwd = bus.fwd /\ bus'.closed = bus.closed
      /\ \E d \in {0, 1} :
           /\ Len(bus'.q) = Len(bus.q) + 1 - d
           /\ \A i \in 1..(Len(bus'.q) - 1) : bus'.q[i] = bus.q[i + d]
  <2>1. /\ Len(Publish(bus, e).q) \in 1..LineBuffer
        /\ Publish(bus, e).q[Len(Publish(bus, e).q)] = e
        /\ Publish(bus, e).fwd = bus.fwd /\ Publish(bus, e).closed = bus.closed
        /\ \E d \in {0, 1} :
             /\ Len(Publish(bus, e).q) = Len(bus.q) + 1 - d
             /\ \A i \in 1..(Len(Publish(bus, e).q) - 1) : Publish(bus, e).q[i] = bus.q[i + d]
    <3>1. PICK d \in {0, 1} :
            /\ Len(Publish(bus, e).q) = Len(bus.q) + 1 - d
            /\ \A i \in 1..(Len(Publish(bus, e).q) - 1) : Publish(bus, e).q[i] = bus.q[i + d]
      BY <1>0, PublishFacts
    <3> QED
      BY <1>0, <3>1, PublishFacts
  <2> QED
    BY <2>1
<1>2. PICK d \in {0, 1} : /\ Len(bus'.q) = Len(bus.q) + 1 - d
                          /\ \A i \in 1..(Len(bus'.q) - 1) : bus'.q[i] = bus.q[i + d]
  BY <1>1
<1>3. ASSUME NEW i \in 1..(Len(bus'.q) - 1) PROVE \E j \in 1..Len(bus.q) : bus'.q[i] = bus.q[j]
  <2>1. i + d \in 1..Len(bus.q)
    BY <1>0, <1>2
  <2> QED
    BY <1>2, <2>1
<1> QED
  BY <1>0, <1>1, <1>3

(* What a new frame leaves of the channel, and what the one taken leaves. *)
LEMMA ChanFacts ==
  ASSUME Types
  PROVE  /\ \A f \in Frames : chan' = Append(chan, f) =>
              /\ Len(chan') = Len(chan) + 1 /\ chan'[Len(chan')] = f /\ chan' # <<>>
              /\ \A i \in 1..Len(chan) : chan'[i] = chan[i]
         /\ chan # <<>> /\ chan' = Tail(chan) =>
              /\ Len(chan') = Len(chan) - 1 /\ Len(chan) # 0
              /\ \A i \in 1..Len(chan') : chan'[i] = chan[i + 1]
         /\ Len(chan) \in Nat /\ (chan = <<>> <=> Len(chan) = 0)
<1>0. chan \in Seq(Frames) /\ Len(chan) \in Nat /\ (chan = <<>> <=> Len(chan) = 0)
  BY LenProperties, EmptySeq DEF Types
<1>1. ASSUME NEW f \in Frames, chan' = Append(chan, f)
      PROVE  /\ Len(chan') = Len(chan) + 1 /\ chan'[Len(chan')] = f /\ chan' # <<>>
             /\ \A i \in 1..Len(chan) : chan'[i] = chan[i]
  <2>1. chan' \in Seq(Frames) /\ Len(chan') = Len(chan) + 1 /\ chan'[Len(chan) + 1] = f
        /\ \A i \in 1..Len(chan) : chan'[i] = chan[i]
    BY <1>0, <1>1, AppendProperties
  <2>2. chan' # <<>>
    BY <1>0, <2>1, EmptySeq
  <2> QED
    BY <2>1, <2>2
<1>2. ASSUME chan # <<>>, chan' = Tail(chan)
      PROVE  Len(chan') = Len(chan) - 1 /\ \A i \in 1..Len(chan') : chan'[i] = chan[i + 1]
  BY <1>0, <1>2, HeadTailProperties
<1> QED
  BY <1>0, <1>1, <1>2

LEMMA FinishEvents == \A kind \in Final : Event(kind, 0) \in Events /\ Event(kind, 0).kind = kind /\ Event(kind, 0).line = 0
  BY DEF Event, Events, Final

LEMMA LineEvents == \A k \in Lines : Event("line", k) \in Events /\ Event("line", k).kind = "line" /\ Event("line", k).line = k
  BY DEF Event, Events

LEMMA PipeEndsInit == Init => PipeEnds /\ Handles /\ Registered /\ Followed
<1> SUFFICES ASSUME Init PROVE PipeEnds /\ Handles /\ Registered /\ Followed
  OBVIOUS
<1>1. /\ reader.pc = "none" /\ bus.q = <<>> /\ ~bus.fwd /\ ~bus.closed /\ chan = <<>> /\ sid = 0 /\ logs = {}
      /\ call.pc = "none" /\ view.mounted /\ ~view.wanted /\ ~view.starting /\ ~view.intr /\ view.run = 0
  BY DEF Init, NoReader, NoBus, NoCall, NoView
<1>2. Len(bus.q) = 0 /\ Len(chan) = 0 /\ Quiet
  BY <1>1 DEF Quiet, Alive
<1> QED
  BY <1>1, <1>2 DEF PipeEnds, Handles, Registered, Followed, NoStreamLeaked, Quiet, Alive

LEMMA PipeEndsStep ==
  ASSUME OwnedInv, [Next]_vars
  PROVE  PipeEnds'
<1>0. Types /\ PipeEnds /\ (call.pc \in {"bound", "reply"} => sid \in Ids)
  BY DEF OwnedInv, Registered
<1>1. CASE UNCHANGED <<bus, chan, sid>> /\ (Alive' <=> Alive)
  BY <1>0, <1>1 DEF PipeEnds, Quiet
<1>2. CASE Calm \/ Reads
  BY <1>1, <1>2 DEF Calm, Reads, Alive
<1>3. CASE Emits
  <2> DEFINE e == Event("line", reader.pos + 1)
  <2>1. e \in Events /\ e.kind = "line" /\ bus' = Publish(bus, e)
    BY <1>3, LineEvents DEF Emits
  <2> HIDE DEF e
  <2>2. Alive /\ Alive' /\ chan' = chan /\ sid' = sid
    BY <1>3 DEF Emits, Alive
  <2>3. /\ bus'.fwd = bus.fwd /\ bus'.closed = bus.closed /\ Len(bus'.q) \in Nat
        /\ bus'.q[Len(bus'.q)] = e
        /\ \A i \in 1..(Len(bus'.q) - 1) : \E j \in 1..Len(bus.q) : bus'.q[i] = bus.q[j]
    BY <1>0, <2>1, QueueFacts
  <2>4. bus.fwd /\ ~bus.closed /\ sid # 0 /\ \A i \in 1..Len(bus.q) : bus.q[i].kind \notin Final
    BY <1>0, <2>2 DEF PipeEnds, Quiet
  <2>5. \A i \in 1..Len(bus'.q) : bus'.q[i].kind \notin Final
    <3> SUFFICES ASSUME NEW i \in 1..Len(bus'.q) PROVE bus'.q[i].kind \notin Final
      OBVIOUS
    <3>1. i = Len(bus'.q) \/ i \in 1..(Len(bus'.q) - 1)
      BY <2>3
    <3> QED
      BY <2>1, <2>3, <2>4, <3>1 DEF Final
  <2> QED
    BY <1>0, <2>2, <2>3, <2>4, <2>5 DEF PipeEnds, Quiet
<1>4. CASE Ends
  <2>1. PICK kind \in Final : bus' = Publish(bus, Event(kind, 0))
    BY <1>4 DEF Ends
  <2>2. Alive /\ ~Alive' /\ chan' = chan /\ sid' = sid
    BY <1>4 DEF Ends, Alive, Over, NoReader
  <2>3. /\ bus'.fwd = bus.fwd /\ bus'.closed = bus.closed /\ Len(bus'.q) \in Nat
        /\ \A i \in 1..(Len(bus'.q) - 1) : \E j \in 1..Len(bus.q) : bus'.q[i] = bus.q[j]
    BY <1>0, <2>1, QueueFacts, FinishEvents
  <2>4. bus.fwd /\ ~bus.closed /\ sid # 0 /\ \A i \in 1..Len(bus.q) : bus.q[i].kind \notin Final
    BY <1>0, <2>2 DEF PipeEnds, Quiet
  <2>5. \A i \in 1..Len(bus'.q) : bus'.q[i].kind \in Final => i = Len(bus'.q)
    <3> SUFFICES ASSUME NEW i \in 1..Len(bus'.q), i # Len(bus'.q) PROVE bus'.q[i].kind \notin Final
      OBVIOUS
    <3>1. i \in 1..(Len(bus'.q) - 1)
      BY <2>3
    <3> QED
      BY <2>3, <2>4, <3>1
  <2> QED
    BY <1>0, <2>2, <2>3, <2>4, <2>5 DEF PipeEnds, Quiet
<1>5. CASE Drops
  <2>1. CASE UNCHANGED <<reader, bus>>
    BY <1>1, <1>5, <2>1 DEF Drops, Alive
  <2>2. CASE reader' = Over /\ bus' = Close(bus)
    <3>1. bus'.q = bus.q /\ bus'.fwd = bus.fwd /\ ~Alive' /\ chan' = chan /\ sid' = sid
      BY <1>0, <1>5, <2>2 DEF Drops, Close, Over, NoReader, Alive, Types, Buses
    <3> QED
      BY <1>0, <3>1 DEF PipeEnds, Quiet
  <2> QED
    BY <1>5, <2>1, <2>2 DEF Drops
<1>6. CASE Forwards
  <2>1. PICK f \in Frames, n \in Nat : Fetches(f, n)
    BY <1>0, <1>6, ForwardFacts
  <2>2. /\ Len(chan') = Len(chan) + 1 /\ chan'[Len(chan')] = f /\ chan' # <<>> /\ Len(chan) \in Nat
        /\ \A i \in 1..Len(chan) : chan'[i] = chan[i]
    BY <1>0, <2>1, ChanFacts DEF Fetches
  <2>3. bus.fwd /\ sid' = sid /\ (Alive' <=> Alive) /\ sid # 0
    BY <1>0, <1>6 DEF Forwards, Alive, PipeEnds, Quiet
  <2>4. /\ n \in 0..Len(bus.q) /\ bus'.closed = bus.closed /\ Len(bus'.q) = Len(bus.q) - n
        /\ \A i \in 1..Len(bus'.q) : bus'.q[i] = bus.q[i + n]
        /\ bus'.fwd => f.kind \in {"lagged", "lines"}
        /\ ~bus'.fwd => f.kind \in Final /\ ((bus.q = <<>> /\ bus.closed) \/ (n = 1 /\ bus.q[1].kind \in Final))
    <3>1. /\ n \in 0..Len(bus.q) /\ bus'.closed = bus.closed /\ Len(bus'.q) = Len(bus.q) - n
          /\ \A i \in 1..Len(bus'.q) : bus'.q[i] = bus.q[i + n]
      BY <2>1 DEF Fetches
    <3>2. "interrupted" \in Final
      BY DEF Final
    <3>3. \/ f.kind = "lagged" /\ bus'.fwd
          \/ f.kind = "lines" /\ bus'.fwd
          \/ f.kind \in Final /\ n = 1 /\ bus.q[1].kind = f.kind /\ ~bus'.fwd
          \/ f.kind = "interrupted" /\ bus.closed /\ bus.q = <<>> /\ ~bus'.fwd
      BY <2>1 DEF Fetches
    <3>4. bus'.fwd => f.kind \in {"lagged", "lines"}
      BY <3>3
    <3>5. ~bus'.fwd => f.kind \in Final /\ ((bus.q = <<>> /\ bus.closed) \/ (n = 1 /\ bus.q[1].kind \in Final))
      <4> SUFFICES ASSUME ~bus'.fwd
                   PROVE  f.kind \in Final /\ ((bus.q = <<>> /\ bus.closed) \/ (n = 1 /\ bus.q[1].kind \in Final))
        OBVIOUS
      <4>1. CASE f.kind \in Final /\ n = 1 /\ bus.q[1].kind = f.kind
        BY <4>1
      <4>2. CASE f.kind = "interrupted" /\ bus.closed /\ bus.q = <<>>
        BY <3>2, <4>2
      <4> QED
        BY <3>3, <4>1, <4>2
    <3> QED
      BY <3>1, <3>4, <3>5
  <2>5. Len(bus.q) \in Nat /\ (Len(bus.q) = 0 <=> bus.q = <<>>) /\ bus.q \in Seq(Events)
    BY <1>0, LenProperties, EmptySeq DEF Types, Buses
  <2>6. \A i \in 1..Len(bus'.q) : bus'.q[i].kind \in Final => i = Len(bus'.q) /\ ~Alive'
    <3> SUFFICES ASSUME NEW i \in 1..Len(bus'.q), bus'.q[i].kind \in Final
                 PROVE  i = Len(bus'.q) /\ ~Alive'
      OBVIOUS
    <3>1. i + n \in 1..Len(bus.q) /\ bus.q[i + n].kind \in Final
      BY <2>4, <2>5
    <3>2. i + n = Len(bus.q) /\ ~Alive
      BY <1>0, <3>1 DEF PipeEnds
    <3> QED
      BY <2>3, <2>4, <2>5, <3>2
  <2>7. ~bus'.fwd => ~Alive' /\ bus'.q = <<>>
    <3> SUFFICES ASSUME ~bus'.fwd PROVE ~Alive' /\ bus'.q = <<>>
      OBVIOUS
    <3>1. CASE bus.q = <<>> /\ bus.closed
      <4>1. ~Alive /\ Len(bus'.q) = 0
        BY <1>0, <2>4, <2>5, <3>1 DEF PipeEnds
      <4>2. bus'.q = <<>>
        BY <1>0, <4>1, BusTyped, EmptySeq DEF Buses
      <4> QED
        BY <2>3, <4>1, <4>2
    <3>2. CASE n = 1 /\ bus.q[1].kind \in Final
      <4>1. 1 \in 1..Len(bus.q)
        BY <2>4, <2>5, <3>2
      <4>2. ~Alive /\ Len(bus.q) = 1
        BY <1>0, <3>2, <4>1 DEF PipeEnds
      <4> QED
        BY <1>0, <2>1, <2>3, <4>1, <4>2, BusTyped, EmptySeq DEF Buses, Fetches
    <3> QED
      BY <2>4, <3>1, <3>2
  <2>8. \A i \in 1..Len(chan') : chan'[i].kind \in Final => i = Len(chan') /\ ~bus'.fwd
    <3> SUFFICES ASSUME NEW i \in 1..Len(chan'), chan'[i].kind \in Final
                 PROVE  i = Len(chan') /\ ~bus'.fwd
      OBVIOUS
    <3>1. ~(i \in 1..Len(chan))
      BY <1>0, <2>2, <2>3 DEF PipeEnds
    <3>2. i = Len(chan')
      BY <2>2, <3>1
    <3> QED
      BY <2>2, <2>4, <3>2 DEF Final
  <2> QED
    BY <1>0, <2>2, <2>3, <2>4, <2>6, <2>7, <2>8 DEF PipeEnds
<1>7. CASE Refused \/ Inserted \/ Fails \/ UNCHANGED pipe
  BY <1>1, <1>7 DEF Refused, Inserted, Fails, pipe, Alive
<1>8. CASE Bound
  <2>1. Len(bus'.q) = 0 /\ Len(chan') = 0 /\ sid' # 0
    BY <1>8, LimitsAssumption DEF Bound
  <2> QED
    BY <1>8, <2>1 DEF Bound, PipeEnds, Alive
<1>9. ASSUME NEW s, Detached(s) PROVE PipeEnds'
  BY <1>7, <1>9, DetachFacts DEF PipeEnds, Quiet
<1>10. CASE Leaves \/ Takes
  BY <1>7, <1>9, <1>10 DEF Leaves, Takes
<1>11. CASE Arrives
  <2>1. UNCHANGED <<bus, sid>> /\ (Alive' <=> Alive) /\ chan # <<>> /\ chan' = Tail(chan) /\ sid # 0
    BY <1>0, <1>11 DEF Arrives, Alive, PipeEnds, Quiet
  <2>2. /\ Len(chan) \in Nat /\ Len(chan') = Len(chan) - 1 /\ Len(chan) # 0
        /\ \A i \in 1..Len(chan') : chan'[i] = chan[i + 1]
    BY <1>0, <2>1, ChanFacts
  <2>3. chan' # <<>> => Len(chan') # 0
    BY <1>0, ChanTyped, EmptySeq
  <2>4. \A i \in 1..Len(chan') : chan'[i].kind \in Final => i = Len(chan') /\ ~bus'.fwd
    <3> SUFFICES ASSUME NEW i \in 1..Len(chan'), chan'[i].kind \in Final
                 PROVE  i = Len(chan') /\ ~bus'.fwd
      OBVIOUS
    <3>1. i + 1 \in 1..Len(chan) /\ chan[i + 1].kind \in Final
      BY <2>2
    <3>2. i + 1 = Len(chan) /\ ~bus.fwd
      BY <1>0, <3>1 DEF PipeEnds
    <3>3. i = Len(chan')
      BY <2>2, <3>2
    <3> QED
      BY <2>1, <3>2, <3>3
  <2>5. ~bus'.fwd /\ chan' # <<>> => chan'[Len(chan')].kind \in Final
    <3> SUFFICES ASSUME ~bus'.fwd, chan' # <<>> PROVE chan'[Len(chan')].kind \in Final
      OBVIOUS
    <3>1. chan[Len(chan)].kind \in Final
      BY <1>0, <2>1 DEF PipeEnds
    <3>2. Len(chan') \in 1..Len(chan') /\ Len(chan') + 1 = Len(chan)
      BY <2>2, <2>3
    <3> QED
      BY <2>2, <3>1, <3>2
  <2> QED
    BY <1>0, <2>1, <2>4, <2>5 DEF PipeEnds
<1> QED
  BY <1>0, <1>2, <1>3, <1>4, <1>5, <1>6, <1>7, <1>8, <1>10, <1>11, Kinds

(* A step of the reader or the forwarder, or a teardown, never wakes a     *)
(* stream that is over.                                                    *)
LEMMA QuietStays ==
  ASSUME Types, PipeEnds, Calm \/ Reads \/ Emits \/ Ends \/ Drops \/ Forwards
  PROVE  /\ Quiet => Quiet'
         /\ ~Quiet => ~Quiet'
         /\ UNCHANGED <<sid, call, view, strayed>>
<1>1. CASE Calm \/ Reads \/ UNCHANGED <<reader, bus, chan>>
  <2>1. UNCHANGED <<bus, chan>> /\ (Alive' <=> Alive)
    BY <1>1 DEF Calm, Reads, Alive
  <2>2. (Quiet => Quiet') /\ (~Quiet => ~Quiet')
    BY <2>1 DEF Quiet
  <2> QED
    BY <1>1, <2>2 DEF Calm, Reads, Drops, Emits, Ends, Forwards
<1>2. CASE Emits
  <2>1. Alive /\ Alive' /\ UNCHANGED <<sid, call, view, strayed>>
    BY <1>2 DEF Emits, Alive
  <2> QED
    BY <2>1 DEF Quiet
<1>3. CASE Ends
  <2>1. PICK kind \in Final : bus' = Publish(bus, Event(kind, 0))
    BY <1>3 DEF Ends
  <2>2. Alive /\ bus'.fwd = bus.fwd /\ UNCHANGED <<sid, call, view, strayed>>
    BY <1>3, <2>1, QueueFacts, FinishEvents DEF Ends
  <2>3. bus.fwd
    BY <2>2 DEF PipeEnds
  <2> QED
    BY <2>2, <2>3 DEF Quiet
<1>4. CASE Drops
  <2>1. UNCHANGED <<chan, sid, call, view, strayed>>
    BY <1>4 DEF Drops
  <2>2. CASE UNCHANGED <<reader, bus>>
    BY <2>1, <2>2 DEF Quiet, Alive
  <2>3. CASE reader' = Over /\ bus' = Close(bus)
    <3>1. ~Alive' /\ bus'.fwd = bus.fwd
      BY <2>3 DEF Over, NoReader, Alive, Close, Types, Buses
    <3>2. ~bus.fwd => ~Alive
      BY DEF PipeEnds
    <3> QED
      BY <2>1, <3>1, <3>2 DEF Quiet
  <2> QED
    BY <1>4, <2>2, <2>3 DEF Drops
<1>5. CASE Forwards
  <2>1. PICK f \in Frames, n \in Nat : Fetches(f, n)
    BY <1>5, ForwardFacts
  <2>2. chan' # <<>>
    BY <2>1, ChanFacts DEF Fetches
  <2>3. bus.fwd /\ UNCHANGED <<sid, call, view, strayed>>
    BY <1>5 DEF Forwards
  <2> QED
    BY <2>2, <2>3 DEF Quiet
<1> QED
  BY <1>1, <1>2, <1>3, <1>4, <1>5

(* A start begins only when no stream of the source can send. *)
LEMMA StartsQuiet ==
  ASSUME PipeEnds, Handles, Starts
  PROVE  Quiet /\ call.pc = "none"
<1>1. call.pc = "none"
  BY DEF Handles, Starts
<1>2. CASE view.intr
  BY <1>1, <1>2 DEF Handles
<1>3. CASE view.run = 0
  BY <1>1, <1>3 DEF Handles, PipeEnds
<1> QED
  BY <1>1, <1>2, <1>3 DEF Starts

(* A final frame that is taken leaves nothing; any other leaves a stream    *)
(* that can still send.                                                     *)
LEMMA ArriveQuiet ==
  ASSUME Types, PipeEnds, Arrives
  PROVE  /\ ~Quiet /\ UNCHANGED <<bus, sid, logs, call, strayed>>
         /\ chan[1].kind \in Final => Quiet'
         /\ chan[1].kind \notin Final => ~Quiet'
<1>1. chan # <<>> /\ chan' = Tail(chan) /\ UNCHANGED <<reader, bus, sid, logs, call, strayed>>
  BY DEF Arrives
<1>2. /\ Len(chan) \in Nat /\ Len(chan') = Len(chan) - 1 /\ Len(chan) # 0
      /\ 1 \in 1..Len(chan)
  <2>1. Len(chan) \in Nat /\ Len(chan') = Len(chan) - 1 /\ Len(chan) # 0
    BY <1>1, ChanFacts
  <2> QED
    BY <2>1
<1>3. chan' \in Seq(Frames)
  BY <1>1, HeadTailProperties DEF Types
<1>4. ASSUME chan[1].kind \in Final PROVE Quiet'
  <2>1. Len(chan) = 1 /\ ~bus.fwd
    BY <1>2, <1>4 DEF PipeEnds
  <2>2. ~Alive
    BY <2>1 DEF PipeEnds
  <2>3. chan' = <<>>
    BY <1>2, <1>3, <2>1, EmptySeq
  <2> QED
    BY <1>1, <2>1, <2>2, <2>3 DEF Quiet, Alive
<1>5. ASSUME chan[1].kind \notin Final, Quiet' PROVE FALSE
  <2>1. ~bus.fwd /\ chan' = <<>>
    BY <1>1, <1>5 DEF Quiet
  <2>2. Len(chan) = 1
    BY <1>2, <2>1, EmptySeq
  <2> QED
    BY <1>1, <1>5, <2>1, <2>2 DEF PipeEnds
<1> QED
  BY <1>1, <1>4, <1>5 DEF Quiet

LEMMA HandlesStep ==
  ASSUME OwnedInv, [Next]_vars
  PROVE  Handles'
<1>0. Types /\ PipeEnds /\ Handles /\ (call.pc \in {"bound", "reply"} => sid \in Ids /\ view.run # sid)
  BY DEF OwnedInv, Registered
<1>1. CASE Calm \/ Reads \/ Emits \/ Ends \/ Drops \/ Forwards
  <2>1. (Quiet => Quiet') /\ UNCHANGED <<sid, call, view>>
    BY <1>0, <1>1, QuietStays
  <2> QED
    BY <1>0, <2>1 DEF Handles
<1>2. CASE Refused \/ Inserted
  <2>1. UNCHANGED <<sid, view>> /\ (Quiet' <=> Quiet)
    BY <1>2 DEF Refused, Inserted, pipe, Quiet, Alive
  <2>2. \/ call.pc = "sent" /\ call'.pc = "err"
        \/ call.pc = "bound" /\ call'.pc = "reply"
    BY <1>2 DEF Refused, Inserted
  <2> QED
    BY <1>0, <2>1, <2>2 DEF Handles
<1>3. CASE Bound
  BY <1>0, <1>3 DEF Bound, Handles
<1>4. CASE (Starts \/ Marks) /\ UNCHANGED pipe
  <2>1. UNCHANGED sid /\ (Quiet' <=> Quiet)
    BY <1>4 DEF pipe, Quiet, Alive
  <2>2. CASE Starts
    <3>1. Quiet
      BY <1>0, <2>2, StartsQuiet
    <3> QED
      BY <2>1, <2>2, <3>1 DEF Starts, Handles
  <2>3. CASE Marks
    BY <1>0, <2>1, <2>3 DEF Marks, Handles
  <2> QED
    BY <1>4, <2>2, <2>3
<1>5. CASE Leaves
  <2>1. \/ view.run = sid /\ sid' = 0 /\ Quiet'
        \/ view.run # sid /\ sid' = sid /\ (Quiet' <=> Quiet)
    <3>1. Detached(view.run)
      BY <1>5 DEF Leaves
    <3> QED
      BY <3>1, DetachFacts DEF pipe, Quiet, Alive
  <2>2. /\ view'.run = 0 /\ ~view'.wanted /\ call' = call
        /\ \/ view'.mounted /\ view.mounted /\ view'.starting = view.starting /\ view'.intr = view.intr
           \/ ~view'.mounted /\ ~view'.starting /\ ~view'.intr
    BY <1>5 DEF Leaves
  <2> QED
    BY <1>0, <2>1, <2>2 DEF Handles
<1>6. CASE Takes
  <2>1. CASE view.mounted /\ view.wanted
    <3>1. UNCHANGED pipe /\ view'.run = sid
      BY <1>6, <2>1 DEF Takes
    <3>2. sid' = sid /\ (Quiet' <=> Quiet)
      BY <3>1 DEF pipe, Quiet, Alive
    <3> QED
      BY <1>0, <1>6, <2>1, <3>1, <3>2 DEF Takes, Handles
  <2>2. CASE ~(view.mounted /\ view.wanted)
    <3>1. Detached(sid) /\ view'.run = view.run
      BY <1>6, <2>2 DEF Takes
    <3>2. Quiet'
      BY <3>1, DetachFacts DEF Quiet
    <3> QED
      BY <1>0, <1>6, <3>1, <3>2 DEF Takes, Handles
  <2> QED
    BY <2>1, <2>2
<1>7. CASE Fails
  <2>1. UNCHANGED sid /\ (Quiet' <=> Quiet)
    BY <1>7 DEF Fails, pipe, Quiet, Alive
  <2>2. Quiet /\ call'.pc = "none" /\ ~view'.starting /\ view'.mounted = view.mounted
        /\ view'.wanted = view.wanted /\ view'.run = view.run /\ (view'.intr => view.mounted \/ view.intr)
    BY <1>0, <1>7 DEF Fails, Handles
  <2> QED
    BY <1>0, <2>1, <2>2 DEF Handles
<1>8. CASE Arrives
  <2>1. /\ ~Quiet /\ UNCHANGED <<sid, call>>
        /\ chan[1].kind \in Final => Quiet'
    BY <1>0, <1>8, ArriveQuiet
  <2>2. CASE view.mounted /\ view.wanted /\ chan[1].kind = "interrupted"
    <3>1. Quiet' /\ view'.mounted = view.mounted /\ view'.wanted = view.wanted /\ view'.starting = view.starting
      BY <1>8, <2>1, <2>2 DEF Arrives, Final
    <3>2. call.pc \notin {"sent", "err"}
      BY <1>0, <2>1 DEF Handles
    <3> QED
      BY <1>0, <2>1, <2>2, <3>1, <3>2 DEF Handles
  <2>3. CASE ~(view.mounted /\ view.wanted /\ chan[1].kind = "interrupted")
    <3>1. /\ view'.mounted = view.mounted /\ view'.wanted = view.wanted /\ view'.starting = view.starting
          /\ view'.intr = view.intr /\ view'.run = view.run
      BY <1>8, <2>3 DEF Arrives
    <3> QED
      BY <1>0, <2>1, <3>1 DEF Handles
  <2> QED
    BY <2>2, <2>3
<1> QED
  BY <1>0, <1>1, <1>2, <1>3, <1>4, <1>5, <1>6, <1>7, <1>8, Kinds

LEMMA FollowedStep ==
  ASSUME OwnedInv, [Next]_vars
  PROVE  Followed'
<1>0. Types /\ PipeEnds /\ Handles /\ Followed /\ (call.pc \in {"bound", "reply"} => sid \in Ids)
  BY DEF OwnedInv, Registered
<1>1. CASE Calm \/ Reads \/ Emits \/ Ends \/ Drops \/ Forwards
  <2>1. (~Quiet => ~Quiet') /\ UNCHANGED <<sid, call, view, strayed>>
    BY <1>0, <1>1, QuietStays
  <2> QED
    BY <1>0, <2>1 DEF Followed
<1>2. CASE Refused \/ Inserted
  <2>1. UNCHANGED <<strayed, view>> /\ (Quiet' <=> Quiet)
    BY <1>2 DEF Refused, Inserted, pipe, Quiet, Alive
  <2>2. \/ call.pc = "sent" /\ call'.pc = "err"
        \/ call.pc = "bound" /\ call'.pc = "reply"
    BY <1>2 DEF Refused, Inserted
  <2> QED
    BY <1>0, <2>1, <2>2 DEF Followed
<1>3. CASE Bound
  <2>1. ~Quiet' /\ UNCHANGED <<strayed, view>>
    BY <1>3 DEF Bound, Quiet
  <2> QED
    BY <1>0, <2>1 DEF Followed
<1>4. CASE Starts
  BY <1>4 DEF Starts, Followed
<1>5. CASE Marks
  BY <1>0, <1>5 DEF Marks, Followed, Handles
<1>6. CASE Leaves
  <2>1. strayed \in BOOLEAN /\ view.starting \in BOOLEAN
    BY <1>0 DEF Types, Panels
  <2> QED
    BY <1>0, <1>6, <2>1 DEF Leaves, Followed
<1>7. CASE Takes
  <2>1. CASE view.mounted /\ view.wanted
    <3>1. UNCHANGED <<pipe, strayed>> /\ ~view'.starting /\ call.pc = "reply"
          /\ (view'.status \in {"starting", "streaming", "waiting"} => view.status \in {"starting", "streaming", "waiting"})
      BY <1>7, <2>1 DEF Takes
    <3>2. Quiet' <=> Quiet
      BY <3>1 DEF pipe, Quiet, Alive
    <3> QED
      BY <1>0, <1>7, <2>1, <3>1, <3>2 DEF Takes, Followed
  <2>2. CASE ~(view.mounted /\ view.wanted)
    BY <1>7, <2>2 DEF Takes, Followed
  <2> QED
    BY <2>1, <2>2
<1>8. CASE Fails
  BY <1>8 DEF Fails, Followed
<1>9. CASE Arrives
  <2>1. /\ UNCHANGED <<call, strayed>>
        /\ chan[1].kind \notin Final => ~Quiet'
    BY <1>0, <1>9, ArriveQuiet
  <2>2. /\ view'.mounted = view.mounted /\ view'.wanted = view.wanted /\ view'.starting = view.starting
    BY <1>9 DEF Arrives
  <2>3. CASE ~(view.mounted /\ view.wanted)
    BY <1>0, <2>1, <2>2, <2>3 DEF Followed
  <2>4. CASE view.mounted /\ view.wanted
    <3>1. \/ view'.intr \/ view'.status = "ended" \/ chan[1].kind \in {"lines", "lagged"}
      BY <1>9, <2>4 DEF Arrives
    <3> QED
      BY <1>0, <2>1, <2>2, <2>4, <3>1 DEF Followed, Final
  <2> QED
    BY <2>3, <2>4
<1> QED
  BY <1>0, <1>1, <1>2, <1>3, <1>4, <1>5, <1>6, <1>7, <1>8, <1>9, Kinds

LEMMA RegisteredStep ==
  ASSUME OwnedInv, [Next]_vars
  PROVE  Registered'
<1> DEFINE Clear == /\ \A i \in 1..Len(bus.q) : bus.q[i].kind # "interrupted"
                    /\ \A i \in 1..Len(chan) : chan[i].kind = "interrupted" => bus.closed
<1>0. Types /\ PipeEnds /\ Handles /\ Registered /\ (call.pc \in {"bound", "reply"} => sid \in Ids)
  BY DEF OwnedInv, Registered
<1>1. logs \subseteq Ids /\ 0 \notin Ids /\ 0 \notin logs
  BY <1>0, LimitsAssumption DEF Types
<1>2. CASE Calm \/ Reads
  <2>1. UNCHANGED <<bus, chan, sid, logs, stops, call, view>>
    BY <1>2 DEF Calm, Reads
  <2> QED
    BY <1>0, <2>1 DEF Registered, NoStreamLeaked
<1>3. ASSUME UNCHANGED <<chan, sid, logs, stops, call, view>>, NEW e \in Events, bus' = Publish(bus, e),
             e.kind = "interrupted" => call.pc \notin {"bound", "reply"}
      PROVE  Registered'
  <2>1. /\ bus'.closed = bus.closed /\ Len(bus'.q) \in Nat /\ bus'.q[Len(bus'.q)] = e
        /\ \A i \in 1..(Len(bus'.q) - 1) : \E j \in 1..Len(bus.q) : bus'.q[i] = bus.q[j]
    BY <1>0, <1>3, QueueFacts
  <2>2. ASSUME call.pc \in {"bound", "reply"}, NEW i \in 1..Len(bus'.q)
        PROVE  bus'.q[i].kind # "interrupted"
    <3>1. i = Len(bus'.q) \/ i \in 1..(Len(bus'.q) - 1)
      BY <2>1
    <3> QED
      BY <1>0, <1>3, <2>1, <2>2, <3>1 DEF Registered
  <2> QED
    BY <1>0, <1>3, <2>1, <2>2 DEF Registered, NoStreamLeaked
<1>4. CASE Emits
  BY <1>3, <1>4, LineEvents DEF Emits
<1>5. CASE Ends
  <2>1. PICK kind \in Final : /\ bus' = Publish(bus, Event(kind, 0))
                              /\ kind = "interrupted" => call.pc \notin {"bound", "reply"}
    BY <1>5 DEF Ends
  <2> QED
    BY <1>3, <1>5, <2>1, FinishEvents DEF Ends
<1>6. CASE Drops
  <2>1. /\ UNCHANGED <<chan, sid, call, view>> /\ logs' \subseteq logs
        /\ \A s \in logs' : s \in stops => s \in stops'
    BY <1>6 DEF Drops
  <2>2. bus'.q = bus.q /\ (bus.closed => bus'.closed) /\ (bus'.closed => bus.closed \/ (sid \in logs /\ sid \notin logs'))
    BY <1>0, <1>6 DEF Drops, Close, Types, Buses
  <2>3. NoStreamLeaked'
    BY <1>0, <2>1 DEF Registered, NoStreamLeaked
  <2> QED
    BY <1>0, <2>1, <2>2, <2>3 DEF Registered
<1>7. CASE Forwards
  <2>1. PICK f \in Frames, n \in Nat : Fetches(f, n)
    BY <1>0, <1>7, ForwardFacts
  <2>2. /\ Len(chan') = Len(chan) + 1 /\ chan'[Len(chan')] = f /\ Len(chan) \in Nat
        /\ \A i \in 1..Len(chan) : chan'[i] = chan[i]
    BY <1>0, <2>1, ChanFacts DEF Fetches
  <2>3. UNCHANGED <<sid, logs, stops, call, view>>
    BY <1>7 DEF Forwards
  <2>4. /\ n \in 0..Len(bus.q) /\ bus'.closed = bus.closed /\ Len(bus'.q) = Len(bus.q) - n
        /\ \A i \in 1..Len(bus'.q) : bus'.q[i] = bus.q[i + n]
    BY <2>1 DEF Fetches
  <2>5. f.kind = "interrupted" => bus.closed \/ (n = 1 /\ bus.q[1].kind = "interrupted")
    BY <2>1 DEF Fetches
  <2>6. Len(bus.q) \in Nat
    BY <1>0, LenProperties DEF Types, Buses
  <2>7. Clear => Clear'
    <3> SUFFICES ASSUME Clear PROVE Clear'
      OBVIOUS
    <3>1. ASSUME NEW i \in 1..Len(bus'.q) PROVE bus'.q[i].kind # "interrupted"
      <4>1. i + n \in 1..Len(bus.q)
        BY <2>4, <2>6
      <4> QED
        BY <2>4, <4>1
    <3>2. n = 1 => 1 \in 1..Len(bus.q)
      BY <2>4, <2>6
    <3>3. ASSUME NEW i \in 1..Len(chan'), chan'[i].kind = "interrupted" PROVE bus'.closed
      <4>1. i = Len(chan') \/ i \in 1..Len(chan)
        BY <2>2
      <4>2. CASE i = Len(chan')
        BY <2>2, <2>4, <2>5, <3>2, <3>3, <4>2
      <4>3. CASE i \in 1..Len(chan)
        BY <2>2, <2>4, <3>3, <4>3
      <4> QED
        BY <4>1, <4>2, <4>3
    <3> QED
      BY <3>1, <3>3
  <2>8. call.pc \in {"bound", "reply"} => Clear
    BY <1>0 DEF Registered
  <2>9. NoStreamLeaked'
    BY <1>0, <2>3 DEF Registered, NoStreamLeaked
  <2> HIDE DEF Clear
  <2>10. call'.pc \in {"bound", "reply"} => Clear'
    BY <2>3, <2>7, <2>8
  <2> QED
    BY <1>0, <2>3, <2>4, <2>9, <2>10 DEF Registered, Clear
<1>8. CASE Refused
  BY <1>0, <1>8 DEF Refused, pipe, Registered, NoStreamLeaked
<1>9. CASE Bound
  <2>1. Len(bus'.q) = 0 /\ Len(chan') = 0 /\ sid' \in Ids /\ sid' \notin logs /\ sid' # view.run
    BY <1>9 DEF Bound
  <2>2. ~view.intr
    BY <1>0, <1>9 DEF Bound, Handles
  <2>3. NoStreamLeaked'
    BY <1>0, <1>9 DEF Bound, Registered, NoStreamLeaked
  <2> QED
    BY <1>0, <1>9, <2>1, <2>2, <2>3 DEF Bound, Registered
<1>10. CASE Inserted
  <2>1. NoStreamLeaked'
    BY <1>0, <1>10 DEF Inserted, Registered, NoStreamLeaked, pipe
  <2> QED
    BY <1>0, <1>10, <2>1 DEF Inserted, Registered, pipe
<1>11. CASE Starts /\ UNCHANGED <<pipe, logs, stops>>
  <2>1. call.pc = "none"
    BY <1>0, <1>11, StartsQuiet
  <2>2. NoStreamLeaked'
    BY <1>0, <1>11, <2>1 DEF Starts, Registered, NoStreamLeaked, pipe
  <2> QED
    BY <1>0, <1>11, <2>1, <2>2 DEF Starts, Registered, pipe
<1>12. CASE Marks /\ UNCHANGED <<pipe, logs, stops>>
  <2>1. NoStreamLeaked'
    BY <1>0, <1>12 DEF Marks, Registered, NoStreamLeaked, pipe
  <2> QED
    BY <1>0, <1>12, <2>1 DEF Marks, Registered, pipe
<1>13. CASE Leaves
  <2>1. /\ view'.run = 0 /\ UNCHANGED <<logs, call>> /\ (view'.intr => view.intr)
        /\ stops' = stops \cup ({view.run} \ {0}) /\ Detached(view.run)
    BY <1>13 DEF Leaves
  <2>2. CASE view.run = sid
    <3>1. sid' = 0 /\ ~bus'.closed
      BY <2>1, <2>2, DetachFacts
    <3>2. call.pc \notin {"bound", "reply"}
      BY <1>0, <2>2 DEF Registered
    <3>3. NoStreamLeaked'
      BY <1>0, <1>1, <2>1, <3>2 DEF Registered, NoStreamLeaked
    <3> QED
      BY <1>1, <2>1, <3>1, <3>2, <3>3 DEF Registered
  <2>3. CASE view.run # sid
    <3>1. UNCHANGED <<sid, bus, chan>>
      BY <2>1, <2>3, DetachFacts DEF pipe
    <3>3. NoStreamLeaked'
      BY <1>0, <1>1, <2>1, <3>1 DEF Registered, NoStreamLeaked
    <3>4. call.pc \in {"bound", "reply"} => 0 # sid
      BY <1>0, <1>1
    <3> QED
      BY <1>0, <2>1, <3>1, <3>3, <3>4 DEF Registered
  <2> QED
    BY <2>2, <2>3
<1>14. CASE Takes
  <2>1. call.pc = "reply" /\ call'.pc = "none" /\ ~view'.starting /\ logs' = logs /\ view'.intr = view.intr
    BY <1>14 DEF Takes
  <2>2. CASE view.mounted /\ view.wanted
    <3>1. view'.run = sid /\ UNCHANGED <<stops, bus, sid>>
      BY <1>14, <2>2 DEF Takes, pipe
    <3>2. view.run \notin logs
      BY <1>0, <1>1, <2>1, <2>2 DEF Handles, Registered
    <3>3. NoStreamLeaked'
      BY <1>0, <2>1, <3>1, <3>2 DEF Registered, NoStreamLeaked
    <3> QED
      BY <1>0, <2>1, <3>1, <3>3 DEF Registered
  <2>3. CASE ~(view.mounted /\ view.wanted)
    <3>1. view'.run = view.run /\ stops' = stops \cup {sid} /\ Detached(sid)
      BY <1>14, <2>3 DEF Takes
    <3>2. sid' = 0 /\ ~bus'.closed
      BY <3>1, DetachFacts
    <3>3. NoStreamLeaked'
      BY <1>0, <2>1, <3>1 DEF Registered, NoStreamLeaked
    <3> QED
      BY <1>0, <2>1, <3>1, <3>2, <3>3 DEF Registered
  <2> QED
    BY <2>2, <2>3
<1>15. CASE Fails
  <2>1. /\ call.pc = "err" /\ call'.pc = "none" /\ UNCHANGED <<bus, sid, logs, stops>> /\ ~view'.starting
        /\ view'.run = view.run /\ (view'.intr => view.intr \/ view.mounted)
    BY <1>15 DEF Fails, pipe
  <2>2. view.mounted => view.starting
    BY <1>0, <2>1 DEF Handles
  <2>3. NoStreamLeaked'
    BY <1>0, <2>1 DEF Registered, NoStreamLeaked
  <2> QED
    BY <1>0, <2>1, <2>2, <2>3 DEF Registered
<1>16. CASE Arrives
  <2>1. /\ chan # <<>> /\ chan' = Tail(chan) /\ UNCHANGED <<bus, sid, logs, call>>
        /\ view'.starting = view.starting
    BY <1>16 DEF Arrives
  <2>2. /\ Len(chan) \in Nat /\ Len(chan') = Len(chan) - 1 /\ Len(chan) # 0
        /\ \A i \in 1..Len(chan') : chan'[i] = chan[i + 1]
    BY <1>0, <2>1, ChanFacts
  <2>3. call'.pc \in {"bound", "reply"} => Clear'
    <3> SUFFICES ASSUME call.pc \in {"bound", "reply"}, NEW i \in 1..Len(chan'), chan'[i].kind = "interrupted"
                 PROVE  bus'.closed
      BY <1>0, <2>1 DEF Registered
    <3>1. i + 1 \in 1..Len(chan)
      BY <2>2
    <3> QED
      BY <1>0, <2>1, <2>2, <3>1 DEF Registered
  <2>4. CASE view.mounted /\ view.wanted /\ chan[1].kind = "interrupted"
    <3>1. view'.intr /\ view'.run = 0 /\ stops' = stops \cup ({view.run} \ {0})
      BY <1>16, <2>4 DEF Arrives
    <3>2. call.pc \in {"bound", "reply"} => bus.closed /\ sid \notin logs /\ call.pc # "bound" /\ sid # 0
      <4>1. 1 \in 1..Len(chan)
        BY <2>2
      <4>2. call.pc \in {"bound", "reply"} => bus.closed
        BY <1>0, <2>4, <4>1 DEF Registered
      <4> QED
        BY <1>0, <1>1, <4>2 DEF Registered
    <3>3. NoStreamLeaked'
      BY <1>0, <1>1, <2>1, <3>1 DEF Registered, NoStreamLeaked
    <3> QED
      BY <1>0, <2>1, <2>3, <3>1, <3>2, <3>3 DEF Registered
  <2>5. CASE ~(view.mounted /\ view.wanted /\ chan[1].kind = "interrupted")
    <3>1. view'.intr = view.intr /\ view'.run = view.run /\ stops' = stops
      BY <1>16, <2>5 DEF Arrives
    <3>2. NoStreamLeaked'
      BY <1>0, <2>1, <3>1 DEF Registered, NoStreamLeaked
    <3> QED
      BY <1>0, <2>1, <2>3, <3>1, <3>2 DEF Registered
  <2> QED
    BY <2>4, <2>5
<1> HIDE DEF Clear
<1> QED
  BY <1>0, <1>2, <1>4, <1>5, <1>6, <1>7, <1>8, <1>9, <1>10, <1>11, <1>12, <1>13, <1>14, <1>15, <1>16, Kinds

(* The invariant behind ownership holds of every behaviour. *)
LEMMA OwnedAlways == Spec => []OwnedInv
<1>1. Init => OwnedInv
  BY InitTypes, PipeEndsInit DEF OwnedInv
<1>2. OwnedInv /\ [Next]_vars => OwnedInv'
  <2> SUFFICES ASSUME OwnedInv, [Next]_vars PROVE OwnedInv'
    OBVIOUS
  <2>1. Types'
    BY TypesStep DEF OwnedInv, Registered
  <2> QED
    BY <2>1, PipeEndsStep, HandlesStep, RegisteredStep, FollowedStep DEF OwnedInv
<1> QED
  BY <1>1, <1>2, PTL DEF Spec

(* Streams are owned, whatever happens to the pod, the network, the entry   *)
(* and the panel (start_log_stream, stop_log_stream, drop_cluster_logs,     *)
(* LogView's startOneStream and reconcileStreams): a second stream of a     *)
(* source is never opened while the first can send, every registered stream *)
(* has somebody who will stop it, and a source shown as followed is not     *)
(* dead; no queue, batch or retry budget is overrun on the way.             *)
THEOREM Owned == Spec => []StreamsAreOwned
<1>1. OwnedInv => StreamsAreOwned
  <2> SUFFICES ASSUME OwnedInv PROVE StreamsAreOwned
    OBVIOUS
  <2>0. Types /\ PipeEnds /\ Handles /\ Registered /\ Followed
    BY DEF OwnedInv
  <2>1. TypeOK
    <3>1. /\ reader.pc \in {"none", "open", "pump", "probe", "over"}
          /\ reader.pos \in 0..written /\ reader.end \in 0..written
          /\ reader.waits <= MaxWait /\ reader.trans <= MaxTransient
          /\ reader.dead <= MaxDead /\ reader.unreach <= MaxTransient
      <4>1. /\ reader \in Readers /\ reader.pos <= written /\ reader.end <= written /\ written \in Nat
            /\ {MaxWait, MaxDead, MaxTransient} \subseteq Nat
        BY <2>0, Limits, LimitsAssumption DEF Types
      <4> QED
        BY <4>1 DEF Readers
    <3>2. call.pc \in {"none", "sent", "bound", "reply", "err"}
      BY <2>0 DEF Types, Calls
    <3>3. view.status \in Statuses /\ view.run \in Ids \cup {0}
      BY <2>0 DEF Types, Panels
    <3> QED
      BY <2>0, <3>1, <3>2, <3>3 DEF Types, TypeOK
  <2>2. OneStreamPerSource
    BY <2>0 DEF OneStreamPerSource, Handles, Quiet
  <2>3. NoStreamLeaked
    BY <2>0 DEF Registered
  <2>4. FollowedMeansAlive
    <3> SUFFICES ASSUME view.mounted, view.wanted, ~view.intr, ~view.starting, ~strayed,
                        view.status \in {"streaming", "waiting"}
                 PROVE  ~Quiet
      BY DEF FollowedMeansAlive, Quiet
    <3>1. call.pc = "none"
      BY <2>0 DEF Handles
    <3> QED
      BY <2>0, <3>1 DEF Followed
  <2> QED
    BY <2>1, <2>2, <2>3, <2>4 DEF StreamsAreOwned
<1> QED
  BY <1>1, OwnedAlways, PTL

-----------------------------------------------------------------------------
(* No line twice: the lines on their way ascend from the panel to the       *)
(* reader, and the reader's next line is later than all of them.            *)

LEMMA LinesTyped ==
  ASSUME Types
  PROVE  /\ ShownLines \subseteq Lines /\ BusLines \subseteq Lines
         /\ \A i \in 1..Len(chan) : FrameLines(i) \subseteq Lines /\ chan[i] \in Frames
         /\ \A i \in 1..Len(bus.q) : bus.q[i].line \in 0..MaxLines
<1>0. /\ shown \in Seq(0..MaxLines) /\ chan \in Seq(Frames) /\ bus.q \in Seq(Events)
      /\ MaxLines \in Nat
  BY Limits DEF Types, Buses
<1>1. ShownLines \subseteq Lines
  <2>1. \A i \in 1..Len(shown) : shown[i] \in 0..MaxLines
    BY <1>0, ElementOfSeq
  <2> QED
    BY <1>0, <2>1 DEF ShownLines, Lines
<1>2. \A i \in 1..Len(bus.q) : bus.q[i].line \in 0..MaxLines
  <2> SUFFICES ASSUME NEW i \in 1..Len(bus.q) PROVE bus.q[i].line \in 0..MaxLines
    OBVIOUS
  <2>1. bus.q[i] \in Events
    BY <1>0, ElementOfSeq
  <2> QED
    BY <1>0, <2>1 DEF Events, Lines
<1>3. BusLines \subseteq Lines
  BY <1>0, <1>2 DEF BusLines, Lines
<1>4. ASSUME NEW i \in 1..Len(chan) PROVE FrameLines(i) \subseteq Lines /\ chan[i] \in Frames
  <2>1. chan[i] \in Frames
    BY <1>0, ElementOfSeq
  <2>2. chan[i].lines \in Seq(Lines)
    BY <2>1 DEF Frames
  <2>3. \A j \in 1..Len(chan[i].lines) : chan[i].lines[j] \in Lines
    BY <2>2, ElementOfSeq
  <2> QED
    BY <2>1, <2>3 DEF FrameLines
<1> QED
  BY <1>1, <1>2, <1>3, <1>4

(* A later stamp is a later line. *)
LEMMA StampFacts ==
  /\ MaxLines \in Nat /\ \A l \in Lines : l \in Nat \ {0} /\ Stamp[l] \in Nat /\ Stamp[l] > 0
  /\ \A k, l \in Lines : k <= l => Stamp[k] <= Stamp[l]
  /\ \A k, l \in Lines : Stamp[k] < Stamp[l] => k < l
<1>1. MaxLines \in Nat /\ \A l \in Lines : l \in Nat \ {0} /\ Stamp[l] \in Nat /\ Stamp[l] > 0
  BY StampAssumption DEF Lines
<1>2. \A k, l \in Lines : k <= l => Stamp[k] <= Stamp[l]
  BY StampAssumption
<1> QED
  BY <1>1, <1>2

(* The lines of the queue after a publication, and after the forwarder.     *)
LEMMA PublishedLines ==
  ASSUME Types, NEW e \in Events, bus' = Publish(bus, e)
  PROVE  \A l \in BusLines' : l \in BusLines \/ (l = e.line /\ l # 0)
<1>1. /\ Len(bus'.q) \in Nat /\ bus'.q[Len(bus'.q)] = e
      /\ \A i \in 1..(Len(bus'.q) - 1) : \E j \in 1..Len(bus.q) : bus'.q[i] = bus.q[j]
  BY QueueFacts
<1> SUFFICES ASSUME NEW l \in BusLines' PROVE l \in BusLines \/ (l = e.line /\ l # 0)
  OBVIOUS
<1>2. PICK i \in 1..Len(bus'.q) : l = bus'.q[i].line /\ l # 0
  BY DEF BusLines
<1>3. i = Len(bus'.q) \/ i \in 1..(Len(bus'.q) - 1)
  BY <1>1
<1>4. CASE i = Len(bus'.q)
  BY <1>1, <1>2, <1>4
<1>5. CASE i \in 1..(Len(bus'.q) - 1)
  BY <1>1, <1>2, <1>5 DEF BusLines
<1> QED
  BY <1>3, <1>4, <1>5

LEMMA FetchedLines ==
  ASSUME Types, NEW f \in Frames, NEW n \in Nat, Fetches(f, n)
  PROVE  /\ \A l \in BusLines' : \E i \in 1..Len(bus.q) : n < i /\ l = bus.q[i].line /\ l # 0
         /\ \A j \in 1..Len(f.lines) : j \in 1..Len(bus.q) /\ j <= n /\ f.lines[j] = bus.q[j].line
         /\ \A i \in 1..Len(chan) : chan'[i] = chan[i]
         /\ Len(chan') = Len(chan) + 1 /\ chan'[Len(chan')] = f /\ Len(chan) \in Nat
<1>1. /\ n \in 0..Len(bus.q) /\ Len(bus'.q) = Len(bus.q) - n
      /\ \A i \in 1..Len(bus'.q) : bus'.q[i] = bus.q[i + n]
      /\ chan' = Append(chan, f)
  BY DEF Fetches
<1>2. Len(bus.q) \in Nat
  BY LenProperties DEF Types, Buses
<1>3. ASSUME NEW l \in BusLines' PROVE \E i \in 1..Len(bus.q) : n < i /\ l = bus.q[i].line /\ l # 0
  <2>1. PICK i \in 1..Len(bus'.q) : l = bus'.q[i].line /\ l # 0
    BY <1>3 DEF BusLines
  <2>2. i + n \in 1..Len(bus.q) /\ n < i + n
    BY <1>1, <1>2
  <2> QED
    BY <1>1, <2>1, <2>2
<1>4. ASSUME NEW j \in 1..Len(f.lines)
      PROVE  j \in 1..Len(bus.q) /\ j <= n /\ f.lines[j] = bus.q[j].line
  <2>1. f.lines # <<>>
    BY <1>4
  <2>2. n = Len(f.lines) /\ \A i \in 1..n : f.lines[i] = bus.q[i].line
    BY <2>1 DEF Fetches
  <2>3. j \in 1..Len(bus.q) /\ j <= n /\ j \in 1..n
    BY <1>1, <1>2, <1>4, <2>2
  <2> QED
    BY <2>2, <2>3
<1>5. /\ Len(chan') = Len(chan) + 1 /\ chan'[Len(chan')] = f /\ Len(chan) \in Nat
      /\ \A i \in 1..Len(chan) : chan'[i] = chan[i]
  BY <1>1, ChanFacts
<1> QED
  BY <1>3, <1>4, <1>5

(* The lines shown once a frame is. *)
LEMMA ShownFacts ==
  ASSUME Types, Arrives, view.mounted, view.wanted, chan[1].kind = "lines"
  PROVE  /\ 1 \in 1..Len(chan) /\ chan[1].lines \in Seq(Lines) /\ Len(chan[1].lines) \in Nat \ {0}
         /\ shown \in Seq(0..MaxLines) /\ Len(shown) \in Nat
         /\ shown' \in Seq(0..MaxLines) /\ Len(shown') = Len(shown) + Len(chan[1].lines)
         /\ \A i \in 1..Len(shown) : shown'[i] = shown[i] /\ (shown[i] # 0 => shown[i] \in ShownLines)
         /\ \A i \in (Len(shown) + 1)..Len(shown') :
              /\ i - Len(shown) \in 1..Len(chan[1].lines)
              /\ shown'[i] = chan[1].lines[i - Len(shown)] /\ shown'[i] \in FrameLines(1)
         /\ \A l \in ShownLines' : l \in ShownLines \/ l \in FrameLines(1)
<1> DEFINE ls == chan[1].lines
<1>0. shown \in Seq(0..MaxLines) /\ Len(shown) \in Nat /\ shown' = shown \o ls /\ 1 \in 1..Len(chan)
  <2>1. chan # <<>> /\ shown' = shown \o ls
    BY DEF Arrives
  <2>2. 1 \in 1..Len(chan)
    BY <2>1, EmptySeq DEF Types
  <2> QED
    BY <2>1, <2>2, LenProperties DEF Types
<1>1. ls \in Seq(Lines) /\ Len(ls) \in Nat \ {0}
  <2>1. ls # <<>> /\ chan[1] \in Frames
    BY <1>0, LinesTyped DEF Types
  <2>2. ls \in Seq(Lines)
    BY <2>1 DEF Frames
  <2> QED
    BY <2>1, <2>2, EmptySeq, LenProperties
<1>2. ls \in Seq(0..MaxLines)
  <2>1. Lines \subseteq 0..MaxLines
    BY Limits
  <2> QED
    BY <1>1, <2>1, SeqMonotonic
<1>3. /\ shown' \in Seq(0..MaxLines) /\ Len(shown') = Len(shown) + Len(ls)
      /\ \A i \in 1..Len(shown') :
           shown'[i] = IF i <= Len(shown) THEN shown[i] ELSE ls[i - Len(shown)]
  BY <1>0, <1>2, ConcatProperties
<1>4. \A i \in 1..Len(shown) : shown'[i] = shown[i] /\ (shown[i] # 0 => shown[i] \in ShownLines)
  <2>1. \A i \in 1..Len(shown) : i \in 1..Len(shown') /\ i <= Len(shown)
    BY <1>0, <1>1, <1>3
  <2> QED
    BY <1>3, <2>1 DEF ShownLines
<1>5. ASSUME NEW i \in (Len(shown) + 1)..Len(shown')
      PROVE  /\ i - Len(shown) \in 1..Len(ls) /\ shown'[i] = ls[i - Len(shown)]
             /\ shown'[i] \in FrameLines(1)
  <2>1. i \in 1..Len(shown') /\ ~(i <= Len(shown)) /\ i - Len(shown) \in 1..Len(ls)
    BY <1>0, <1>1, <1>3
  <2>2. shown'[i] = ls[i - Len(shown)]
    BY <1>3, <2>1
  <2> QED
    BY <2>1, <2>2 DEF FrameLines
<1>6. ASSUME NEW l \in ShownLines' PROVE l \in ShownLines \/ l \in FrameLines(1)
  <2>1. PICK i \in 1..Len(shown') : l = shown'[i] /\ l # 0
    BY <1>6 DEF ShownLines
  <2>2. i \in 1..Len(shown) \/ i \in (Len(shown) + 1)..Len(shown')
    BY <1>0, <1>1, <1>3
  <2> QED
    BY <1>4, <1>5, <2>1, <2>2
<1> QED
  BY <1>0, <1>1, <1>3, <1>4, <1>5, <1>6

(* A frame that is not of lines adds no line; a taken frame leaves those    *)
(* behind it.                                                               *)
LEMMA OtherArrivals ==
  ASSUME Types, Arrives, ~(view.mounted /\ view.wanted /\ chan[1].kind = "lines")
  PROVE  /\ ShownLines' = ShownLines
         /\ InOrder(shown) => InOrder(shown')
<1>0. shown \in Seq(0..MaxLines) /\ Len(shown) \in Nat /\ 0 \in 0..MaxLines
  BY LenProperties, StampFacts DEF Types
<1>1. CASE UNCHANGED shown
  BY <1>1 DEF ShownLines
<1>2. CASE shown' = Append(shown, 0)
  <2>1. /\ Len(shown') = Len(shown) + 1 /\ shown'[Len(shown) + 1] = 0
        /\ \A i \in 1..Len(shown) : shown'[i] = shown[i]
    BY <1>0, <1>2, AppendProperties
  <2>2. \A i \in 1..Len(shown') : i \in 1..Len(shown) \/ i = Len(shown) + 1
    BY <1>0, <2>1
  <2>3. \A i \in 1..Len(shown) : i \in 1..Len(shown')
    BY <1>0, <2>1
  <2>4. ShownLines' \subseteq ShownLines
    BY <2>1, <2>2 DEF ShownLines
  <2>5. ShownLines \subseteq ShownLines'
    BY <2>1, <2>3 DEF ShownLines
  <2>6. InOrder(shown) => InOrder(shown')
    BY <2>1, <2>2 DEF InOrder
  <2> QED
    BY <2>4, <2>5, <2>6
<1> QED
  BY <1>1, <1>2 DEF Arrives

LEMMA ArrivedLines ==
  ASSUME Types, Arrives
  PROVE  /\ 1 \in 1..Len(chan) /\ Len(chan') = Len(chan) - 1 /\ Len(chan) \in Nat
         /\ \A i \in 1..Len(chan') : i + 1 \in 1..Len(chan) /\ chan'[i] = chan[i + 1]
                                     /\ FrameLines(i)' = FrameLines(i + 1)
<1>1. /\ Len(chan) \in Nat /\ Len(chan') = Len(chan) - 1 /\ Len(chan) # 0
      /\ \A i \in 1..Len(chan') : chan'[i] = chan[i + 1]
  BY ChanFacts DEF Arrives
<1>2. 1 \in 1..Len(chan) /\ \A i \in 1..Len(chan') : i + 1 \in 1..Len(chan)
  BY <1>1
<1>3. \A i \in 1..Len(chan') : FrameLines(i)' = FrameLines(i + 1)
  BY <1>1 DEF FrameLines
<1> QED
  BY <1>1, <1>2, <1>3

(* What is on its way after a step was on its way before, or is the line    *)
(* just read.                                                               *)
LEMMA SentStep ==
  ASSUME OwnedInv, [Next]_vars, NEW l \in Lines, Sent(l)'
  PROVE  /\ Sent(l) \/ (Emits /\ l = reader.pos + 1)
         /\ Bound => l \in ShownLines
<1>0. Types /\ (call.pc \in {"bound", "reply"} => sid \in Ids)
  BY DEF OwnedInv, Registered
<1>1. Sent(l)' <=> \/ l \in ShownLines' \/ l \in BusLines' \/ \E i \in 1..Len(chan') : l \in FrameLines(i)'
  BY DEF Sent
<1>2. CASE shown' = shown /\ chan' = chan /\ bus'.q = bus.q
  <2>1. Sent(l)
    BY <1>2 DEF Sent, ShownLines, BusLines, FrameLines
  <2> QED
    BY <1>2, <2>1 DEF Sent, Bound, BusLines
<1>3. CASE Calm \/ Reads \/ Refused \/ Inserted \/ Fails \/ UNCHANGED <<pipe, shown>>
  BY <1>2, <1>3 DEF Calm, Reads, Refused, Inserted, Fails, pipe
<1>4. ASSUME NEW e \in Events, bus' = Publish(bus, e), shown' = shown, chan' = chan
      PROVE  Sent(l) \/ l = e.line
  <2>1. CASE l \in BusLines'
    BY <1>0, <1>4, <2>1, PublishedLines DEF Sent
  <2>2. CASE l \notin BusLines'
    BY <1>1, <1>4, <2>2 DEF Sent, ShownLines, FrameLines
  <2> QED
    BY <2>1, <2>2
<1>5. CASE Emits
  <2>1. ~Bound
    BY <1>5 DEF Emits, Bound
  <2> QED
    BY <1>4, <1>5, <2>1, LineEvents DEF Emits
<1>6. CASE Ends
  <2>1. PICK kind \in Final : bus' = Publish(bus, Event(kind, 0))
    BY <1>6 DEF Ends
  <2>2. ~Bound /\ l # 0
    BY <1>6, StampFacts DEF Ends, Bound, Over, NoReader
  <2> QED
    BY <1>4, <1>6, <2>1, <2>2, FinishEvents DEF Ends
<1>7. CASE Drops
  BY <1>0, <1>2, <1>7 DEF Drops, Close, Types, Buses
<1>8. CASE Forwards
  <2>1. PICK f \in Frames, n \in Nat : Fetches(f, n)
    BY <1>0, <1>8, ForwardFacts
  <2>2. /\ \A k \in BusLines' : \E i \in 1..Len(bus.q) : k = bus.q[i].line /\ k # 0
        /\ \A j \in 1..Len(f.lines) : j \in 1..Len(bus.q) /\ f.lines[j] = bus.q[j].line
        /\ \A i \in 1..Len(chan) : chan'[i] = chan[i]
        /\ Len(chan') = Len(chan) + 1 /\ chan'[Len(chan')] = f /\ Len(chan) \in Nat
    BY <1>0, <2>1, FetchedLines
  <2>3. ~Bound /\ l # 0 /\ shown' = shown
    BY <1>8, StampFacts DEF Forwards, Bound
  <2>4. CASE l \in BusLines'
    BY <2>2, <2>3, <2>4 DEF Sent, BusLines
  <2>5. CASE l \in ShownLines'
    BY <2>3, <2>5 DEF Sent, ShownLines
  <2>6. ASSUME NEW i \in 1..Len(chan'), l \in FrameLines(i)' PROVE Sent(l)
    <3>1. i \in 1..Len(chan) \/ i = Len(chan')
      BY <2>2
    <3>2. CASE i \in 1..Len(chan)
      BY <2>2, <2>6, <3>2 DEF FrameLines, Sent
    <3>3. CASE i = Len(chan')
      <4>1. PICK j \in 1..Len(f.lines) : l = f.lines[j]
        BY <2>2, <2>6, <3>3 DEF FrameLines
      <4> QED
        BY <2>2, <2>3, <4>1 DEF Sent, BusLines
    <3> QED
      BY <3>1, <3>2, <3>3
  <2> QED
    BY <1>1, <2>3, <2>4, <2>5, <2>6
<1>9. CASE Bound
  <2>1. Len(bus'.q) = 0 /\ Len(chan') = 0 /\ shown' = shown
    BY <1>9 DEF Bound
  <2>2. l \in ShownLines
    BY <1>1, <2>1 DEF BusLines, ShownLines
  <2> QED
    BY <2>2 DEF Sent
<1>10. ASSUME NEW s, Detached(s), shown' = shown \/ shown' = <<>>, ~Bound
       PROVE  Sent(l)
  <2>1. l \in ShownLines' => l \in ShownLines
    BY <1>10 DEF ShownLines
  <2>2. CASE UNCHANGED pipe
    BY <1>1, <2>1, <2>2 DEF pipe, Sent, BusLines, FrameLines
  <2>3. CASE bus'.q = <<>> /\ chan' = <<>>
    <3>1. Len(bus'.q) = 0 /\ Len(chan') = 0
      BY <2>3
    <3> QED
      BY <1>1, <2>1, <3>1 DEF Sent, BusLines
  <2> QED
    BY <1>10, <2>2, <2>3, DetachFacts
<1>11. CASE Leaves
  <2>1. ~Bound
    BY <1>11 DEF Leaves, Bound
  <2> QED
    BY <1>10, <1>11, <2>1 DEF Leaves
<1>12. CASE Takes
  <2>1. ~Bound
    BY <1>12 DEF Takes, Bound
  <2> QED
    BY <1>3, <1>10, <1>12, <2>1 DEF Takes
<1>13. CASE Arrives
  <2>1. ~Bound /\ bus' = bus
    BY <1>13 DEF Arrives, Bound
  <2>2. 1 \in 1..Len(chan) /\ \A i \in 1..Len(chan') : i + 1 \in 1..Len(chan) /\ FrameLines(i)' = FrameLines(i + 1)
    BY <1>0, <1>13, ArrivedLines
  <2>3. CASE l \in ShownLines'
    <3>1. l \in ShownLines \/ l \in FrameLines(1)
      BY <1>0, <1>13, <2>3, ShownFacts, OtherArrivals
    <3> QED
      BY <2>1, <2>2, <3>1 DEF Sent
  <2>4. CASE l \in BusLines'
    BY <2>1, <2>4 DEF Sent, BusLines
  <2>5. CASE \E i \in 1..Len(chan') : l \in FrameLines(i)'
    <3>1. PICK i \in 1..Len(chan') : l \in FrameLines(i)'
      BY <2>5
    <3>2. i + 1 \in 1..Len(chan) /\ l \in FrameLines(i + 1)
      BY <2>2, <3>1
    <3>3. \E k \in 1..Len(chan) : l \in FrameLines(k)
      BY <3>2, Zenon
    <3>4. Sent(l) <=> l \in ShownLines \/ l \in BusLines \/ \E k \in 1..Len(chan) : l \in FrameLines(k)
      BY DEF Sent
    <3>5. Sent(l)
      BY <3>3, <3>4
    <3> QED
      BY <2>1, <3>5
  <2> QED
    BY <1>1, <2>1, <2>3, <2>4, <2>5
<1> QED
  BY <1>0, <1>3, <1>5, <1>6, <1>7, <1>8, <1>9, <1>11, <1>12, <1>13, Kinds

(* The next line is later than every line on its way.  After an open with   *)
(* an overlap the skip rule says so by the timestamps, afterwards the       *)
(* position does.                                                           *)
LEMMA NextIsNew ==
  ASSUME Types, Emits, Reading
  PROVE  \A l \in Lines : Sent(l) => l < reader.pos + 1
<1> SUFFICES ASSUME NEW l \in Lines, Sent(l) PROVE l < reader.pos + 1
  OBVIOUS
<1>1. reader.pc = "pump" /\ reader.pos + 1 \in Lines /\ Alive /\ reader.pos \in Nat
  BY DEF Emits, Alive, Types, Readers
<1>2. CASE reader.skip = 0
  BY <1>1, <1>2, StampFacts DEF Reading
<1>3. CASE reader.skip # 0
  <2>1. Stamp[l] <= reader.last /\ reader.skip = reader.last
    BY <1>1, <1>3 DEF Reading
  <2>2. Stamp[reader.pos + 1] > reader.skip /\ reader.last \in Nat /\ reader.skip \in Nat
    BY <1>3 DEF Emits, Types, Readers
  <2>3. Stamp[l] < Stamp[reader.pos + 1]
    <3>1. Stamp[l] \in Nat /\ Stamp[reader.pos + 1] \in Nat
      BY <1>1, StampFacts
    <3> QED
      BY <2>1, <2>2, <3>1
  <2> QED
    BY <1>1, <2>3, StampFacts
<1> QED
  BY <1>2, <1>3

LEMMA ReadingStep ==
  ASSUME OwnedInv, [Next]_vars, Resumes, Reading, ~previous
  PROVE  Reading'
<1>0. Types /\ (call.pc \in {"bound", "reply"} => sid \in Ids)
  BY DEF OwnedInv, Registered
<1>1. CASE ~Alive'
  BY <1>1 DEF Reading, Alive
<1>2. CASE /\ (Alive' => Alive) /\ reader'.pc = reader.pc /\ reader'.last = reader.last
           /\ reader'.skip = reader.skip /\ reader'.pos = reader.pos /\ ~Bound /\ ~Emits
  <2>1. \A l \in Lines : Sent(l)' => Sent(l)
    BY <1>2, SentStep
  <2> QED
    BY <1>2, <2>1 DEF Reading
<1>3. CASE UNCHANGED reader /\ ~Bound /\ ~Emits
  BY <1>2, <1>3 DEF Alive
<1>4. CASE Calm
  <2>1. \A l \in Lines : Sent(l)' => Sent(l)
    BY <1>4 DEF Calm, Sent, ShownLines, BusLines, FrameLines
  <2> QED
    BY <1>4, <2>1 DEF Calm, Reading, Alive
<1>5. CASE Reads
  <2>1. \A l \in Lines : Sent(l)' => Sent(l)
    <3>1. bus' = bus /\ chan' = chan /\ shown' = shown
      BY <1>5 DEF Reads
    <3> QED
      BY <3>1 DEF Sent, ShownLines, BusLines, FrameLines
  <2>2. Alive /\ Alive' /\ reader'.last = reader.last
    BY <1>5 DEF Reads
  <2>3. \A l \in Lines : Sent(l)' => Stamp[l] <= reader'.last
    BY <2>1, <2>2 DEF Reading
  <2>4. CASE Opens
    <3>1. reader'.skip = reader.last
      BY <2>4 DEF Opens
    <3>2. ASSUME reader'.skip = 0, NEW l \in Lines, Sent(l)' PROVE FALSE
      BY <2>2, <2>3, <3>1, <3>2, StampFacts
    <3> QED
      BY <2>2, <2>3, <3>1, <3>2 DEF Reading
  <2>5. CASE Skips
    BY <2>2, <2>3, <2>5 DEF Skips, Reading
  <2>6. CASE reader'.pc # "pump"
    BY <2>3, <2>6 DEF Reading
  <2> QED
    BY <1>5, <2>4, <2>5, <2>6 DEF Reads
<1>6. CASE Emits
  <2>1. reader'.last = Stamp[reader.pos + 1] /\ reader'.skip = 0 /\ reader'.pos = reader.pos + 1
        /\ reader.pos + 1 \in Lines
    BY <1>6 DEF Emits
  <2>2. ASSUME NEW l \in Lines, Sent(l)' PROVE l <= reader.pos + 1
    <3>1. l < reader.pos + 1 \/ l = reader.pos + 1
      BY <1>0, <1>6, <2>2, SentStep, NextIsNew
    <3> QED
      BY <2>1, <3>1, StampFacts
  <2>3. \A l \in Lines : Sent(l)' => Stamp[l] <= reader'.last
    BY <2>1, <2>2, StampFacts
  <2> QED
    BY <2>1, <2>2, <2>3 DEF Reading
<1>7. CASE Ends
  BY <1>1, <1>7 DEF Ends, Over, NoReader, Alive
<1>8. CASE Drops
  <2>2. CASE reader' = Over
    BY <1>1, <2>2 DEF Over, NoReader, Alive
  <2>3. CASE UNCHANGED <<reader, bus>>
    <3>1. \A l \in Lines : Sent(l)' => Sent(l)
      BY <1>8, <2>3 DEF Drops, Sent, ShownLines, BusLines, FrameLines
    <3> QED
      BY <2>3, <3>1 DEF Reading, Alive
  <2> QED
    BY <1>8, <2>2, <2>3 DEF Drops
<1>9. CASE Forwards \/ Arrives
  <2>1. UNCHANGED reader /\ ~Bound
    BY <1>9 DEF Forwards, Arrives, Bound
  <2>2. reader.pc = "pump" => ~Emits
    BY <1>0, <2>1 DEF Emits, Types, Readers
  <2>3. ~Emits
    BY <2>2 DEF Emits
  <2> QED
    BY <1>3, <2>1, <2>3
<1>10. CASE Bound
  <2>1. reader'.pc = "open" /\ reader'.last = call.after /\ call.pc = "sent"
    BY <1>10 DEF Bound
  <2>2. \A l \in Lines : Sent(l)' => l \in ShownLines
    BY <1>10, SentStep
  <2>3. \A l \in Lines : Sent(l)' => Stamp[l] <= reader'.last
    BY <2>1, <2>2 DEF Resumes
  <2> QED
    BY <2>1, <2>3 DEF Reading
<1>11. CASE UNCHANGED pipe
  <2>1. UNCHANGED reader /\ ~Bound /\ ~Emits
    <3>1. UNCHANGED <<reader, bus, sid>>
      BY <1>11 DEF pipe
    <3>2. reader.pc = "pump" => ~Emits
      BY <1>0, <3>1 DEF Emits, Types, Readers
    <3>3. ~Emits
      BY <3>2 DEF Emits
    <3>4. ~Bound
      <4> SUFFICES ASSUME Bound PROVE FALSE
        OBVIOUS
      <4>1. Quiet
        BY DEF OwnedInv, Handles, Bound
      <4> QED
        BY <3>1, <4>1 DEF Bound, Quiet
    <3> QED
      BY <3>1, <3>3, <3>4
  <2> QED
    BY <1>3, <2>1
<1>12. CASE Refused \/ Inserted \/ Fails
  BY <1>11, <1>12 DEF Refused, Inserted, Fails
<1>13. ASSUME NEW s, Detached(s) PROVE Reading'
  BY <1>1, <1>11, <1>13, DetachFacts
<1>14. CASE Leaves \/ Takes
  BY <1>11, <1>13, <1>14 DEF Leaves, Takes
<1> QED
  BY <1>0, <1>4, <1>5, <1>6, <1>7, <1>8, <1>9, <1>10, <1>11, <1>12, <1>14, Kinds

LEMMA ResumesStep ==
  ASSUME OwnedInv, [Next]_vars, Resumes, Ascending, ~previous
  PROVE  Resumes'
<1>0. Types /\ PipeEnds /\ Handles /\ Registered /\ (call.pc \in {"bound", "reply"} => sid \in Ids)
  BY DEF OwnedInv, Registered
<1>1. CASE Calm \/ Reads \/ Emits \/ Ends \/ Drops \/ Forwards
  <2>1. UNCHANGED <<call, view, shown>>
    BY <1>1 DEF Calm, Reads, Emits, Ends, Drops, Forwards
  <2> QED
    BY <2>1 DEF Resumes, ShownLines
<1>2. ASSUME UNCHANGED shown PROVE ShownLines' = ShownLines
  BY <1>2 DEF ShownLines
<1>3. CASE Refused \/ Bound \/ Inserted
  <2>1. /\ UNCHANGED <<view, shown>> /\ call'.resume = call.resume /\ call'.after = call.after
        /\ call.pc # "none" /\ (call'.pc \in {"sent", "err"} => call.pc \in {"sent", "err"})
    BY <1>3 DEF Refused, Bound, Inserted
  <2> QED
    BY <1>2, <2>1 DEF Resumes
<1>4. CASE Starts /\ UNCHANGED shown
  <2>1. view.run = 0 /\ ~view.intr => ShownLines = {}
    BY <1>4 DEF Starts, Resumes, ShownLines
  <2> QED
    BY <1>2, <1>4, <2>1 DEF Starts, Resumes
<1>5. CASE Marks /\ UNCHANGED shown
  <2>1. shown = <<>> /\ ShownLines = {}
    BY <1>5 DEF Marks, Resumes, ShownLines
  <2> QED
    BY <1>2, <1>5, <2>1 DEF Marks, Resumes
<1>6. CASE Leaves
  <2>1. shown' = <<>> /\ ShownLines' = {} /\ call' = call /\ ~view'.wanted
    BY <1>6 DEF Leaves, ShownLines
  <2> QED
    BY <2>1 DEF Resumes
<1>7. CASE Takes
  <2>1. sid # 0
    BY <1>0, <1>7, LimitsAssumption DEF Takes
  <2> QED
    BY <1>2, <1>7, <2>1 DEF Takes, Resumes
<1>8. CASE Fails
  <2>1. ~call.resume => ShownLines = {}
    <3> SUFFICES ASSUME ~call.resume, NEW l \in ShownLines PROVE FALSE
      OBVIOUS
    <3>1. Stamp[l] <= 0 /\ l \in Lines
      BY <1>0, <1>8, LinesTyped DEF Fails, Resumes
    <3> QED
      BY <3>1, StampFacts
  <2> QED
    BY <1>2, <1>8, <2>1 DEF Fails, Resumes
<1>9. CASE Arrives
  <2>1. /\ ~Quiet /\ call' = call /\ view'.wanted = view.wanted /\ view'.mounted = view.mounted
        /\ view'.starting = view.starting
    BY <1>0, <1>9, ArriveQuiet DEF Arrives
  <2>2. call.pc \notin {"sent", "err"} /\ ~view.intr
    BY <1>0, <2>1 DEF Handles
  <2>3. view.mounted /\ view.wanted /\ view.run = 0 /\ ~view.starting => FALSE
    BY <1>0, <2>1 DEF Handles, PipeEnds
  <2>4. CASE ~(view.mounted /\ view.wanted)
    <3>1. UNCHANGED <<view, shown>>
      BY <1>9, <2>4 DEF Arrives
    <3> QED
      BY <1>2, <2>1, <3>1 DEF Resumes
  <2>5. CASE view.mounted /\ view.wanted /\ chan[1].kind # "lines"
    <3>1. ShownLines' = ShownLines /\ view'.ts = view.ts /\ (view'.intr \/ view'.run = view.run)
      BY <1>0, <1>9, <2>5, OtherArrivals DEF Arrives
    <3> QED
      BY <2>1, <2>2, <2>3, <2>5, <3>1 DEF Resumes
  <2>6. CASE view.mounted /\ view.wanted /\ chan[1].kind = "lines"
    <3> DEFINE ls == chan[1].lines
               m == ls[Len(ls)]
    <3>1. /\ 1 \in 1..Len(chan) /\ ls \in Seq(Lines) /\ Len(ls) \in Nat \ {0}
          /\ \A l \in ShownLines' : l \in ShownLines \/ l \in FrameLines(1)
      BY <1>0, <1>9, <2>6, ShownFacts
    <3>2. view'.ts = Stamp[m] /\ view'.run = view.run
      BY <1>9, <2>6 DEF Arrives
    <3>3. m \in FrameLines(1) /\ m \in Lines
      <4>1. Len(ls) \in 1..Len(ls)
        BY <3>1
      <4>2. m \in FrameLines(1)
        BY <4>1 DEF FrameLines
      <4> QED
        BY <1>0, <3>1, <4>2, LinesTyped
    <3>4. ShownLines \subseteq Lines /\ FrameLines(1) \subseteq Lines
      BY <1>0, <3>1, LinesTyped
    <3>5. ASSUME NEW l \in ShownLines PROVE l < m
      BY <3>1, <3>3 DEF Ascending, Below
    <3>6. ASSUME NEW l \in FrameLines(1) PROVE l <= m
      <4>1. PICK j \in 1..Len(ls) : l = ls[j]
        BY <3>6 DEF FrameLines
      <4>2. InOrder(ls) /\ l # 0 /\ m # 0 /\ Len(ls) \in 1..Len(ls)
        BY <3>1, <3>3, <3>4, <3>6, StampFacts DEF Ascending
      <4>3. j < Len(ls) \/ j = Len(ls)
        BY <3>1
      <4>4. CASE j < Len(ls)
        <5>1. ls[j] < ls[Len(ls)]
          BY <4>1, <4>2, <4>4 DEF InOrder
        <5> QED
          BY <3>3, <3>4, <3>6, <4>1, <5>1, StampFacts
      <4> QED
        BY <3>3, <4>1, <4>3, <4>4, StampFacts
    <3> HIDE DEF m
    <3>7. ASSUME NEW l \in ShownLines' PROVE Stamp[l] <= Stamp[m]
      <4>1. l \in Lines /\ l <= m
        <5>1. CASE l \in ShownLines
          BY <3>3, <3>4, <3>5, <5>1, StampFacts
        <5>2. CASE l \in FrameLines(1)
          BY <3>4, <3>6, <5>2
        <5> QED
          BY <3>1, <3>7, <5>1, <5>2
      <4> QED
        BY <3>3, <4>1, StampFacts
    <3> QED
      BY <2>1, <2>2, <2>3, <2>6, <3>2, <3>7 DEF Resumes
  <2> QED
    BY <2>4, <2>5, <2>6
<1> QED
  BY <1>0, <1>1, <1>3, <1>4, <1>5, <1>6, <1>7, <1>8, <1>9, Kinds

(* The queue ascends after a publication of a later line, or of none. *)
LEMMA QueueAscends ==
  ASSUME Types, NEW e \in Events, bus' = Publish(bus, e), Ascending,
         e.line = 0 \/ \A l \in BusLines : l < e.line
  PROVE  \A i, j \in 1..Len(bus'.q) :
           i < j /\ bus'.q[i].line # 0 /\ bus'.q[j].line # 0 => bus'.q[i].line < bus'.q[j].line
<1>0. bus \in Buses /\ Len(bus.q) <= LineBuffer /\ Len(bus.q) \in Nat
  BY LenProperties DEF Types, Buses
<1>1. PICK d \in {0, 1} : /\ Len(bus'.q) = Len(bus.q) + 1 - d
                          /\ \A i \in 1..(Len(bus'.q) - 1) : bus'.q[i] = bus.q[i + d]
  <2>1. PICK d \in {0, 1} :
          /\ Len(Publish(bus, e).q) = Len(bus.q) + 1 - d
          /\ \A i \in 1..(Len(Publish(bus, e).q) - 1) : Publish(bus, e).q[i] = bus.q[i + d]
    BY <1>0, PublishFacts
  <2> QED
    BY <2>1
<1>2. bus'.q[Len(bus'.q)] = e /\ Len(bus'.q) \in Nat
  BY QueueFacts
<1> SUFFICES ASSUME NEW i \in 1..Len(bus'.q), NEW j \in 1..Len(bus'.q),
                    i < j, bus'.q[i].line # 0, bus'.q[j].line # 0
             PROVE  bus'.q[i].line < bus'.q[j].line
  OBVIOUS
<1>3. i \in 1..(Len(bus'.q) - 1) /\ i + d \in 1..Len(bus.q) /\ (j = Len(bus'.q) \/ j \in 1..(Len(bus'.q) - 1))
  <2>1. d \in Nat /\ Len(bus'.q) = Len(bus.q) + 1 - d /\ Len(bus'.q) \in Nat
    BY <1>0, <1>1, <1>2
  <2>2. i \in Nat /\ j \in Nat /\ 1 <= i /\ i < j /\ j <= Len(bus'.q)
    BY <2>1
  <2>3. i \in 1..(Len(bus'.q) - 1) /\ i + d \in 1..Len(bus.q)
    BY <1>0, <2>1, <2>2
  <2>4. j = Len(bus'.q) \/ j \in 1..(Len(bus'.q) - 1)
    <3>1. Len(bus'.q) \in Nat /\ j \in 1..Len(bus'.q)
      BY <2>1
    <3> QED
      BY <3>1
  <2> QED
    BY <2>3, <2>4
<1>4. bus'.q[i] = bus.q[i + d]
  BY <1>1, <1>3
<1>5. CASE j = Len(bus'.q)
  <2>1. bus.q[i + d].line \in BusLines
    BY <1>3, <1>4 DEF BusLines
  <2> QED
    BY <1>2, <1>4, <1>5, <2>1
<1>6. CASE j \in 1..(Len(bus'.q) - 1)
  <2>1. bus'.q[j] = bus.q[j + d] /\ j + d \in 1..Len(bus.q) /\ i + d < j + d
    <3>1. bus'.q[j] = bus.q[j + d]
      BY <1>1, <1>6
    <3>2. PICK z \in Nat : z = Len(bus'.q)
      BY <1>2
    <3>3. j \in 1..(z - 1) /\ i \in 1..z /\ i < j /\ z = Len(bus.q) + 1 - d
      BY <1>1, <1>6, <3>2
    <3>4. j + d \in 1..Len(bus.q) /\ i + d < j + d
      BY <1>0, <1>1, <3>2, <3>3
    <3> QED
      BY <3>1, <3>4
  <2> QED
    BY <1>3, <1>4, <2>1 DEF Ascending
<1> QED
  BY <1>3, <1>5, <1>6

LEMMA AscendingPublish ==
  ASSUME Types, NEW e \in Events, bus' = Publish(bus, e), Ascending,
         UNCHANGED <<shown, chan>>,
         e.line = 0 \/ \A l \in Lines : Sent(l) => l < e.line
  PROVE  Ascending'
<1>0. /\ ShownLines \subseteq Lines /\ BusLines \subseteq Lines
      /\ \A i \in 1..Len(chan) : FrameLines(i) \subseteq Lines
  BY LinesTyped
<1>1. ShownLines' = ShownLines /\ \A i \in 1..Len(chan) : FrameLines(i)' = FrameLines(i)
  BY DEF ShownLines, FrameLines
<1>2. \A l \in BusLines' : l \in BusLines \/ (l = e.line /\ l # 0)
  BY PublishedLines
<1>3. \A i, j \in 1..Len(bus'.q) :
        i < j /\ bus'.q[i].line # 0 /\ bus'.q[j].line # 0 => bus'.q[i].line < bus'.q[j].line
  <2>1. e.line = 0 \/ \A l \in BusLines : l < e.line
    BY <1>0 DEF Sent
  <2> QED
    BY <2>1, QueueAscends
<1>4. Below(ShownLines, BusLines')
  <2> SUFFICES ASSUME NEW a \in ShownLines, NEW b \in BusLines' PROVE a < b
    BY DEF Below
  <2>1. CASE b \in BusLines
    BY <2>1 DEF Ascending, Below
  <2>2. CASE b = e.line /\ b # 0
    <3>1. Sent(a) /\ a \in Lines
      BY <1>0 DEF Sent
    <3> QED
      BY <2>2, <3>1
  <2> QED
    BY <1>2, <2>1, <2>2
<1>5. ASSUME NEW i \in 1..Len(chan) PROVE Below(FrameLines(i), BusLines')
  <2> SUFFICES ASSUME NEW a \in FrameLines(i), NEW b \in BusLines' PROVE a < b
    BY DEF Below
  <2>1. CASE b \in BusLines
    BY <2>1 DEF Ascending, Below
  <2>2. CASE b = e.line /\ b # 0
    <3>1. Sent(a) /\ a \in Lines
      BY <1>0 DEF Sent
    <3> QED
      BY <2>2, <3>1
  <2> QED
    BY <1>2, <2>1, <2>2
<1> QED
  BY <1>1, <1>3, <1>4, <1>5 DEF Ascending

LEMMA AscendingForward ==
  ASSUME Types, Ascending, NEW f \in Frames, NEW n \in Nat, Fetches(f, n), UNCHANGED shown
  PROVE  Ascending'
<1>0. /\ ShownLines \subseteq Lines /\ BusLines \subseteq Lines
      /\ \A i \in 1..Len(chan) : FrameLines(i) \subseteq Lines
  BY LinesTyped
<1> PICK z \in Nat : z = Len(chan')
  BY FetchedLines
<1>1. /\ \A l \in BusLines' : \E i \in 1..Len(bus.q) : n < i /\ l = bus.q[i].line /\ l # 0
      /\ \A j \in 1..Len(f.lines) : j \in 1..Len(bus.q) /\ j <= n /\ f.lines[j] = bus.q[j].line
      /\ \A i \in 1..Len(chan) : chan'[i] = chan[i]
      /\ Len(chan') = Len(chan) + 1 /\ chan'[z] = f /\ Len(chan) \in Nat
  BY FetchedLines
<1>2. /\ n \in 0..Len(bus.q) /\ Len(bus'.q) = Len(bus.q) - n /\ Len(bus.q) \in Nat
      /\ \A i \in 1..Len(bus'.q) : bus'.q[i] = bus.q[i + n]
  BY LenProperties DEF Fetches, Types, Buses
<1>3. f.lines \in Seq(Lines) /\ \A j \in 1..Len(f.lines) : f.lines[j] \in Lines /\ f.lines[j] # 0
  <2>1. f.lines \in Seq(Lines)
    BY DEF Frames
  <2> QED
    BY <2>1, ElementOfSeq, StampFacts
<1>4. /\ ShownLines' = ShownLines /\ BusLines' \subseteq BusLines
      /\ \A i \in 1..Len(chan) : FrameLines(i)' = FrameLines(i)
      /\ \A l \in FrameLines(z)' : \E j \in 1..Len(f.lines) : l = f.lines[j] /\ l \in BusLines
  <2>1. ShownLines' = ShownLines
    BY DEF ShownLines
  <2>2. BusLines' \subseteq BusLines
    BY <1>1 DEF BusLines
  <2>3. \A i \in 1..Len(chan) : FrameLines(i)' = FrameLines(i)
    BY <1>1 DEF FrameLines
  <2>4. \A l \in FrameLines(z)' : \E j \in 1..Len(f.lines) : l = f.lines[j] /\ l \in BusLines
    <3>1. FrameLines(z)' = {f.lines[j] : j \in 1..Len(f.lines)}
      BY <1>1 DEF FrameLines
    <3>2. ASSUME NEW j \in 1..Len(f.lines) PROVE f.lines[j] \in BusLines
      <4>1. j \in 1..Len(bus.q) /\ f.lines[j] = bus.q[j].line /\ f.lines[j] # 0
        BY <1>1, <1>3
      <4> QED
        BY <4>1 DEF BusLines
    <3> QED
      BY <3>1, <3>2
  <2> QED
    BY <2>1, <2>2, <2>3, <2>4
<1>5. InOrder(f.lines)
  <2> SUFFICES ASSUME NEW i \in 1..Len(f.lines), NEW j \in 1..Len(f.lines), i < j
               PROVE  f.lines[i] < f.lines[j]
    BY DEF InOrder
  <2> QED
    BY <1>1, <1>3 DEF Ascending
<1>6. Below(FrameLines(z)', BusLines')
  <2> SUFFICES ASSUME NEW a \in FrameLines(z)', NEW b \in BusLines' PROVE a < b
    BY DEF Below
  <2>1. PICK j \in 1..Len(f.lines) : a = f.lines[j]
    BY <1>4
  <2>2. PICK i \in 1..Len(bus.q) : n < i /\ b = bus.q[i].line /\ b # 0
    BY <1>1
  <2>3. j \in 1..Len(bus.q) /\ a = bus.q[j].line /\ a # 0 /\ j < i
    BY <1>1, <1>2, <1>3, <2>1, <2>2
  <2> QED
    BY <2>2, <2>3 DEF Ascending
<1>7. \A i, j \in 1..Len(bus'.q) :
        i < j /\ bus'.q[i].line # 0 /\ bus'.q[j].line # 0 => bus'.q[i].line < bus'.q[j].line
  <2> SUFFICES ASSUME NEW i \in 1..Len(bus'.q), NEW j \in 1..Len(bus'.q),
                      i < j, bus'.q[i].line # 0, bus'.q[j].line # 0
               PROVE  bus'.q[i].line < bus'.q[j].line
    OBVIOUS
  <2>1. i + n \in 1..Len(bus.q) /\ j + n \in 1..Len(bus.q) /\ i + n < j + n
    BY <1>2
  <2>2. bus'.q[i] = bus.q[i + n] /\ bus'.q[j] = bus.q[j + n]
    BY <1>2
  <2> QED
    BY <2>1, <2>2 DEF Ascending
<1>8. \A i \in 1..Len(chan') : i \in 1..Len(chan) \/ i = z
  BY <1>1
<1>9. ASSUME NEW i \in 1..Len(chan')
      PROVE  /\ InOrder(chan'[i].lines) /\ Below(ShownLines', FrameLines(i)')
             /\ Below(FrameLines(i)', BusLines')
  <2>1. CASE i \in 1..Len(chan)
    <3>1. InOrder(chan[i].lines) /\ Below(ShownLines, FrameLines(i)) /\ Below(FrameLines(i), BusLines)
      BY <2>1 DEF Ascending
    <3>2. chan'[i] = chan[i] /\ FrameLines(i)' = FrameLines(i)
      BY <1>1, <1>4, <2>1
    <3>3. Below(FrameLines(i), BusLines')
      BY <1>4, <3>1 DEF Below
    <3> QED
      BY <1>4, <3>1, <3>2, <3>3
  <2>2. CASE i = z
    <3>1. Below(ShownLines, FrameLines(z)')
      BY <1>4 DEF Ascending, Below
    <3> QED
      BY <1>1, <1>4, <1>5, <1>6, <2>2, <3>1
  <2> QED
    BY <1>8, <2>1, <2>2
<1>10. ASSUME NEW i \in 1..Len(chan'), NEW j \in 1..Len(chan'), i < j
       PROVE  Below(FrameLines(i)', FrameLines(j)')
  <2>1. i \in 1..Len(chan) /\ FrameLines(i)' = FrameLines(i)
    BY <1>1, <1>4, <1>10
  <2>2. CASE j \in 1..Len(chan)
    BY <1>4, <1>10, <2>1, <2>2 DEF Ascending
  <2>3. CASE j = z
    <3>1. Below(FrameLines(i), BusLines)
      BY <2>1 DEF Ascending
    <3>2. Below(FrameLines(i), FrameLines(z)')
      BY <1>4, <3>1 DEF Below
    <3> QED
      BY <2>1, <2>3, <3>2
  <2> QED
    BY <1>8, <2>2, <2>3
<1>11. Below(ShownLines', BusLines') /\ InOrder(shown')
  BY <1>4 DEF Ascending, Below
<1> QED
  BY <1>7, <1>9, <1>10, <1>11 DEF Ascending

LEMMA AscendingArrive ==
  ASSUME Types, Ascending, Arrives
  PROVE  Ascending'
<1>0. /\ ShownLines \subseteq Lines /\ BusLines \subseteq Lines
      /\ \A i \in 1..Len(chan) : FrameLines(i) \subseteq Lines
  BY LinesTyped
<1>1. /\ 1 \in 1..Len(chan) /\ Len(chan') = Len(chan) - 1 /\ Len(chan) \in Nat
      /\ \A i \in 1..Len(chan') : i + 1 \in 1..Len(chan) /\ chan'[i] = chan[i + 1]
                                  /\ FrameLines(i)' = FrameLines(i + 1)
  BY ArrivedLines
<1>2. bus' = bus /\ BusLines' = BusLines
  BY DEF Arrives, BusLines
<1>3. \A i \in 1..Len(chan') : 1 < i + 1
  BY <1>1
<1>4. \A i, j \in 1..Len(chan') : i < j => Below(FrameLines(i)', FrameLines(j)')
  <2> SUFFICES ASSUME NEW i \in 1..Len(chan'), NEW j \in 1..Len(chan'), i < j
               PROVE  Below(FrameLines(i + 1), FrameLines(j + 1))
    BY <1>1
  <2>1. i + 1 \in 1..Len(chan) /\ j + 1 \in 1..Len(chan) /\ i + 1 < j + 1
    BY <1>1
  <2> QED
    BY <2>1 DEF Ascending
<1>5. \A i \in 1..Len(chan') : InOrder(chan'[i].lines) /\ Below(FrameLines(i)', BusLines')
  BY <1>1, <1>2 DEF Ascending
<1>6. CASE ~(view.mounted /\ view.wanted /\ chan[1].kind = "lines")
  <2>1. ShownLines' = ShownLines /\ InOrder(shown')
    BY <1>6, OtherArrivals DEF Ascending
  <2>2. \A i \in 1..Len(chan') : Below(ShownLines', FrameLines(i)')
    BY <1>1, <2>1 DEF Ascending
  <2> QED
    BY <1>2, <1>4, <1>5, <2>1, <2>2 DEF Ascending
<1>7. CASE view.mounted /\ view.wanted /\ chan[1].kind = "lines"
  <2> DEFINE ls == chan[1].lines
  <2>1. /\ ls \in Seq(Lines) /\ Len(ls) \in Nat \ {0}
        /\ shown' \in Seq(0..MaxLines) /\ Len(shown) \in Nat /\ Len(shown') = Len(shown) + Len(ls)
        /\ \A i \in 1..Len(shown) : shown'[i] = shown[i] /\ (shown[i] # 0 => shown[i] \in ShownLines)
        /\ \A i \in (Len(shown) + 1)..Len(shown') :
             /\ i - Len(shown) \in 1..Len(ls)
             /\ shown'[i] = ls[i - Len(shown)] /\ shown'[i] \in FrameLines(1)
        /\ \A l \in ShownLines' : l \in ShownLines \/ l \in FrameLines(1)
    BY <1>7, ShownFacts
  <2>2. /\ InOrder(ls) /\ Below(ShownLines, FrameLines(1)) /\ Below(FrameLines(1), BusLines)
        /\ InOrder(shown) /\ Below(ShownLines, BusLines)
    BY <1>1 DEF Ascending
  <2> HIDE DEF ls
  <2>3. InOrder(shown')
    <3> SUFFICES ASSUME NEW i \in 1..Len(shown'), NEW j \in 1..Len(shown'), i < j, shown'[i] # 0, shown'[j] # 0
                 PROVE  shown'[i] < shown'[j]
      BY DEF InOrder
    <3>1. \A k \in 1..Len(shown') : k \in 1..Len(shown) \/ k \in (Len(shown) + 1)..Len(shown')
      BY <2>1
    <3>2. CASE j \in 1..Len(shown)
      <4>1. i \in 1..Len(shown)
        BY <2>1, <3>2
      <4> QED
        BY <2>1, <2>2, <3>2, <4>1 DEF InOrder
    <3>3. CASE j \in (Len(shown) + 1)..Len(shown') /\ i \in 1..Len(shown)
      BY <2>1, <2>2, <3>3 DEF Below
    <3>4. CASE j \in (Len(shown) + 1)..Len(shown') /\ i \in (Len(shown) + 1)..Len(shown')
      <4>1. /\ i - Len(shown) \in 1..Len(ls) /\ j - Len(shown) \in 1..Len(ls)
            /\ i - Len(shown) < j - Len(shown)
            /\ shown'[i] = ls[i - Len(shown)] /\ shown'[j] = ls[j - Len(shown)]
        BY <2>1, <3>4
      <4> QED
        BY <2>2, <4>1 DEF InOrder
    <3> QED
      BY <3>1, <3>2, <3>3, <3>4
  <2>4. Below(ShownLines', BusLines')
    BY <1>2, <2>1, <2>2 DEF Below
  <2>5. ASSUME NEW i \in 1..Len(chan') PROVE Below(ShownLines', FrameLines(i)')
    <3>1. Below(ShownLines, FrameLines(i + 1)) /\ Below(FrameLines(1), FrameLines(i + 1))
      BY <1>1, <1>3 DEF Ascending
    <3>2. Below(ShownLines', FrameLines(i + 1))
      BY <2>1, <3>1 DEF Below
    <3> QED
      BY <1>1, <3>2
  <2> QED
    BY <1>2, <1>4, <1>5, <2>3, <2>4, <2>5 DEF Ascending
<1> QED
  BY <1>6, <1>7

LEMMA AscendingStep ==
  ASSUME OwnedInv, [Next]_vars, Ascending, Reading
  PROVE  Ascending'
<1>0. Types /\ (call.pc \in {"bound", "reply"} => sid \in Ids)
  BY DEF OwnedInv, Registered
<1>1. CASE UNCHANGED <<shown, chan>> /\ bus'.q = bus.q
  <2>1. ShownLines' = ShownLines /\ BusLines' = BusLines
    BY <1>1 DEF ShownLines, BusLines
  <2>2. \A i \in 1..Len(chan) : FrameLines(i)' = FrameLines(i)
    BY <1>1 DEF FrameLines
  <2> QED
    BY <1>1, <2>1, <2>2 DEF Ascending
<1>2. CASE Calm \/ Reads \/ Refused \/ Inserted \/ Fails \/ UNCHANGED <<pipe, shown>>
  BY <1>1, <1>2 DEF Calm, Reads, Refused, Inserted, Fails, pipe
<1>3. CASE Emits
  <2>1. \A l \in Lines : Sent(l) => l < reader.pos + 1
    BY <1>0, <1>3, NextIsNew
  <2> QED
    BY <1>0, <1>3, <2>1, LineEvents, AscendingPublish DEF Emits
<1>4. CASE Ends
  <2>1. PICK kind \in Final : bus' = Publish(bus, Event(kind, 0))
    BY <1>4 DEF Ends
  <2> QED
    BY <1>0, <1>4, <2>1, FinishEvents, AscendingPublish DEF Ends
<1>5. CASE Drops
  BY <1>0, <1>1, <1>5 DEF Drops, Close, Types, Buses
<1>6. CASE Forwards
  <2>1. PICK f \in Frames, n \in Nat : Fetches(f, n)
    BY <1>0, <1>6, ForwardFacts
  <2> QED
    BY <1>0, <1>6, <2>1, AscendingForward DEF Forwards
<1>7. ASSUME shown' = shown \/ shown' = <<>>, bus'.q = <<>> /\ chan' = <<>> PROVE Ascending'
  <2>1. Len(bus'.q) = 0 /\ Len(chan') = 0
    BY <1>7
  <2>2. InOrder(shown') /\ BusLines' = {}
    BY <1>7, <2>1 DEF Ascending, InOrder, BusLines
  <2> QED
    BY <2>1, <2>2 DEF Ascending, Below
<1>8. CASE Bound
  BY <1>7, <1>8 DEF Bound
<1>9. ASSUME shown' = <<>>, UNCHANGED pipe PROVE Ascending'
  <2>1. ShownLines' = {} /\ InOrder(shown')
    BY <1>9 DEF ShownLines, InOrder
  <2>2. UNCHANGED <<bus, chan>>
    BY <1>9 DEF pipe
  <2>3. BusLines' = BusLines /\ \A i \in 1..Len(chan) : FrameLines(i)' = FrameLines(i)
    BY <2>2 DEF BusLines, FrameLines
  <2> QED
    BY <2>1, <2>2, <2>3 DEF Ascending, Below
<1>10. CASE Leaves
  BY <1>7, <1>9, <1>10, DetachFacts DEF Leaves
<1>11. CASE Takes
  BY <1>2, <1>7, <1>11, DetachFacts DEF Takes
<1>12. CASE Arrives
  BY <1>0, <1>12, AscendingArrive
<1> QED
  BY <1>0, <1>2, <1>3, <1>4, <1>5, <1>6, <1>8, <1>10, <1>11, <1>12, Kinds

LEMMA PreviousStep == [Next]_vars => previous' = previous
<1> SUFFICES ASSUME [Next]_vars PROVE previous' = previous
  OBVIOUS
<1>1. CASE Environment \/ Cluster
  BY <1>1 DEF Environment, Cluster, Write, ContainerStarts, ContainerExits, ContainerRestarts,
     PodDeleted, Settle, NetDown, NetUp, Wedge, Break, Unhealthy, Slept, Reconnect, Leave,
     EvictLogs, EvictEntry, server
<1>2. CASE Reader \/ Forward \/ Bind \/ Insert \/ Stop \/ Panel \/ UNCHANGED vars
  BY <1>2 DEF Reader, Forward, Bind, Insert, Stop, Panel, Want, Again, Unwant, Unmount, Resume,
     Reply, ReplyError, Deliver, server, vars
<1> QED
  BY <1>1, <1>2 DEF Next

LEMMA OrderInit == Init => OrderInv
<1> SUFFICES ASSUME Init PROVE OrderInv
  OBVIOUS
<1>1. /\ reader.pc = "none" /\ bus.q = <<>> /\ chan = <<>> /\ shown = <<>>
      /\ call.pc = "none"
  BY DEF Init, NoReader, NoBus, NoCall
<1>2. Len(bus.q) = 0 /\ Len(chan) = 0 /\ Len(shown) = 0
  BY <1>1
<1>3. ShownLines = {} /\ BusLines = {} /\ InOrder(shown)
  BY <1>2 DEF ShownLines, BusLines, InOrder
<1> QED
  BY <1>1, <1>2, <1>3 DEF OrderInv, Resumes, Ascending, Reading, Alive, Below

LEMMA OrderAlways == Spec => []OrderInv
<1>1. OwnedInv /\ OrderInv /\ [Next]_vars => OrderInv'
  <2> SUFFICES ASSUME OwnedInv, OrderInv, [Next]_vars, ~previous
               PROVE  Resumes' /\ Ascending' /\ Reading'
    BY PreviousStep DEF OrderInv
  <2>1. Resumes /\ Ascending /\ Reading
    BY DEF OrderInv
  <2> QED
    BY <2>1, ResumesStep, AscendingStep, ReadingStep
<1> QED
  BY <1>1, OrderInit, OwnedAlways, PTL DEF Spec

(* Reconnects and resumes re-request an overlapping window, yet the panel   *)
(* never shows a line twice or out of order, for any timestamps that do not *)
(* decrease and any tail, buffer and batch sizes (run_live's skip_through   *)
(* and last_ts, start_log_stream's resume_after, LogView's lastTsRef).      *)
THEOREM ShownOnce == Spec => []NoLineTwice
<1>1. OrderInv => NoLineTwice
  BY DEF OrderInv, Ascending, NoLineTwice
<1> QED
  BY <1>1, OrderAlways, PTL

-----------------------------------------------------------------------------
(* Gaps: two neighbours anywhere on the way from the reader to the panel    *)
(* are linked, and the reader's position is linked to the newest of them.   *)

LEMMA LinkedMore ==
  ASSUME NEW c, NEW d, c \subseteq d, NEW a, NEW b
  PROVE  /\ Linked(c, a, b) => Linked(d, a, b)
         /\ Explained(c, a, b) => Explained(d, a, b)
         /\ Linked(c, 0, b) /\ Linked(c, a, 0)
  BY DEF Linked, Explained

(* The ends of a frame are lines, or 0. *)
LEMMA FrameEnds ==
  ASSUME NEW f \in Frames, f.kind = "lines" <=> f.lines # <<>>
  PROVE  /\ FirstOf(f) \in 0..MaxLines /\ LastOf(f) \in 0..MaxLines
         /\ f.kind = "lines" => Len(f.lines) \in Nat \ {0} /\ FirstOf(f) = f.lines[1]
                                /\ LastOf(f) = f.lines[Len(f.lines)]
         /\ f.kind # "lines" => FirstOf(f) = 0 /\ LastOf(f) = 0
<1>0. MaxLines \in Nat /\ Lines \subseteq 0..MaxLines /\ 0 \in 0..MaxLines
  BY StampFacts, Limits
<1>1. CASE f.kind = "lines"
  <2>1. f.lines \in Seq(Lines) /\ f.lines # <<>>
    BY <1>1 DEF Frames
  <2>2. Len(f.lines) \in Nat \ {0} /\ 1 \in 1..Len(f.lines) /\ Len(f.lines) \in 1..Len(f.lines)
    <3>1. Len(f.lines) \in Nat /\ Len(f.lines) # 0
      BY <2>1, LenProperties, EmptySeq
    <3> QED
      BY <3>1
  <2>3. f.lines[1] \in Lines /\ f.lines[Len(f.lines)] \in Lines
    BY <2>1, <2>2, ElementOfSeq
  <2> QED
    BY <1>0, <1>1, <2>2, <2>3 DEF FirstOf, LastOf
<1>2. CASE f.kind # "lines"
  BY <1>0, <1>2 DEF FirstOf, LastOf
<1> QED
  BY <1>1, <1>2

LEMMA EndsTyped ==
  ASSUME Types
  PROVE  /\ LastShown \in 0..MaxLines /\ LastFramed \in 0..MaxLines /\ Newest \in 0..MaxLines
         /\ LastShown # 0 => LastShown \in ShownLines
<1>0. /\ shown \in Seq(0..MaxLines) /\ Len(shown) \in Nat /\ (shown = <<>> <=> Len(shown) = 0)
      /\ bus.q \in Seq(Events) /\ Len(bus.q) \in Nat /\ (bus.q = <<>> <=> Len(bus.q) = 0)
      /\ Len(chan) \in Nat /\ (chan = <<>> <=> Len(chan) = 0) /\ 0 \in 0..MaxLines
  BY LenProperties, EmptySeq, StampFacts, ChanFacts DEF Types, Buses
<1>1. LastShown \in 0..MaxLines /\ (LastShown # 0 => LastShown \in ShownLines)
  <2>1. CASE shown = <<>>
    BY <1>0, <2>1 DEF LastShown
  <2>2. CASE shown # <<>>
    <3>1. Len(shown) \in 1..Len(shown) /\ LastShown = shown[Len(shown)]
      BY <1>0, <2>2 DEF LastShown
    <3>2. LastShown \in 0..MaxLines
      BY <1>0, <3>1, ElementOfSeq
    <3> QED
      BY <3>1, <3>2 DEF ShownLines
  <2> QED
    BY <2>1, <2>2
<1>2. LastFramed \in 0..MaxLines
  <2>1. CASE chan = <<>>
    BY <1>1, <2>1 DEF LastFramed
  <2>2. CASE chan # <<>>
    <3>1. Len(chan) \in 1..Len(chan) /\ LastFramed = LastOf(chan[Len(chan)])
      BY <1>0, <2>2 DEF LastFramed
    <3>2. chan[Len(chan)] \in Frames /\ (chan[Len(chan)].kind = "lines" <=> chan[Len(chan)].lines # <<>>)
      BY <3>1, LinesTyped DEF Types
    <3> QED
      BY <3>1, <3>2, FrameEnds
  <2> QED
    BY <2>1, <2>2
<1>3. Newest \in 0..MaxLines
  <2>1. CASE bus.q = <<>>
    BY <1>0, <1>2, <2>1 DEF Newest
  <2>2. CASE bus.q # <<>>
    <3>1. Len(bus.q) \in 1..Len(bus.q) /\ Newest = bus.q[Len(bus.q)].line
      BY <1>0, <2>2 DEF Newest
    <3> QED
      BY <3>1, LinesTyped
  <2> QED
    BY <2>1, <2>2
<1> QED
  BY <1>1, <1>2, <1>3

(* The last cases of a step that changes no line on its way. *)
LEMMA SamePipeline ==
  ASSUME UNCHANGED <<shown, chan>>, bus'.q = bus.q, bus'.lagged = bus.lagged, cut \subseteq cut'
  PROVE  /\ LastShown' = LastShown /\ LastFramed' = LastFramed /\ Newest' = Newest
         /\ ShownLinks => ShownLinks'
         /\ FrameLinks => FrameLinks'
         /\ QueueLinks => QueueLinks'
<1>1. LastShown' = LastShown
  BY DEF LastShown
<1>2. LastFramed' = LastFramed
  BY <1>1 DEF LastFramed
<1>3. Newest' = Newest
  BY <1>2 DEF Newest
<1>4. ShownLinks => ShownLinks'
  BY LinkedMore DEF ShownLinks
<1>5. FrameLinks => FrameLinks'
  BY <1>1, LinkedMore DEF FrameLinks
<1>6. QueueLinks => QueueLinks'
  BY <1>2, LinkedMore DEF QueueLinks
<1> QED
  BY <1>1, <1>2, <1>3, <1>4, <1>5, <1>6

(* The reader's position stays linked to the newest line: a line before the *)
(* overlap was seen, one in it shares the timestamp of the newest.          *)
LEMMA OverlapExplained ==
  ASSUME NEW a \in Lines, NEW b \in Nat, b <= MaxLines, NEW c,
         \A k \in 1..b : Stamp[k] <= Stamp[a] \/ k \in c
  PROVE  Explained(c, a, b)
<1> SUFFICES ASSUME NEW k \in (a + 1)..b PROVE k \in c \/ Stamp[k] = Stamp[k - 1]
  BY DEF Explained
<1>1. k \in Lines /\ k - 1 \in Lines /\ a <= k - 1 /\ k - 1 <= k /\ k \in 1..b /\ a <= k
  BY StampFacts DEF Lines
<1>2. Stamp[a] <= Stamp[k - 1] /\ Stamp[k - 1] <= Stamp[k]
  BY <1>1, StampFacts
<1>3. Stamp[a] \in Nat /\ Stamp[k - 1] \in Nat /\ Stamp[k] \in Nat
  BY <1>1, StampFacts
<1> QED
  BY <1>1, <1>2, <1>3

LEMMA GapReads ==
  ASSUME Types, Types', Reads, Reading, Reaches, ~previous
  PROVE  Reaches'
<1>1. UNCHANGED <<shown, chan, bus>> /\ cut \subseteq cut' /\ Alive /\ Alive' /\ reader'.last = reader.last
  BY DEF Reads, Opens, Skips
<1>2. Newest' = Newest /\ Newest \in 0..MaxLines
  BY <1>1, SamePipeline, EndsTyped
<1>3. Newest' # 0 => Stamp[Newest'] = reader'.last
  BY <1>1, <1>2 DEF Reaches
<1>4. ASSUME reader'.pc = "pump", Newest # 0 PROVE Explained(cut', Newest, reader'.pos)
  <2>0. Newest \in Lines /\ Stamp[Newest] = reader.last
    BY <1>1, <1>2, <1>4, StampFacts DEF Reaches, Lines
  <2>1. reader'.pos \in Nat /\ reader'.pos <= MaxLines
    <3>1. reader' \in Readers /\ reader'.pos <= written' /\ written' \in 0..MaxLines
      BY DEF Types
    <3>2. reader'.pos \in Nat
      BY <3>1 DEF Readers
    <3> QED
      BY <3>1, <3>2, StampFacts
  <2>2. CASE Opens
    <3>1. \A k \in 1..reader'.pos : Stamp[k] <= Stamp[Newest] \/ k \in cut'
      BY <2>0, <2>2 DEF Opens
    <3> QED
      BY <2>0, <2>1, <3>1, OverlapExplained
  <2>3. CASE Skips
    <3>1. /\ reader.pc = "pump" /\ cut' = cut /\ reader'.pos = reader.pos + 1 /\ reader.pos + 1 \in Lines
          /\ Stamp[reader.pos + 1] <= Stamp[Newest] /\ reader.pos \in Nat
      BY <2>0, <2>3 DEF Skips, Reading, Types, Readers
    <3>2. Explained(cut, Newest, reader.pos)
      BY <1>4, <3>1 DEF Reaches
    <3> SUFFICES ASSUME NEW k \in (Newest + 1)..(reader.pos + 1)
                 PROVE  k \in cut \/ Stamp[k] = Stamp[k - 1]
      BY <3>1 DEF Explained
    <3>3. CASE k \in (Newest + 1)..reader.pos
      BY <3>2, <3>3 DEF Explained
    <3>4. CASE k = reader.pos + 1
      <4>1. k - 1 \in Lines /\ k \in Lines /\ Newest <= k - 1 /\ k - 1 <= k
        BY <2>0, <3>1, <3>4, StampFacts DEF Lines
      <4>2. Stamp[Newest] <= Stamp[k - 1] /\ Stamp[k - 1] <= Stamp[k]
        BY <2>0, <4>1, StampFacts
      <4>3. Stamp[Newest] \in Nat /\ Stamp[k - 1] \in Nat /\ Stamp[k] \in Nat
        BY <2>0, <4>1, StampFacts
      <4> QED
        BY <3>1, <3>4, <4>2, <4>3
    <3> QED
      BY <2>0, <3>1, <3>3, <3>4, StampFacts
  <2> QED
    BY <1>4, <2>2, <2>3 DEF Reads
<1> QED
  BY <1>2, <1>3, <1>4 DEF Reaches

(* A published line follows the newest; a final event follows anything. *)
LEMMA GapPublish ==
  ASSUME Types, NEW e \in Events, bus' = Publish(bus, e), UNCHANGED <<shown, chan, cut>>,
         QueueLinks, Linked(cut, Newest, e.line)
  PROVE  QueueLinks' /\ Newest' = e.line /\ LastShown' = LastShown /\ LastFramed' = LastFramed
<1>0. bus \in Buses /\ Len(bus.q) <= LineBuffer /\ Len(bus.q) \in Nat /\ (bus.q = <<>> <=> Len(bus.q) = 0)
  BY LenProperties, EmptySeq DEF Types, Buses
<1>1. PICK d \in {0, 1} : /\ Len(bus'.q) = Len(bus.q) + 1 - d
                          /\ \A i \in 1..(Len(bus'.q) - 1) : bus'.q[i] = bus.q[i + d]
                          /\ IF d = 1 THEN bus'.lagged ELSE bus'.lagged = bus.lagged
  <2>1. PICK d \in {0, 1} :
          /\ Len(Publish(bus, e).q) = Len(bus.q) + 1 - d
          /\ \A i \in 1..(Len(Publish(bus, e).q) - 1) : Publish(bus, e).q[i] = bus.q[i + d]
          /\ IF d = 1 THEN Publish(bus, e).lagged ELSE Publish(bus, e).lagged = bus.lagged
    BY <1>0, PublishFacts
  <2> QED
    BY <2>1
<1>2. bus'.q[Len(bus'.q)] = e /\ Len(bus'.q) \in Nat \ {0} /\ bus'.q # <<>>
  <2>1. bus'.q[Len(bus'.q)] = e /\ Len(bus'.q) \in Nat \ {0}
    BY QueueFacts
  <2> QED
    BY <2>1
<1>3. LastShown' = LastShown
  BY DEF LastShown
<1>4. LastFramed' = LastFramed
  BY <1>3 DEF LastFramed
<1>5. Newest' = e.line
  BY <1>2 DEF Newest
<1>6. ASSUME NEW i \in 1..(Len(bus'.q) - 1) PROVE Linked(cut, bus'.q[i].line, bus'.q[i + 1].line)
  <2>0. d \in Nat /\ Len(bus'.q) = Len(bus.q) + 1 - d /\ i + d \in 1..Len(bus.q) /\ Len(bus'.q) \in Nat
    BY <1>0, <1>1, <1>2
  <2>1. bus'.q[i] = bus.q[i + d]
    BY <1>1
  <2>2. CASE i + 1 = Len(bus'.q)
    <3>1. i + d = Len(bus.q) /\ bus.q # <<>>
      BY <1>0, <2>0, <2>2
    <3>2. bus'.q[i].line = Newest
      BY <2>1, <3>1 DEF Newest
    <3> QED
      BY <1>2, <2>2, <3>2
  <2>3. CASE i + 1 # Len(bus'.q)
    <3>1. i + 1 \in 1..(Len(bus'.q) - 1) /\ i + d \in 1..(Len(bus.q) - 1) /\ (i + 1) + d = (i + d) + 1
      BY <1>0, <2>0, <2>3
    <3>2. bus'.q[i + 1] = bus.q[(i + d) + 1]
      BY <1>1, <3>1
    <3> QED
      BY <2>1, <3>1, <3>2 DEF QueueLinks
  <2> QED
    BY <2>2, <2>3
<1>7. ASSUME ~bus'.lagged PROVE Linked(cut, LastFramed, bus'.q[1].line)
  <2>1. d = 0 /\ bus'.lagged = bus.lagged /\ Len(bus'.q) = Len(bus.q) + 1
    BY <1>0, <1>1, <1>7
  <2>2. CASE bus.q = <<>>
    <3>1. Len(bus'.q) = 1 /\ Newest = LastFramed
      BY <1>0, <1>7, <2>1, <2>2 DEF Newest
    <3> QED
      BY <1>2, <3>1
  <2>3. CASE bus.q # <<>>
    <3>1. 1 \in 1..(Len(bus'.q) - 1) /\ 1 + d = 1
      BY <1>0, <2>1, <2>3
    <3>2. bus'.q[1] = bus.q[1]
      BY <1>1, <3>1
    <3> QED
      BY <1>7, <2>1, <2>3, <3>2 DEF QueueLinks
  <2> QED
    BY <2>2, <2>3
<1>8. QueueLinks'
  BY <1>4, <1>6, <1>7 DEF QueueLinks
<1> QED
  BY <1>3, <1>4, <1>5, <1>8

(* The forwarder moves a run of linked lines from the queue to a frame. *)
LEMMA GapForward ==
  ASSUME Types, NEW f \in Frames, NEW n \in Nat, Fetches(f, n), UNCHANGED <<shown, cut>>,
         FrameLinks, QueueLinks, bus' \in Buses
  PROVE  /\ FrameLinks' /\ QueueLinks' /\ LastShown' = LastShown
         /\ Newest' # 0 => Newest' = Newest
<1>0. /\ Len(bus.q) \in Nat /\ (bus.q = <<>> <=> Len(bus.q) = 0)
      /\ Len(chan) \in Nat /\ (chan = <<>> <=> Len(chan) = 0)
      /\ (bus'.q = <<>> <=> Len(bus'.q) = 0)
  BY LenProperties, EmptySeq, ChanFacts DEF Types, Buses
<1>1. /\ n \in 0..Len(bus.q) /\ Len(bus'.q) = Len(bus.q) - n
      /\ \A i \in 1..Len(bus'.q) : bus'.q[i] = bus.q[i + n]
      /\ ~bus'.lagged
  BY DEF Fetches
<1>2. /\ Len(chan') = Len(chan) + 1 /\ chan'[Len(chan')] = f /\ chan' # <<>>
      /\ \A i \in 1..Len(chan) : chan'[i] = chan[i]
  BY ChanFacts DEF Fetches
<1>3. f.kind = "lines" <=> f.lines # <<>>
  <2>1. CASE f.kind = "lines"
    <3>1. Len(f.lines) # 0
      BY <2>1 DEF Fetches, Final
    <3> QED
      BY <2>1, <3>1
  <2>2. CASE f.kind # "lines"
    BY <2>2 DEF Fetches
  <2> QED
    BY <2>1, <2>2
<1>4. LastShown' = LastShown /\ LastFramed' = LastOf(f)
  BY <1>2 DEF LastShown, LastFramed
<1>5. f.kind # "lines" => FirstOf(f) = 0 /\ LastOf(f) = 0 /\ f.lines = <<>>
  BY <1>3 DEF FirstOf, LastOf
<1>6. ASSUME f.kind = "lines"
      PROVE  /\ n = Len(f.lines) /\ n # 0 /\ ~bus.lagged
             /\ \A i \in 1..n : f.lines[i] = bus.q[i].line
             /\ FirstOf(f) = bus.q[1].line /\ LastOf(f) = bus.q[n].line
  <2>1. /\ n = Len(f.lines) /\ n # 0 /\ ~bus.lagged
        /\ \A i \in 1..n : f.lines[i] = bus.q[i].line
    BY <1>6 DEF Fetches, Final
  <2>2. 1 \in 1..n /\ n \in 1..n
    BY <2>1
  <2> QED
    BY <1>6, <2>1, <2>2 DEF FirstOf, LastOf
<1>7. Linked(cut, LastFramed, FirstOf(f))
  <2>1. CASE f.kind = "lines"
    <3>1. bus.q # <<>>
      BY <1>0, <1>1, <1>6, <2>1
    <3> QED
      BY <1>6, <2>1, <3>1 DEF QueueLinks
  <2>2. CASE f.kind # "lines"
    BY <1>5, <2>2, LinkedMore
  <2> QED
    BY <2>1, <2>2
<1>8. FrameLinks'
  <2>1. ASSUME NEW i \in 1..Len(chan'), NEW j \in 1..(Len(chan'[i].lines) - 1)
        PROVE  Linked(cut, chan'[i].lines[j], chan'[i].lines[j + 1])
    <3>1. CASE i \in 1..Len(chan)
      BY <1>2, <2>1, <3>1 DEF FrameLinks
    <3>2. CASE i = Len(chan')
      <4>1. chan'[i] = f /\ j \in 1..(Len(f.lines) - 1)
        BY <1>2, <2>1, <3>2
      <4>2. f.kind = "lines"
        BY <1>5, <4>1
      <4>3. j \in 1..n /\ j + 1 \in 1..n /\ j \in 1..(Len(bus.q) - 1)
        BY <1>0, <1>1, <1>6, <4>1, <4>2
      <4> QED
        BY <1>6, <4>1, <4>2, <4>3 DEF QueueLinks
    <3> QED
      BY <1>0, <1>2, <3>1, <3>2
  <2>2. ASSUME NEW i \in 1..(Len(chan') - 1) PROVE Linked(cut, LastOf(chan'[i]), FirstOf(chan'[i + 1]))
    <3>1. i \in 1..Len(chan) /\ chan'[i] = chan[i]
      BY <1>0, <1>2
    <3>2. CASE i + 1 = Len(chan')
      <4>1. i = Len(chan) /\ chan # <<>> /\ chan'[i + 1] = f
        BY <1>0, <1>2, <3>1, <3>2
      <4>2. LastFramed = LastOf(chan[i])
        BY <4>1 DEF LastFramed
      <4> QED
        BY <1>7, <3>1, <4>1, <4>2
    <3>3. CASE i + 1 # Len(chan')
      <4>1. i + 1 \in 1..Len(chan) /\ i \in 1..(Len(chan) - 1)
        BY <1>0, <1>2, <3>1, <3>3
      <4>2. chan'[i + 1] = chan[i + 1]
        BY <1>2, <4>1
      <4> QED
        BY <3>1, <4>1, <4>2 DEF FrameLinks
    <3> QED
      BY <3>2, <3>3
  <2>3. Linked(cut, LastShown, FirstOf(chan'[1]))
    <3>1. CASE chan = <<>>
      <4>1. Len(chan') = 1 /\ LastFramed = LastShown
        BY <1>0, <1>2, <3>1 DEF LastFramed
      <4> QED
        BY <1>2, <1>7, <4>1
    <3>2. CASE chan # <<>>
      <4>1. chan'[1] = chan[1]
        BY <1>0, <1>2, <3>2
      <4> QED
        BY <3>2, <4>1 DEF FrameLinks
    <3> QED
      BY <3>1, <3>2
  <2> QED
    BY <1>4, <2>1, <2>2, <2>3 DEF FrameLinks
<1>9. QueueLinks'
  <2>1. ASSUME NEW i \in 1..(Len(bus'.q) - 1) PROVE Linked(cut, bus'.q[i].line, bus'.q[i + 1].line)
    <3>1. /\ i \in 1..Len(bus'.q) /\ i + 1 \in 1..Len(bus'.q) /\ (i + 1) + n = (i + n) + 1
          /\ i + n \in 1..(Len(bus.q) - 1)
      <4>0. Len(bus.q) - n \in Nat
        BY <1>0, <1>1
      <4>1. PICK z \in Nat : z = Len(bus'.q)
        BY <1>1, <4>0
      <4>2. /\ i \in 1..(z - 1) /\ n \in Nat /\ Len(bus.q) \in Nat /\ z = Len(bus.q) - n
        BY <1>0, <1>1, <4>1
      <4> QED
        BY <4>1, <4>2
    <3>2. bus'.q[i] = bus.q[i + n] /\ bus'.q[i + 1] = bus.q[(i + n) + 1]
      BY <1>1, <3>1
    <3> QED
      BY <3>1, <3>2 DEF QueueLinks
  <2>2. ASSUME bus'.q # <<>> PROVE Linked(cut, LastOf(f), bus'.q[1].line)
    <3>1. CASE f.kind # "lines"
      BY <1>5, <3>1, LinkedMore
    <3>2. CASE f.kind = "lines"
      <4>1. Len(bus'.q) # 0
        BY <1>0, <2>2
      <4>2. 1 \in 1..Len(bus'.q) /\ n \in 1..(Len(bus.q) - 1) /\ 1 + n = n + 1
        BY <1>0, <1>1, <1>6, <3>2, <4>1
      <4>3. bus'.q[1] = bus.q[n + 1]
        BY <1>1, <4>2
      <4> QED
        BY <1>6, <3>2, <4>2, <4>3 DEF QueueLinks
    <3> QED
      BY <3>1, <3>2
  <2> QED
    BY <1>4, <2>1, <2>2 DEF QueueLinks
<1>10. Newest' # 0 => Newest' = Newest
  <2>1. CASE Len(bus'.q) = 0
    <3>1. Newest' = LastOf(f)
      BY <1>0, <1>1, <1>4, <2>1 DEF Newest
    <3>2. CASE f.kind = "lines"
      <4>1. n = Len(bus.q) /\ bus.q # <<>>
        BY <1>0, <1>1, <1>6, <2>1, <3>2
      <4> QED
        BY <1>6, <3>1, <3>2, <4>1 DEF Newest
    <3> QED
      BY <1>5, <3>1, <3>2
  <2>2. CASE Len(bus'.q) # 0
    <3>1. bus'.q # <<>> /\ bus.q # <<>> /\ Len(bus'.q) \in 1..Len(bus'.q) /\ Len(bus'.q) + n = Len(bus.q)
      BY <1>0, <1>1, <2>2
    <3> QED
      BY <1>1, <3>1 DEF Newest
  <2> QED
    BY <2>1, <2>2
<1> QED
  BY <1>4, <1>8, <1>9, <1>10

(* A taken frame becomes the end of what is shown. *)
LEMMA GapArrive ==
  ASSUME OwnedInv, Types', Arrives, Resumes, ShownLinks, FrameLinks, QueueLinks, Cursors, Reaches
  PROVE  ShownLinks' /\ FrameLinks' /\ QueueLinks' /\ Cursors' /\ Reaches'
<1>0. Types /\ PipeEnds /\ Handles
  BY DEF OwnedInv
<1>1. UNCHANGED <<bus, reader, call, cut>> /\ (Alive' <=> Alive) /\ chan # <<>>
  BY DEF Arrives, Alive
<1>2. /\ 1 \in 1..Len(chan) /\ Len(chan') = Len(chan) - 1 /\ Len(chan) \in Nat
      /\ \A i \in 1..Len(chan') : i + 1 \in 1..Len(chan) /\ chan'[i] = chan[i + 1]
      /\ (chan' = <<>> <=> Len(chan') = 0)
  <2>1. chan' \in Seq(Frames)
    BY DEF Types
  <2> QED
    BY <1>0, <2>1, ArrivedLines, EmptySeq
<1>3. chan[1] \in Frames /\ (chan[1].kind = "lines" <=> chan[1].lines # <<>>)
  BY <1>0, <1>2, LinesTyped DEF Types
<1>4. /\ \A i \in 1..Len(chan') : \A j \in 1..(Len(chan'[i].lines) - 1) :
           Linked(cut, chan'[i].lines[j], chan'[i].lines[j + 1])
      /\ \A i \in 1..(Len(chan') - 1) : Linked(cut, LastOf(chan'[i]), FirstOf(chan'[i + 1]))
  <2>1. ASSUME NEW i \in 1..Len(chan'), NEW j \in 1..(Len(chan'[i].lines) - 1)
        PROVE  Linked(cut, chan'[i].lines[j], chan'[i].lines[j + 1])
    BY <1>2, <2>1 DEF FrameLinks
  <2>2. ASSUME NEW i \in 1..(Len(chan') - 1)
        PROVE  Linked(cut, LastOf(chan'[i]), FirstOf(chan'[i + 1]))
    <3>1. i \in 1..Len(chan') /\ i + 1 \in 1..Len(chan') /\ i + 1 \in 1..(Len(chan) - 1)
      BY <1>2
    <3>2. chan'[i] = chan[i + 1] /\ chan'[i + 1] = chan[(i + 1) + 1]
      BY <1>2, <3>1
    <3> QED
      BY <3>1, <3>2 DEF FrameLinks
  <2> QED
    BY <2>1, <2>2
<1>5. LastFramed' = IF chan' = <<>> THEN LastShown' ELSE LastFramed
  <2>1. CASE chan' # <<>>
    <3>1. Len(chan') \in 1..Len(chan') /\ Len(chan') + 1 = Len(chan)
      BY <1>2, <2>1
    <3>2. chan'[Len(chan')] = chan[Len(chan)]
      BY <1>2, <3>1
    <3> QED
      BY <1>1, <2>1, <3>2 DEF LastFramed
  <2>2. CASE chan' = <<>>
    BY <2>2 DEF LastFramed
  <2> QED
    BY <2>1, <2>2
<1>6. ASSUME LastShown' = 0 \/ LastShown' = LastOf(chan[1])
      PROVE  FrameLinks' /\ QueueLinks' /\ Reaches'
  <2>1. ASSUME chan' # <<>> PROVE Linked(cut, LastShown', FirstOf(chan'[1]))
    <3>1. 1 \in 1..Len(chan') /\ 1 \in 1..(Len(chan) - 1)
      BY <1>2, <2>1
    <3>2. chan'[1] = chan[1 + 1]
      BY <1>2, <3>1
    <3>3. Linked(cut, LastOf(chan[1]), FirstOf(chan[1 + 1]))
      BY <3>1 DEF FrameLinks
    <3> QED
      BY <1>6, <3>2, <3>3, LinkedMore
  <2>2. LastFramed' = LastFramed \/ LastFramed' = 0
    <3>1. CASE chan' = <<>>
      <4>1. Len(chan) = 1
        BY <1>2, <3>1
      <4>2. LastFramed = LastOf(chan[1])
        BY <1>1, <4>1 DEF LastFramed
      <4> QED
        BY <1>5, <1>6, <3>1, <4>2
    <3> QED
      BY <1>5, <3>1
  <2>3. Newest' = Newest \/ Newest' = 0
    BY <1>1, <2>2 DEF Newest
  <2>4. FrameLinks'
    BY <1>1, <1>4, <2>1 DEF FrameLinks
  <2>5. QueueLinks'
    BY <1>1, <2>2, LinkedMore DEF QueueLinks
  <2>6. Reaches'
    BY <1>1, <2>3 DEF Reaches
  <2> QED
    BY <2>4, <2>5, <2>6
<1>7. shown \in Seq(0..MaxLines) /\ Len(shown) \in Nat /\ (shown = <<>> <=> Len(shown) = 0)
  BY <1>0, LenProperties, EmptySeq DEF Types
<1>8. CASE ~(view.mounted /\ view.wanted)
  <2>1. UNCHANGED <<view, shown>>
    BY <1>8 DEF Arrives
  <2>2. shown = <<>>
    BY <1>0, <1>8 DEF Handles, Resumes
  <2>3. LastShown' = 0
    BY <2>1, <2>2 DEF LastShown
  <2>4. ShownLinks' /\ Cursors'
    BY <1>1, <2>1, <2>3 DEF ShownLinks, Cursors
  <2> QED
    BY <1>6, <2>3, <2>4
<1>9. CASE view.mounted /\ view.wanted /\ chan[1].kind \in Final
  <2>1. UNCHANGED shown /\ view'.ts = view.ts
    BY <1>9 DEF Arrives, Final
  <2>2. Len(chan) = 1 /\ ~bus.fwd
    BY <1>0, <1>2, <1>9 DEF PipeEnds
  <2>3. ~Alive /\ bus.q = <<>> /\ chan' = <<>>
    BY <1>0, <1>2, <2>2 DEF PipeEnds
  <2>4. LastShown' = LastShown
    BY <2>1 DEF LastShown
  <2>5. ShownLinks' /\ Cursors'
    BY <1>1, <2>1, <2>4 DEF ShownLinks, Cursors
  <2>6. FrameLinks'
    BY <1>1, <1>4, <2>3 DEF FrameLinks
  <2>7. QueueLinks'
    <3>1. Len(bus'.q) = 0 /\ bus'.q = <<>>
      BY <1>1, <2>3
    <3> QED
      BY <3>1 DEF QueueLinks
  <2>8. Reaches'
    BY <1>1, <2>3 DEF Reaches, Alive
  <2> QED
    BY <2>5, <2>6, <2>7, <2>8
<1>10. CASE view.mounted /\ view.wanted /\ chan[1].kind = "lagged"
  <2>1. shown' = Append(shown, 0) /\ view' = view
    BY <1>10 DEF Arrives
  <2>2. /\ Len(shown') = Len(shown) + 1 /\ shown'[Len(shown) + 1] = 0 /\ shown' # <<>>
        /\ \A i \in 1..Len(shown) : shown'[i] = shown[i]
    <3>1. 0 \in 0..MaxLines
      BY StampFacts
    <3>2. /\ Len(shown') = Len(shown) + 1 /\ shown'[Len(shown) + 1] = 0 /\ shown' \in Seq(0..MaxLines)
          /\ \A i \in 1..Len(shown) : shown'[i] = shown[i]
      BY <1>7, <2>1, <3>1, AppendProperties
    <3>3. Len(shown') # 0
      BY <1>7, <3>2
    <3> QED
      BY <3>2, <3>3, EmptySeq
  <2>3. LastShown' = 0
    BY <2>2 DEF LastShown
  <2>4. ASSUME NEW i \in 1..(Len(shown') - 1) PROVE Linked(cut, shown'[i], shown'[i + 1])
    <3>1. i \in 1..Len(shown) /\ (i = Len(shown) \/ i \in 1..(Len(shown) - 1))
      BY <1>7, <2>2
    <3>2. CASE i = Len(shown)
      BY <2>2, <3>2, LinkedMore
    <3>3. CASE i \in 1..(Len(shown) - 1)
      <4>1. i + 1 \in 1..Len(shown)
        BY <1>7, <3>3
      <4> QED
        BY <2>2, <3>1, <3>3, <4>1 DEF ShownLinks
    <3> QED
      BY <3>1, <3>2, <3>3
  <2>5. ShownLinks' /\ Cursors'
    BY <1>1, <2>3, <2>4 DEF ShownLinks, Cursors
  <2> QED
    BY <1>6, <2>3, <2>5
<1>11. CASE view.mounted /\ view.wanted /\ chan[1].kind = "lines"
  <2> DEFINE ls == chan[1].lines
  <2>1. /\ ls \in Seq(Lines) /\ Len(ls) \in Nat \ {0}
        /\ shown' \in Seq(0..MaxLines) /\ Len(shown') = Len(shown) + Len(ls)
        /\ \A i \in 1..Len(shown) : shown'[i] = shown[i]
        /\ \A i \in (Len(shown) + 1)..Len(shown') : shown'[i] = ls[i - Len(shown)]
    BY <1>0, <1>11, ShownFacts
  <2>2. view'.ts = Stamp[ls[Len(ls)]]
    BY <1>11 DEF Arrives
  <2>3. FirstOf(chan[1]) = ls[1] /\ LastOf(chan[1]) = ls[Len(ls)]
    BY <1>11 DEF FirstOf, LastOf
  <2>4. \A j \in 1..(Len(ls) - 1) : Linked(cut, ls[j], ls[j + 1])
    BY <1>2 DEF FrameLinks
  <2>5. Linked(cut, LastShown, ls[1])
    BY <1>1, <2>3 DEF FrameLinks
  <2> HIDE DEF ls
  <2>6. LastShown' = ls[Len(ls)]
    <3>1. Len(shown') \in (Len(shown) + 1)..Len(shown') /\ Len(shown') - Len(shown) = Len(ls) /\ Len(shown') # 0
      BY <1>7, <2>1
    <3>2. shown' # <<>>
      BY <2>1, <3>1
    <3> QED
      BY <2>1, <3>1, <3>2 DEF LastShown
  <2>7. ASSUME NEW i \in 1..(Len(shown') - 1) PROVE Linked(cut, shown'[i], shown'[i + 1])
    <3>1. CASE i \in 1..(Len(shown) - 1)
      <4>1. i \in 1..Len(shown) /\ i + 1 \in 1..Len(shown)
        BY <1>7, <3>1
      <4> QED
        BY <2>1, <3>1, <4>1 DEF ShownLinks
    <3>2. CASE i = Len(shown)
      <4>1. /\ i \in 1..Len(shown) /\ i + 1 \in (Len(shown) + 1)..Len(shown') /\ (i + 1) - Len(shown) = 1
            /\ shown # <<>>
        BY <1>7, <2>1, <3>2
      <4>2. shown'[i] = LastShown /\ shown'[i + 1] = ls[1]
        BY <2>1, <3>2, <4>1 DEF LastShown
      <4> QED
        BY <2>5, <4>2
    <3>3. CASE i \in (Len(shown) + 1)..(Len(shown') - 1)
      <4>1. /\ i \in (Len(shown) + 1)..Len(shown') /\ i + 1 \in (Len(shown) + 1)..Len(shown')
            /\ (i + 1) - Len(shown) = (i - Len(shown)) + 1 /\ i - Len(shown) \in 1..(Len(ls) - 1)
        BY <1>7, <2>1, <3>3
      <4>2. shown'[i] = ls[i - Len(shown)] /\ shown'[i + 1] = ls[(i - Len(shown)) + 1]
        BY <2>1, <4>1
      <4> QED
        BY <2>4, <4>1, <4>2
    <3> QED
      BY <1>7, <2>1, <3>1, <3>2, <3>3
  <2>8. call.pc \notin {"sent", "err"}
    BY <1>0, <1>1 DEF Handles, Quiet
  <2>9. ShownLinks' /\ Cursors'
    BY <1>1, <2>2, <2>6, <2>7, <2>8 DEF ShownLinks, Cursors
  <2> QED
    BY <1>6, <2>3, <2>6, <2>9
<1> QED
  BY <1>3, <1>8, <1>9, <1>10, <1>11 DEF Frames

LEMMA GapStep ==
  ASSUME OwnedInv, Types', [Next]_vars, ~previous, Resumes, Reading,
         ShownLinks, FrameLinks, QueueLinks, Cursors, Reaches
  PROVE  ShownLinks' /\ FrameLinks' /\ QueueLinks' /\ Cursors' /\ Reaches'
<1>0. Types /\ PipeEnds /\ Handles /\ Registered /\ (call.pc \in {"bound", "reply"} => sid \in Ids)
  BY DEF OwnedInv, Registered
<1>1. ASSUME UNCHANGED <<shown, chan>>, bus'.q = bus.q, bus'.lagged = bus.lagged, cut \subseteq cut'
      PROVE  /\ ShownLinks' /\ FrameLinks' /\ QueueLinks'
             /\ LastShown' = LastShown /\ Newest' = Newest
  BY <1>1, SamePipeline
<1>2. CASE Calm
  <2>1. /\ UNCHANGED <<shown, chan, bus, cut, view, call>> /\ (Alive' <=> Alive)
        /\ reader'.pc = reader.pc /\ reader'.last = reader.last /\ reader'.pos = reader.pos
    BY <1>2 DEF Calm, Alive
  <2>2. Cursors' /\ Reaches'
    BY <1>1, <2>1 DEF Cursors, Reaches
  <2> QED
    BY <1>1, <2>1, <2>2
<1>3. CASE Reads
  <2>1. UNCHANGED <<shown, chan, bus, view, call>> /\ cut \subseteq cut'
    BY <1>3 DEF Reads, Opens, Skips
  <2>2. Cursors'
    BY <1>1, <2>1 DEF Cursors
  <2>3. Reaches'
    BY <1>0, <1>3, GapReads
  <2> QED
    BY <1>1, <2>1, <2>2, <2>3
<1>4. ASSUME NEW e \in Events, bus' = Publish(bus, e), UNCHANGED <<shown, chan, cut, view, call>>,
             Linked(cut, Newest, e.line)
      PROVE  ShownLinks' /\ FrameLinks' /\ QueueLinks' /\ Cursors' /\ Newest' = e.line
  <2>1. QueueLinks' /\ LastShown' = LastShown /\ Newest' = e.line
    BY <1>0, <1>4, GapPublish
  <2>2. ShownLinks' /\ FrameLinks' /\ Cursors'
    BY <1>4, <2>1 DEF ShownLinks, FrameLinks, Cursors
  <2> QED
    BY <2>1, <2>2
<1>5. CASE Emits
  <2> DEFINE k == reader.pos + 1
             e == Event("line", k)
  <2>1. /\ reader.pc = "pump" /\ k \in Lines /\ reader'.pos = k /\ reader'.last = Stamp[k]
        /\ bus' = Publish(bus, e) /\ UNCHANGED <<shown, chan, cut, view, call>>
    BY <1>5 DEF Emits
  <2>2. e \in Events /\ e.line = k /\ reader.pos \in Nat /\ k - 1 = reader.pos
    <3>1. reader.pos \in Nat
      BY <1>0 DEF Types, Readers
    <3> HIDE DEF e
    <3>2. k - 1 = reader.pos
      BY <3>1
    <3>3. e \in Events /\ e.line = k
      BY <2>1, LineEvents DEF e
    <3> QED
      BY <3>1, <3>2, <3>3
  <2> HIDE DEF e
  <2>3. Linked(cut, Newest, k)
    BY <2>1, <2>2 DEF Linked, Reaches
  <2>4. ShownLinks' /\ FrameLinks' /\ QueueLinks' /\ Cursors' /\ Newest' = k
    BY <1>4, <2>1, <2>2, <2>3
  <2> HIDE DEF k
  <2>5. Explained(cut', k, k)
    BY <2>1, StampFacts DEF Explained
  <2> QED
    BY <2>1, <2>4, <2>5 DEF Reaches
<1>6. CASE Ends
  <2>1. PICK kind \in Final : bus' = Publish(bus, Event(kind, 0))
    BY <1>6 DEF Ends
  <2>2. Event(kind, 0) \in Events /\ Linked(cut, Newest, Event(kind, 0).line)
    BY FinishEvents, LinkedMore
  <2>3. ~Alive' /\ UNCHANGED <<shown, chan, cut, view, call>>
    BY <1>6 DEF Ends, Over, NoReader, Alive
  <2>4. Reaches'
    BY <2>3 DEF Reaches, Alive
  <2> QED
    BY <1>4, <2>1, <2>2, <2>3, <2>4
<1>7. CASE Drops
  <2>1. /\ UNCHANGED <<shown, chan, cut, view, call>> /\ bus'.q = bus.q /\ bus'.lagged = bus.lagged
        /\ reader' = reader \/ ~Alive'
    BY <1>0, <1>7 DEF Drops, Close, Types, Buses, Over, NoReader, Alive
  <2>2. Cursors' /\ Reaches'
    BY <1>1, <2>1 DEF Cursors, Reaches, Alive
  <2> QED
    BY <1>1, <2>1, <2>2
<1>8. CASE Forwards
  <2>1. PICK f \in Frames, n \in Nat : Fetches(f, n)
    BY <1>0, <1>8, ForwardFacts
  <2>2. UNCHANGED <<shown, cut, view, call, reader>> /\ bus' \in Buses
    BY <1>8 DEF Forwards, Types
  <2>3. FrameLinks' /\ QueueLinks' /\ LastShown' = LastShown /\ (Newest' # 0 => Newest' = Newest)
    BY <1>0, <2>1, <2>2, GapForward
  <2>4. ShownLinks' /\ Cursors'
    BY <2>2, <2>3 DEF ShownLinks, Cursors
  <2>5. Reaches'
    BY <2>2, <2>3 DEF Reaches, Alive
  <2> QED
    BY <2>3, <2>4, <2>5
<1>9. ASSUME UNCHANGED <<pipe, shown, cut>>
      PROVE  /\ ShownLinks' /\ FrameLinks' /\ QueueLinks' /\ LastShown' = LastShown
             /\ Reaches'
  <2>1. UNCHANGED <<shown, chan, bus, cut, reader>>
    BY <1>9 DEF pipe
  <2>2. Reaches'
    BY <1>1, <2>1 DEF Reaches, Alive
  <2> QED
    BY <1>1, <2>1, <2>2
<1>10. CASE Refused \/ Inserted
  <2>1. UNCHANGED <<pipe, shown, cut, view>> /\ call'.after = call.after
        /\ (call'.pc \in {"sent", "err"} => call.pc = "sent")
    BY <1>10 DEF Refused, Inserted
  <2>2. Cursors'
    BY <1>9, <2>1 DEF Cursors
  <2> QED
    BY <1>9, <2>1, <2>2
<1>11. ASSUME shown' = shown, chan' = <<>>, bus'.q = <<>>, cut' = cut
       PROVE  /\ ShownLinks' /\ FrameLinks' /\ QueueLinks' /\ LastShown' = LastShown
              /\ ~bus'.lagged => Newest' = LastShown
  <2>1. Len(chan') = 0 /\ Len(bus'.q) = 0
    BY <1>11
  <2>2. LastShown' = LastShown
    BY <1>11 DEF LastShown
  <2>3. LastFramed' = LastShown
    BY <1>11, <2>2 DEF LastFramed
  <2>4. ~bus'.lagged => Newest' = LastShown
    BY <1>11, <2>3 DEF Newest
  <2>5. ShownLinks' /\ FrameLinks' /\ QueueLinks'
    BY <1>11, <2>1 DEF ShownLinks, FrameLinks, QueueLinks
  <2> QED
    BY <2>2, <2>4, <2>5
<1>12. CASE Bound
  <2>1. /\ UNCHANGED <<shown, cut, view>> /\ chan' = <<>> /\ bus'.q = <<>> /\ ~bus'.lagged
        /\ call.pc = "sent" /\ call'.pc = "bound" /\ reader'.pc = "open" /\ reader'.last = call.after
    BY <1>12 DEF Bound
  <2>2. Newest' = LastShown /\ LastShown' = LastShown
    BY <1>11, <2>1
  <2>3. Cursors' /\ Reaches'
    BY <2>1, <2>2 DEF Cursors, Reaches
  <2> QED
    BY <1>11, <2>1, <2>3
<1>13. CASE Starts /\ UNCHANGED <<pipe, shown, cut>>
  <2>1. LastShown' = LastShown
    BY <1>9, <1>13
  <2>2. view.run = 0 /\ ~view.intr => LastShown = 0
    <3> SUFFICES ASSUME view.run = 0, ~view.intr PROVE LastShown = 0
      OBVIOUS
    <3>1. ShownLines = {}
      BY <1>13 DEF Starts, Resumes, ShownLines
    <3> QED
      BY <1>0, <3>1, EndsTyped
  <2>3. Cursors'
    BY <1>13, <2>1, <2>2 DEF Starts, Cursors
  <2> QED
    BY <1>9, <1>13, <2>3
<1>14. CASE (Marks \/ Fails) /\ UNCHANGED <<pipe, shown, cut>>
  <2>1. view'.ts = view.ts /\ (call' = call \/ call'.pc = "none") /\ LastShown' = LastShown
    BY <1>9, <1>14 DEF Marks, Fails
  <2>2. Cursors'
    BY <2>1 DEF Cursors
  <2> QED
    BY <1>9, <1>14, <2>2
<1>15. CASE Takes
  <2>1. UNCHANGED <<shown, cut>> /\ view'.ts = view.ts /\ call'.pc = "none"
    BY <1>15 DEF Takes
  <2>2. CASE UNCHANGED pipe
    <3>1. Cursors'
      BY <1>9, <2>1, <2>2 DEF Cursors
    <3> QED
      BY <1>9, <2>1, <2>2, <3>1
  <2>3. CASE reader'.pc = "none" /\ chan' = <<>> /\ bus'.q = <<>>
    <3>1. LastShown' = LastShown
      BY <1>11, <2>1, <2>3
    <3>2. Cursors' /\ Reaches'
      BY <2>1, <2>3, <3>1 DEF Cursors, Reaches, Alive
    <3> QED
      BY <1>11, <2>1, <2>3, <3>2
  <2> QED
    BY <1>15, <2>2, <2>3, DetachFacts DEF Takes
<1>16. CASE Leaves
  <2>1. shown' = <<>> /\ cut' = cut /\ Detached(view.run)
    BY <1>16 DEF Leaves
  <2>2. LastShown' = 0 /\ Len(shown') = 0
    BY <2>1 DEF LastShown
  <2>3. ShownLinks' /\ Cursors'
    BY <2>2 DEF ShownLinks, Cursors
  <2>4. CASE UNCHANGED pipe
    <3>1. UNCHANGED <<chan, bus, reader>>
      BY <2>4 DEF pipe
    <3>2. LastFramed' = LastFramed \/ LastFramed' = 0
      BY <2>2, <3>1 DEF LastFramed
    <3>3. Newest' = Newest \/ Newest' = 0
      BY <3>1, <3>2 DEF Newest
    <3>4. FrameLinks'
      BY <2>1, <2>2, <3>1, LinkedMore DEF FrameLinks
    <3>5. QueueLinks'
      BY <2>1, <3>1, <3>2, LinkedMore DEF QueueLinks
    <3>6. Reaches'
      BY <2>1, <3>1, <3>3 DEF Reaches, Alive
    <3> QED
      BY <2>3, <3>4, <3>5, <3>6
  <2>5. CASE reader'.pc = "none" /\ chan' = <<>> /\ bus'.q = <<>>
    <3>1. Len(chan') = 0 /\ Len(bus'.q) = 0
      BY <2>5
    <3> QED
      BY <2>3, <2>5, <3>1 DEF FrameLinks, QueueLinks, Reaches, Alive
  <2> QED
    BY <2>1, <2>4, <2>5, DetachFacts
<1>17. CASE Arrives
  BY <1>17, GapArrive
<1>18. CASE Fails
  <2>1. UNCHANGED <<pipe, shown, cut>>
    BY <1>18 DEF Fails
  <2> QED
    BY <1>14, <1>18, <2>1
<1> QED
  BY <1>0, <1>2, <1>3, <1>5, <1>6, <1>7, <1>8, <1>10, <1>12, <1>13, <1>14, <1>15, <1>16, <1>17, <1>18, Kinds

LEMMA GapInit == Init => GapInv
<1> SUFFICES ASSUME Init PROVE GapInv
  OBVIOUS
<1>1. /\ reader.pc = "none" /\ bus.q = <<>> /\ chan = <<>> /\ shown = <<>>
  BY DEF Init, NoReader, NoBus
<1>2. Len(bus.q) = 0 /\ Len(chan) = 0 /\ Len(shown) = 0 /\ LastShown = 0
  BY <1>1 DEF LastShown
<1> QED
  BY <1>1, <1>2 DEF GapInv, ShownLinks, FrameLinks, QueueLinks, Cursors, Reaches, Alive

(* Between two lines shown one after the other nothing is missing that an   *)
(* open could have returned, unless a loss was reported between them or the *)
(* line shares the timestamp of the one before it: run_live's resume by     *)
(* timestamp, the broadcast that may lag, the forwarder's batches and the   *)
(* panel's own resume lose nothing silently.                                *)
THEOREM Gapless == Spec => []GapsAreExplained
<1>1. OwnedInv /\ OwnedInv' /\ OrderInv /\ GapInv /\ [Next]_vars => GapInv'
  <2> SUFFICES ASSUME OwnedInv, OwnedInv', OrderInv, GapInv, [Next]_vars, ~previous
               PROVE  ShownLinks' /\ FrameLinks' /\ QueueLinks' /\ Cursors' /\ Reaches'
    BY PreviousStep DEF GapInv
  <2>1. Resumes /\ Reading
    BY DEF OrderInv
  <2>2. ShownLinks /\ FrameLinks /\ QueueLinks /\ Cursors /\ Reaches
    BY DEF GapInv
  <2>3. Types'
    BY DEF OwnedInv
  <2> QED
    BY <2>1, <2>2, <2>3, GapStep
<1>2. GapInv => GapsAreExplained
  BY DEF GapInv, ShownLinks, Linked, Explained, GapsAreExplained
<1> QED
  BY <1>1, <1>2, GapInit, OrderAlways, OwnedAlways, PTL DEF Spec
=============================================================================
