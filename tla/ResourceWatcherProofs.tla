----------------------- MODULE ResourceWatcherProofs -----------------------
(***************************************************************************)
(* Proofs, for every set of uids and rows and every cap, that the resource *)
(* pipeline of ResourceWatcher loses no delta, loses no wake-up, ends the  *)
(* spinner on a full table and implements DeltaFeed.                       *)
(***************************************************************************)
EXTENDS ResourceWatcher, TLAPS

-----------------------------------------------------------------------------
(* The channel's operators keep its type.                                  *)

LEMMA EmptyType == Empty \in Tables
  BY DEF Empty, Tables, Maybe

(* Every method of the channel returns a channel. *)
LEMMA ChannelTypes ==
  ASSUME NEW c \in Channels, NEW u \in Uids, NEW r \in Maybe
  PROVE  /\ record_upsert(c, u, r) \in Channels
         /\ record_delete(c, u) \in Channels
         /\ mark_init_done(c) \in Channels
         /\ close(c) \in Channels
  BY DEF Channels, Tables, Maybe, record_upsert, record_delete, mark_init_done, close

(* Recording keeps the two pending sets disjoint. *)
LEMMA RecordDisjoint ==
  ASSUME NEW c \in Channels, NEW u \in Uids, NEW r \in Maybe,
         Keys(c.changed) \cap c.deleted = {}
  PROVE  /\ LET d == record_upsert(c, u, r) IN Keys(d.changed) \cap d.deleted = {}
         /\ LET d == record_delete(c, u) IN Keys(d.changed) \cap d.deleted = {}
  BY DEF Channels, Tables, record_upsert, record_delete, Keys

(* What drain_capped can return: part of what is pending, each uid with    *)
(* its pending row; InitDone only together with everything.                *)
LEMMA DrainFacts ==
  ASSUME NEW c \in Channels, NEW b \in drain_capped(c)
  PROVE  /\ b \in Batches
         /\ \A u \in Uids : b.upserts[u] \in {NoRow, c.changed[u]}
         /\ b.deletes \subseteq c.deleted
         /\ b.init => b = TakeAll(c)
<1>1. CASE Fits(c)
  BY <1>1 DEF drain_capped, TakeAll, Channels, Batches
<1>2. CASE ~Fits(c)
  <2>1. b \in Capped(c)
    BY <1>2 DEF drain_capped
  <2>2. PICK U \in SUBSET Keys(c.changed) :
          b.upserts = [u \in Uids |-> IF u \in U THEN c.changed[u] ELSE NoRow]
    BY <2>1 DEF Capped
  <2>3. /\ b.deletes \in SUBSET c.deleted /\ b.init = FALSE
        /\ b = [upserts |-> b.upserts, deletes |-> b.deletes, init |-> b.init]
    BY <2>1 DEF Capped, HeldBack
  <2>4. b.upserts \in Tables
    BY <2>2 DEF Tables, Maybe, Channels
  <2> QED
    BY <2>2, <2>3, <2>4 DEF Batches, Channels
<1> QED
  BY <1>1, <1>2

(* Draining leaves a channel behind. *)
LEMMA RemainderType ==
  ASSUME NEW c \in Channels, NEW b \in Batches
  PROVE  Remainder(c, b) \in Channels
  BY DEF Remainder, Channels, Batches, Tables, Maybe

LEMMA ApplyType ==
  ASSUME NEW t \in Tables, NEW b \in Batches
  PROVE  Apply(t, b) \in Tables
  BY DEF Apply, Batches, Tables, Maybe

(* The empty batch changes nothing. *)
LEMMA ApplyNoBatch ==
  ASSUME NEW t \in Tables
  PROVE  Apply(t, NoBatch) = t
  BY DEF Apply, NoBatch, Empty, Tables

(* A batch that is_empty is the empty batch. *)
LEMMA EmptyBatch ==
  ASSUME NEW b \in Batches, is_empty(b)
  PROVE  b = NoBatch
<1>1. \A u \in Uids : b.upserts[u] = NoRow
  BY DEF is_empty, Keys
<1>2. b.upserts = Empty
  BY <1>1 DEF Empty, Batches, Tables
<1>3. b.deletes = {} /\ b.init = FALSE
  BY DEF is_empty, Batches
<1> QED
  BY <1>2, <1>3 DEF NoBatch, Batches

(* Moving a batch from the channel to the listener changes nothing of what *)
(* the listener will finally show, provided no uid is pending twice.       *)
LEMMA DrainKeepsCaught ==
  ASSUME NEW c \in Channels, NEW t \in Tables, NEW b \in drain_capped(c),
         Keys(c.changed) \cap c.deleted = {}
  PROVE  Caught(Apply(t, b), Remainder(c, b)) = Caught(t, c)
<1> DEFINE d == Remainder(c, b)
<1>1. /\ b \in Batches
      /\ \A u \in Uids : b.upserts[u] \in {NoRow, c.changed[u]}
      /\ b.deletes \subseteq c.deleted
  BY DrainFacts
<1>2. /\ d.deleted = c.deleted \ b.deletes
      /\ \A u \in Uids : d.changed[u] = IF b.upserts[u] # NoRow THEN NoRow ELSE c.changed[u]
  BY <1>1 DEF Remainder, Channels, Batches
<1>3. ASSUME NEW u \in Uids
      PROVE  Caught(Apply(t, b), d)[u] = Caught(t, c)[u]
  <2>1. ~(c.changed[u] # NoRow /\ u \in c.deleted)
    BY DEF Keys
  <2> QED
    BY <1>1, <1>2, <2>1 DEF Caught, Apply
<1> QED
  BY <1>3 DEF Caught

(* What recording a row, or a deletion, does to the listener's final table. *)
LEMMA UpsertCaught ==
  ASSUME NEW c \in Channels, NEW t \in Tables, ~c.closed,
         NEW u \in Uids, NEW r \in Rows
  PROVE  Caught(t, record_upsert(c, u, r)) = [Caught(t, c) EXCEPT ![u] = r]
  BY NoRowAssumption DEF Caught, record_upsert, Channels, Tables

LEMMA DeleteCaught ==
  ASSUME NEW c \in Channels, NEW t \in Tables, ~c.closed, NEW u \in Uids
  PROVE  Caught(t, record_delete(c, u)) = [Caught(t, c) EXCEPT ![u] = NoRow]
  BY DEF Caught, record_delete, Channels, Tables

-----------------------------------------------------------------------------
(* Type correctness: every variable of the pipeline keeps its type.        *)

USE DEF apiVars, strmVars, prevVars, taskVars, chanVars, fwdVars, viewVars

LEMMA TypeInit == Init => TypeOK
<1> SUFFICES ASSUME Init PROVE TypeOK
  OBVIOUS
<1>1. ch \in Channels /\ batch \in Batches
  BY EmptyType DEF Init, NewChannel, NoBatch, Channels, Batches
<1>2. preview \in {"sleeping", "ready", "none"}
  BY DEF Init
<1>3. backlog \in Seq(Events)
  BY DEF Init
<1> QED
  BY EmptyType, <1>1, <1>2, <1>3 DEF Init, TypeOK

LEMMA TypeStep == TypeOK /\ [Next]_vars => TypeOK'
<1> SUFFICES ASSUME TypeOK, [Next]_vars PROVE TypeOK'
  OBVIOUS
<1> USE DEF TypeOK
<1>1. ASSUME NEW u \in Uids, NEW r \in Maybe, ServerWrite(u, r) PROVE TypeOK'
  <2>1. server' \in Tables /\ writes' \in Nat
    BY <1>1 DEF ServerWrite, Tables
  <2>2. [uid |-> u, row |-> r] \in Events
    BY <1>1 DEF Events
  <2>3. backlog' \in Seq(Events)
    BY <1>1, <2>2 DEF ServerWrite
  <2> QED
    BY <1>1, <2>1, <2>3 DEF ServerWrite
<1>2. CASE preview_rows
  BY <1>2 DEF preview_rows, Tables, Maybe
<1>3. CASE StreamInit
  BY <1>3 DEF StreamInit
<1>4. CASE StreamInitDone
  BY <1>4 DEF StreamInitDone, reconcile_init_seen, Tables, Maybe, Keys
<1>5. CASE StreamApply
  <2>1. Head(backlog) \in Events /\ Tail(backlog) \in Seq(Events)
    BY <1>5 DEF StreamApply
  <2> QED
    BY <1>5, <2>1 DEF StreamApply, Project, Tables, Events
<1>6. CASE StreamDelete
  <2>1. Head(backlog) \in Events /\ Tail(backlog) \in Seq(Events)
    BY <1>6 DEF StreamDelete
  <2> QED
    BY <1>6, <2>1 DEF StreamDelete, Tables, Events, Maybe
<1>7. ASSUME NEW u \in Uids, StreamInitApply(u) PROVE TypeOK'
  BY <1>7 DEF StreamInitApply, Project, Tables, Maybe
<1>8. CASE StreamError
  BY <1>8, EmptyType DEF StreamError
<1>9. ASSUME NEW u \in Uids, Record(u) PROVE TypeOK'
  <2>1. ch' \in Channels
    <3>1. CASE cache[u] = NoRow
      BY <1>9, <3>1 DEF Record, record_delete, Channels, Tables, Maybe
    <3>2. CASE cache[u] # NoRow
      BY <1>9, <3>2, ChannelTypes DEF Record, Tables, Maybe
    <3> QED BY <3>1, <3>2
  <2> QED
    BY <1>9, <2>1 DEF Record
<1>10. CASE MarkInitDone
  <2>1. ch' \in Channels
    BY <1>10 DEF MarkInitDone, mark_init_done, Channels
  <2> QED
    BY <1>10, <2>1 DEF MarkInitDone
<1>11. CASE PreviewStart
  BY <1>11 DEF PreviewStart, Keys
<1>12. ASSUME NEW u \in Uids, PreviewRow(u) PROVE TypeOK'
  <2>1. CASE cache[u] # NoRow
    BY <1>12, <2>1 DEF PreviewRow
  <2>2. CASE cache[u] = NoRow
    <3>1. ch' \in Channels
      <4>1. previewRows[u] \in Maybe
        BY DEF Tables
      <4>2. ch' = record_upsert(ch, u, previewRows[u])
        BY <1>12, <2>2 DEF PreviewRow
      <4> QED
        BY <4>1, <4>2, ChannelTypes
    <3>2. cache' \in Tables /\ todo' \subseteq Uids /\ permit' \in BOOLEAN
      BY <1>12, <2>2 DEF PreviewRow, Tables
    <3> QED
      BY <1>12, <2>2, <3>1, <3>2 DEF PreviewRow
  <2> QED
    BY <2>1, <2>2
<1>13. CASE PreviewEnd
  BY <1>13 DEF PreviewEnd
<1>14. CASE DropAbort
  BY <1>14 DEF DropAbort
<1>15. CASE DropClose
  <2>1. ch' \in Channels
    BY <1>15 DEF DropClose, close, Channels
  <2> QED
    BY <1>15, <2>1 DEF DropClose, notify_waiters
<1>16. CASE FwdNotified
  BY <1>16 DEF FwdNotified
<1>17. CASE FwdCheck
  BY <1>17 DEF FwdCheck
<1>18. CASE FwdWake
  BY <1>18 DEF FwdWake
<1>19. CASE FwdWindow
  BY <1>19 DEF FwdWindow
<1>20. CASE FwdDrain
  BY <1>20, DrainFacts, RemainderType DEF FwdDrain
<1>21. CASE FwdEmit
  <2>1. view' \in Tables
    BY <1>21, ApplyType DEF FwdEmit
  <2>2. synced' \in BOOLEAN /\ batch' \in Batches
    BY <1>21, EmptyType DEF FwdEmit, NoBatch, Batches
  <2> QED
    BY <1>21, <2>1, <2>2 DEF FwdEmit
<1>22. CASE UNCHANGED vars
  BY <1>22 DEF vars
<1> QED
  BY <1>1, <1>2, <1>3, <1>4, <1>5, <1>6, <1>7, <1>8, <1>9, <1>10, <1>11, <1>12,
     <1>13, <1>14, <1>15, <1>16, <1>17, <1>18, <1>19, <1>20, <1>21, <1>22
     DEF Next, StreamStep, TaskStep, FwdStep

(* Every reachable state of the pipeline is type-correct. *)
LEMMA TypeCorrect == Spec => []TypeOK
  BY TypeInit, TypeStep, PTL DEF Spec
-----------------------------------------------------------------------------
(* The inductive invariant.  NoDeltaLost is not inductive by itself:       *)
(*   - draining moves a batch only if no uid is pending twice              *)
(*     (PendingDisjoint) and no earlier batch is overwritten (BatchInv);   *)
(*   - recording ends the exemption of exactly one uid (HandlerInv);       *)
(*   - a preview only inserts rows that exist (HandlerInv).                *)

BatchInv == fpc # "emit" => batch = NoBatch

HandlerInv ==
  /\ pc = "record" => \A u, v \in todo : u = v
  /\ pc = "preview" => preview # "sleeping" /\ todo \subseteq Keys(previewRows)

IInv == TypeOK /\ PendingDisjoint /\ BatchInv /\ HandlerInv /\ NoDeltaLost

LEMMA DisjointStep == TypeOK /\ PendingDisjoint /\ [Next]_vars => PendingDisjoint'
<1> SUFFICES ASSUME TypeOK, PendingDisjoint, [Next]_vars PROVE PendingDisjoint'
  OBVIOUS
<1> USE DEF PendingDisjoint
<1>1. ASSUME NEW u \in Uids, Record(u) PROVE PendingDisjoint'
  <2>1. cache[u] \in Maybe
    BY DEF TypeOK, Tables
  <2> QED
    BY <1>1, <2>1, RecordDisjoint DEF Record, TypeOK
<1>2. CASE MarkInitDone
  BY <1>2 DEF MarkInitDone, mark_init_done, TypeOK, Channels
<1>3. ASSUME NEW u \in Uids, PreviewRow(u) PROVE PendingDisjoint'
  <2>1. previewRows[u] \in Maybe
    BY DEF TypeOK, Tables
  <2> QED
    BY <1>3, <2>1, RecordDisjoint DEF PreviewRow, TypeOK
<1>4. CASE DropClose
  BY <1>4 DEF DropClose, close, TypeOK, Channels
<1>5. CASE FwdDrain
  BY <1>5 DEF FwdDrain, Remainder, TypeOK, Channels, Keys
<1>6. CASE UNCHANGED ch
  BY <1>6
<1>7. ASSUME NEW u \in Uids, NEW r \in Maybe, ServerWrite(u, r) PROVE UNCHANGED ch
  BY <1>7 DEF ServerWrite
<1>8. ASSUME NEW u \in Uids, StreamInitApply(u) PROVE UNCHANGED ch
  BY <1>8 DEF StreamInitApply
<1> QED
  BY <1>1, <1>2, <1>3, <1>4, <1>5, <1>6, <1>7, <1>8
     DEF Next, StreamStep, TaskStep, FwdStep, vars, preview_rows, StreamInit,
         StreamInitDone, StreamApply, StreamDelete, StreamError, PreviewStart,
         PreviewEnd, DropAbort, FwdNotified, FwdCheck, FwdWake, FwdWindow, FwdEmit

LEMMA BatchStep == TypeOK /\ BatchInv /\ [Next]_vars => BatchInv'
<1> SUFFICES ASSUME TypeOK, BatchInv, [Next]_vars PROVE BatchInv'
  OBVIOUS
<1> USE DEF BatchInv
<1>1. CASE FwdDrain
  <2>1. PICK b \in drain_capped(ch) :
          batch' = b /\ fpc' = IF is_empty(b) THEN "idle" ELSE "emit"
    BY <1>1 DEF FwdDrain
  <2>2. b \in Batches
    BY DrainFacts DEF TypeOK
  <2> QED
    BY <2>1, <2>2, EmptyBatch
<1>2. CASE FwdEmit
  BY <1>2 DEF FwdEmit
<1>3. CASE FwdNotified \/ FwdCheck \/ FwdWake \/ FwdWindow
  BY <1>3 DEF FwdNotified, FwdCheck, FwdWake, FwdWindow
<1>4. CASE UNCHANGED <<fpc, batch>>
  BY <1>4
<1>5. ASSUME NEW u \in Uids, NEW r \in Maybe, ServerWrite(u, r)
      PROVE UNCHANGED <<fpc, batch>>
  BY <1>5 DEF ServerWrite
<1>6. ASSUME NEW u \in Uids, StreamInitApply(u) \/ Record(u) \/ PreviewRow(u)
      PROVE UNCHANGED <<fpc, batch>>
  BY <1>6 DEF StreamInitApply, Record, PreviewRow
<1> QED
  BY <1>1, <1>2, <1>3, <1>4, <1>5, <1>6
     DEF Next, StreamStep, TaskStep, FwdStep, vars, preview_rows, StreamInit,
         StreamInitDone, StreamApply, StreamDelete, StreamError, MarkInitDone,
         PreviewStart, PreviewEnd, DropAbort, DropClose

LEMMA HandlerStep == TypeOK /\ HandlerInv /\ [Next]_vars => HandlerInv'
<1> SUFFICES ASSUME TypeOK, HandlerInv, [Next]_vars PROVE HandlerInv'
  OBVIOUS
<1> USE DEF HandlerInv
<1>1. CASE preview_rows
  BY <1>1 DEF preview_rows
<1>2. ASSUME NEW u \in Uids, StreamInitApply(u) PROVE HandlerInv'
  BY <1>2 DEF StreamInitApply, Project, Awaiting
<1>3. CASE StreamInit \/ StreamInitDone \/ StreamApply \/ StreamDelete
  BY <1>3 DEF StreamInit, StreamInitDone, StreamApply, StreamDelete, Project, Awaiting
<1>4. ASSUME NEW u \in Uids, Record(u) PROVE HandlerInv'
  BY <1>4 DEF Record
<1>5. ASSUME NEW u \in Uids, PreviewRow(u) PROVE HandlerInv'
  BY <1>5 DEF PreviewRow
<1>6. CASE MarkInitDone \/ PreviewStart \/ PreviewEnd
  BY <1>6 DEF MarkInitDone, PreviewStart, PreviewEnd, Awaiting
<1>7. CASE UNCHANGED <<pc, todo, preview, previewRows>>
  BY <1>7 DEF Keys
<1>8. ASSUME NEW u \in Uids, NEW r \in Maybe, ServerWrite(u, r)
      PROVE UNCHANGED <<pc, todo, preview, previewRows>>
  BY <1>8 DEF ServerWrite
<1> QED
  BY <1>1, <1>2, <1>3, <1>4, <1>5, <1>6, <1>7, <1>8
     DEF Next, StreamStep, TaskStep, FwdStep, vars, StreamError, DropAbort, DropClose,
         FwdNotified, FwdCheck, FwdWake, FwdWindow, FwdDrain, FwdEmit

(* A step that leaves the channel, the batch, the listener, the cache and  *)
(* the handler alone keeps NoDeltaLost. *)
LEMMA DeltaStutter ==
  NoDeltaLost /\ UNCHANGED <<ch, batch, view, cache, pc, todo>> => NoDeltaLost'
  BY DEF NoDeltaLost, Unrecorded

LEMMA DeltaStep == IInv /\ [Next]_vars => NoDeltaLost'
<1> SUFFICES ASSUME IInv, [Next]_vars PROVE NoDeltaLost'
  OBVIOUS
<1> DEFINE shown == Apply(view, batch)
           final == Caught(shown, ch)
           stable == UNCHANGED <<ch, batch, view>>
<1>1. /\ ch \in Channels /\ cache \in Tables /\ view \in Tables /\ batch \in Batches
      /\ shown \in Tables
  BY ApplyType DEF IInv, TypeOK
<1>2. stable => (NoDeltaLost' <=>
         (~ch.closed => \A u \in Uids \ Unrecorded' : final[u] = cache'[u]))
  BY DEF NoDeltaLost
<1>3. ASSUME NEW u \in Uids, NEW r \in Maybe, ServerWrite(u, r) PROVE NoDeltaLost'
  BY <1>3, DeltaStutter DEF ServerWrite, IInv
<1>4. ASSUME NEW u \in Uids, NEW r, Awaiting, Project(u, r), stable PROVE NoDeltaLost'
  <2>1. ~ch.closed => \A v \in Uids : final[v] = cache[v]
    BY <1>4 DEF IInv, NoDeltaLost, Unrecorded, Awaiting
  <2>2. CASE r \in BadRows \/ cache[u] = r
    BY <1>2, <1>4, <2>1, <2>2 DEF Project
  <2>3. CASE ~(r \in BadRows \/ cache[u] = r)
    <3>1. Unrecorded' = {u} /\ \A v \in Uids \ {u} : cache'[v] = cache[v]
      BY <1>1, <1>4, <2>3 DEF Project, Unrecorded, Tables
    <3> QED
      BY <1>2, <1>4, <2>1, <3>1
  <2> QED
    BY <2>2, <2>3
<1>5. ASSUME NEW u \in Uids, StreamInitApply(u) PROVE NoDeltaLost'
  BY <1>4, <1>5 DEF StreamInitApply
<1>6. CASE StreamInitDone
  <2>1. ~ch.closed => \A v \in Uids : final[v] = cache[v]
    BY <1>6 DEF IInv, NoDeltaLost, Unrecorded, StreamInitDone, Awaiting
  <2>2. Unrecorded' = Keys(cache) \ initSeen
    BY <1>6 DEF StreamInitDone, reconcile_init_seen, Unrecorded
  <2>3. \A v \in Uids \ Unrecorded' : cache'[v] = cache[v]
    BY <1>6, <2>2 DEF StreamInitDone, reconcile_init_seen, Keys
  <2> QED
    BY <1>2, <1>6, <2>1, <2>3 DEF StreamInitDone
<1>7. CASE StreamApply
  <2>1. Head(backlog) \in Events
    BY <1>7 DEF StreamApply, IInv, TypeOK
  <2>2. Head(backlog).uid \in Uids
    BY <2>1 DEF Events
  <2> QED
    BY <1>4, <1>7, <2>2 DEF StreamApply
<1>8. CASE StreamDelete
  <2>1. ~ch.closed => \A v \in Uids : final[v] = cache[v]
    BY <1>8 DEF IInv, NoDeltaLost, Unrecorded, StreamDelete, Awaiting
  <2>2. /\ Unrecorded' = {Head(backlog).uid}
        /\ \A v \in Uids \ Unrecorded' : cache'[v] = cache[v]
    BY <1>1, <1>8 DEF StreamDelete, Unrecorded, Tables
  <2> QED
    BY <1>2, <1>8, <2>1, <2>2 DEF StreamDelete
<1>9. ASSUME NEW u \in Uids, Record(u) PROVE NoDeltaLost'
  <2> SUFFICES ASSUME ~ch'.closed, NEW v \in Uids \ Unrecorded'
               PROVE  Caught(shown, ch')[v] = cache[v]
    BY <1>9 DEF NoDeltaLost, Record
  <2>1. ~ch.closed
    BY <1>1, <1>9 DEF Record, record_upsert, record_delete, Channels
  <2>2. Unrecorded' = Unrecorded \ {u}
    BY <1>9 DEF Record, Unrecorded, IInv, HandlerInv
  <2>3. Caught(shown, ch') = [final EXCEPT ![u] = cache[u]]
    <3>1. CASE cache[u] = NoRow
      <4>1. ch' = record_delete(ch, u)
        BY <1>9, <3>1 DEF Record
      <4> QED
        BY <1>1, <2>1, <3>1, <4>1, DeleteCaught
    <3>2. CASE cache[u] # NoRow
      <4>1. ch' = record_upsert(ch, u, cache[u]) /\ cache[u] \in Rows
        BY <1>1, <1>9, <3>2 DEF Record, Tables, Maybe
      <4> QED
        BY <1>1, <2>1, <4>1, UpsertCaught
    <3> QED
      BY <3>1, <3>2
  <2>4. CASE v = u
    BY <2>3, <2>4 DEF Caught
  <2>5. CASE v # u
    <3>1. final[v] = cache[v]
      BY <2>1, <2>2, <2>5 DEF IInv, NoDeltaLost
    <3> QED
      BY <2>3, <2>5, <3>1 DEF Caught
  <2> QED
    BY <2>4, <2>5
<1>10. CASE MarkInitDone
  <2>1. /\ ch'.changed = ch.changed /\ ch'.deleted = ch.deleted
        /\ ch'.closed = ch.closed
    BY <1>1, <1>10 DEF MarkInitDone, mark_init_done, Channels
  <2>2. Unrecorded = {} /\ Unrecorded' = {}
    BY <1>10 DEF MarkInitDone, Unrecorded
  <2> QED
    BY <1>10, <2>1, <2>2 DEF MarkInitDone, NoDeltaLost, Caught, IInv
<1>11. CASE PreviewStart
  <2>1. Unrecorded = {} /\ Unrecorded' = {}
    BY <1>11 DEF PreviewStart, Awaiting, Unrecorded
  <2> QED
    BY <1>11, <2>1 DEF PreviewStart, NoDeltaLost, IInv
<1>12. ASSUME NEW u \in Uids, PreviewRow(u) PROVE NoDeltaLost'
  <2>1. Unrecorded = {} /\ Unrecorded' = {}
    BY <1>12 DEF PreviewRow, Unrecorded
  <2>2. CASE cache[u] # NoRow
    BY <1>12, <2>1, <2>2 DEF PreviewRow, NoDeltaLost, IInv
  <2>3. CASE cache[u] = NoRow
    <3> SUFFICES ASSUME ~ch'.closed, NEW v \in Uids
                 PROVE  Caught(shown, ch')[v] = cache'[v]
      BY <1>12, <2>1, <2>3 DEF NoDeltaLost, PreviewRow
    <3>1. previewRows[u] \in Rows
      BY <1>12 DEF PreviewRow, IInv, HandlerInv, TypeOK, Tables, Maybe, Keys
    <3>2. ch' = record_upsert(ch, u, previewRows[u])
      BY <1>12, <2>3 DEF PreviewRow
    <3>3. ~ch.closed
      BY <3>2 DEF record_upsert
    <3>4. Caught(shown, ch') = [final EXCEPT ![u] = previewRows[u]]
      BY <1>1, <3>1, <3>2, <3>3, UpsertCaught
    <3>5. final[v] = cache[v]
      BY <2>1, <3>3 DEF IInv, NoDeltaLost
    <3>6. cache' = [cache EXCEPT ![u] = previewRows[u]]
      BY <1>12, <2>3 DEF PreviewRow
    <3>7. final \in [Uids -> Maybe] /\ cache \in [Uids -> Maybe]
      BY <1>1 DEF Caught, Tables, Channels, Maybe
    <3> QED
      BY <3>4, <3>5, <3>6, <3>7
  <2> QED
    BY <2>2, <2>3
<1>13. CASE PreviewEnd
  <2>1. Unrecorded = {} /\ Unrecorded' = {}
    BY <1>13 DEF PreviewEnd, Unrecorded
  <2> QED
    BY <1>13, <2>1 DEF PreviewEnd, NoDeltaLost, IInv
<1>14. CASE DropClose
  BY <1>1, <1>14 DEF DropClose, close, NoDeltaLost, Channels
<1>15. CASE FwdDrain
  <2>1. PICK b \in drain_capped(ch) : ch' = Remainder(ch, b) /\ batch' = b
    BY <1>15 DEF FwdDrain
  <2>2. shown = view
    BY <1>1, <1>15, ApplyNoBatch DEF FwdDrain, IInv, BatchInv
  <2>3. Caught(Apply(view, b), ch') = final
    BY <1>1, <2>1, <2>2, DrainKeepsCaught DEF IInv, PendingDisjoint
  <2>4. ch'.closed = ch.closed
    BY <1>1, <2>1 DEF Remainder, Channels
  <2> QED
    BY <1>15, <2>1, <2>3, <2>4 DEF FwdDrain, NoDeltaLost, Unrecorded, IInv
<1>16. CASE FwdEmit
  <2>1. Apply(view', batch') = shown
    BY <1>1, <1>16, ApplyNoBatch DEF FwdEmit
  <2> QED
    BY <1>16, <2>1 DEF FwdEmit, NoDeltaLost, Unrecorded, IInv
<1>17. CASE \/ preview_rows \/ StreamInit \/ StreamError \/ DropAbort
            \/ FwdNotified \/ FwdCheck \/ FwdWake \/ FwdWindow \/ UNCHANGED vars
  BY <1>17, DeltaStutter
     DEF preview_rows, StreamInit, StreamError, DropAbort, FwdNotified, FwdCheck,
         FwdWake, FwdWindow, vars, IInv
<1> QED
  BY <1>3, <1>5, <1>6, <1>7, <1>8, <1>9, <1>10, <1>11, <1>12, <1>13, <1>14, <1>15,
     <1>16, <1>17 DEF Next, StreamStep, TaskStep, FwdStep

(* No wake-up is lost: the record that follows the forwarder's look at the *)
(* channel leaves a permit, and close() wakes the future that already      *)
(* exists.  This invariant is inductive by itself.                         *)
LEMMA WakeStep == TypeOK /\ NoLostWakeup /\ [Next]_vars => NoLostWakeup'
<1> SUFFICES ASSUME TypeOK, NoLostWakeup, [Next]_vars PROVE NoLostWakeup'
  OBVIOUS
<1> USE DEF NoLostWakeup
<1>1. ASSUME NEW u \in Uids, Record(u) PROVE NoLostWakeup'
  BY <1>1 DEF Record
<1>2. ASSUME NEW u \in Uids, PreviewRow(u) PROVE NoLostWakeup'
  BY <1>2 DEF PreviewRow
<1>3. CASE MarkInitDone
  BY <1>3 DEF MarkInitDone
<1>4. CASE DropClose
  BY <1>4 DEF DropClose, notify_waiters
<1>5. CASE FwdNotified \/ FwdCheck \/ FwdWake \/ FwdWindow \/ FwdDrain \/ FwdEmit
  BY <1>5 DEF FwdNotified, FwdCheck, FwdWake, FwdWindow, FwdDrain, FwdEmit
<1>6. CASE UNCHANGED <<fpc, permit, woken, ch>>
  BY <1>6
<1>7. ASSUME NEW u \in Uids, NEW r \in Maybe, ServerWrite(u, r)
      PROVE UNCHANGED <<fpc, permit, woken, ch>>
  BY <1>7 DEF ServerWrite
<1>8. ASSUME NEW u \in Uids, StreamInitApply(u)
      PROVE UNCHANGED <<fpc, permit, woken, ch>>
  BY <1>8 DEF StreamInitApply
<1> QED
  BY <1>1, <1>2, <1>3, <1>4, <1>5, <1>6, <1>7, <1>8
     DEF Next, StreamStep, TaskStep, FwdStep, vars, preview_rows, StreamInit,
         StreamInitDone, StreamApply, StreamDelete, StreamError, PreviewStart,
         PreviewEnd, DropAbort

(* The forwarder never parks over pending deltas or a closed channel       *)
(* without something that will wake it. *)
THEOREM NoWakeupIsLost == Spec => []NoLostWakeup
<1>1. Init => NoLostWakeup
  BY DEF Init, NoLostWakeup
<1> QED
  BY <1>1, TypeCorrect, WakeStep, PTL DEF Spec

-----------------------------------------------------------------------------
LEMMA InvInit == Init => IInv
<1> SUFFICES ASSUME Init PROVE IInv
  OBVIOUS
<1>1. TypeOK
  BY TypeInit
<1>2. Apply(view, batch) = view
  BY <1>1, ApplyNoBatch DEF Init, TypeOK
<1>3. NoDeltaLost
  BY <1>2 DEF NoDeltaLost, Init, NewChannel, Caught, Empty
<1> QED
  BY <1>1, <1>3
     DEF IInv, Init, PendingDisjoint, BatchInv, HandlerInv, NewChannel

LEMMA InvStep == IInv /\ [Next]_vars => IInv'
  BY TypeStep, DisjointStep, BatchStep, HandlerStep, DeltaStep DEF IInv

LEMMA Invariant == Spec => []IInv
  BY InvInit, InvStep, PTL DEF Spec

(* While a watcher is held, the listener's table plus what is on its way   *)
(* to it is the cache: no delta is ever lost. *)
THEOREM DeltasAreNotLost == Spec => []NoDeltaLost
<1>1. IInv => NoDeltaLost
  BY DEF IInv
<1> QED
  BY <1>1, Invariant, PTL

(* Everything in the pipeline is typed, and no uid is ever pending both as *)
(* an upsert and as a delete (DirtyChannel::record_upsert, record_delete). *)
THEOREM ChannelSound == Spec => []ChannelIsSound
<1>1. IInv => ChannelIsSound
  BY DEF IInv, ChannelIsSound
<1> QED
  BY <1>1, Invariant, PTL

(* The InitDone mark leaves the channel only with the batch that completes *)
(* the listener's table. *)
THEOREM SpinnerEnds == Spec => SpinnerEndsOnFullTable
<1> DEFINE full == batch'.init /\ ~ch.closed =>
                     \A u \in Uids \ Unrecorded : Apply(view, batch')[u] = cache[u]
<1>1. IInv /\ [Next]_vars => [full]_batch
  <2> SUFFICES ASSUME IInv, [Next]_vars, batch' # batch, batch'.init, ~ch.closed,
                      NEW u \in Uids \ Unrecorded
               PROVE  Apply(view, batch')[u] = cache[u]
    OBVIOUS
  <2>1. CASE FwdDrain
    <3>1. PICK b \in drain_capped(ch) : batch' = b
      BY <2>1 DEF FwdDrain
    <3>2. b = TakeAll(ch)
      BY <3>1, DrainFacts DEF IInv, TypeOK
    <3>3. Apply(view, batch) = view
      BY <2>1, ApplyNoBatch DEF FwdDrain, IInv, BatchInv, TypeOK
    <3>4. Caught(view, ch)[u] = cache[u]
      BY <3>3 DEF IInv, NoDeltaLost
    <3>5. ~(ch.changed[u] # NoRow /\ u \in ch.deleted)
      BY DEF IInv, PendingDisjoint, Keys
    <3> QED
      BY <3>1, <3>2, <3>4, <3>5 DEF TakeAll, Apply, Caught
  <2>2. CASE FwdEmit
    BY <2>2 DEF FwdEmit, NoBatch
  <2>3. UNCHANGED batch \/ FwdDrain \/ FwdEmit
    <3>1. ASSUME NEW v \in Uids, NEW r \in Maybe, ServerWrite(v, r) PROVE UNCHANGED batch
      BY <3>1 DEF ServerWrite
    <3>2. ASSUME NEW v \in Uids, StreamInitApply(v) \/ Record(v) \/ PreviewRow(v)
          PROVE UNCHANGED batch
      BY <3>2 DEF StreamInitApply, Record, PreviewRow
    <3> QED
      BY <3>1, <3>2
         DEF Next, StreamStep, TaskStep, FwdStep, vars, preview_rows, StreamInit,
             StreamInitDone, StreamApply, StreamDelete, StreamError, MarkInitDone,
             PreviewStart, PreviewEnd, DropAbort, DropClose, FwdNotified, FwdCheck,
             FwdWake, FwdWindow
  <2> QED
    BY <2>1, <2>2, <2>3
<1> QED
  BY <1>1, Invariant, PTL DEF Spec, SpinnerEndsOnFullTable

-----------------------------------------------------------------------------
(* The refinement: which abstract step each step of the pipeline is.       *)

LEMMA FeedInit == Init => Feed!Init
<1> SUFFICES ASSUME Init PROVE Feed!Init
  OBVIOUS
<1>1. view \in Tables /\ batch = NoBatch /\ view = Empty /\ ch = NewChannel
  BY EmptyType DEF Init
<1>2. Apply(view, batch) = Empty
  BY <1>1, ApplyNoBatch
<1>3. Caught(Empty, NewChannel) = Empty
  BY DEF Caught, NewChannel, Empty
<1>4. (synced \/ batch.init) = FALSE /\ ~ch.closed = TRUE
  BY <1>1 DEF Init, NoBatch, NewChannel
<1> QED
  BY <1>1, <1>2, <1>3, <1>4 DEF Feed!Init, Empty

(* Recording a row publishes it; on a closed channel nothing happens. *)
LEMMA FeedRecord ==
  ASSUME IInv, NEW u \in Uids, NEW r \in Maybe,
         UNCHANGED <<view, batch, synced>>,
         \/ r = NoRow /\ ch' = record_delete(ch, u)
         \/ r \in Rows /\ ch' = record_upsert(ch, u, r)
  PROVE  [Feed!Next]_(Feed!vars)
<1>1. /\ ch \in Channels /\ Apply(view, batch) \in Tables
  BY ApplyType DEF IInv, TypeOK
<1>2. CASE ch.closed
  <2>1. ch' = ch
    BY <1>2 DEF record_delete, record_upsert
  <2> QED
    BY <2>1 DEF Feed!vars
<1>3. CASE ~ch.closed
  <2>1. Caught(Apply(view, batch), ch') = [Caught(Apply(view, batch), ch) EXCEPT ![u] = r]
    BY <1>1, <1>3, UpsertCaught, DeleteCaught
  <2>2. ch'.closed = ch.closed
    BY <1>1 DEF record_delete, record_upsert, Channels
  <2>3. Feed!Publish(u, r)
    BY <1>3, <2>1, <2>2 DEF Feed!Publish
  <2> QED
    BY <2>3 DEF Feed!Next, Maybe
<1> QED
  BY <1>2, <1>3

LEMMA FeedDrain == IInv /\ FwdDrain => Feed!Next
<1> SUFFICES ASSUME IInv, FwdDrain PROVE Feed!Next
  OBVIOUS
<1>1. PICK b \in drain_capped(ch) : ch' = Remainder(ch, b) /\ batch' = b
  BY DEF FwdDrain
<1>2. /\ ch \in Channels /\ view \in Tables /\ batch = NoBatch
      /\ Keys(ch.changed) \cap ch.deleted = {}
      /\ synced \in BOOLEAN
  BY DEF IInv, TypeOK, BatchInv, FwdDrain, PendingDisjoint
<1>3. Apply(view, batch) = view
  BY <1>2, ApplyNoBatch
<1>4. /\ b \in Batches
      /\ \A u \in Uids : b.upserts[u] \in {NoRow, ch.changed[u]}
      /\ b.deletes \subseteq ch.deleted
      /\ b.init => b = TakeAll(ch)
  BY <1>2, DrainFacts
<1> DEFINE S == Keys(b.upserts) \cup b.deletes
           source == Caught(view, ch)
<1>5. Apply(view, b) = [u \in Uids |-> IF u \in S THEN source[u] ELSE view[u]]
  <2>1. ASSUME NEW u \in Uids
        PROVE  Apply(view, b)[u] = IF u \in S THEN source[u] ELSE view[u]
    <3>1. ~(ch.changed[u] # NoRow /\ u \in ch.deleted)
      BY <1>2 DEF Keys
    <3> QED
      BY <1>4, <3>1 DEF Apply, Caught, Keys
  <2> QED
    BY <2>1 DEF Apply
<1>6. Caught(Apply(view, b), ch') = source
  BY <1>1, <1>2, DrainKeepsCaught
<1>7. ch'.closed = ch.closed
  BY <1>1, <1>2 DEF Remainder, Channels
<1>8. b.init => Apply(view, b) = source
  <2> SUFFICES ASSUME b.init PROVE Apply(view, b) = source
    OBVIOUS
  <2>1. b.upserts = ch.changed /\ b.deletes = ch.deleted
    BY <1>4 DEF TakeAll
  <2>2. ASSUME NEW u \in Uids PROVE Apply(view, b)[u] = source[u]
    <3>1. ~(ch.changed[u] # NoRow /\ u \in ch.deleted)
      BY <1>2 DEF Keys
    <3> QED
      BY <2>1, <3>1 DEF Apply, Caught
  <2> QED
    BY <2>2 DEF Apply, Caught
<1>9. view' = view /\ synced' = synced
  BY DEF FwdDrain
<1>10. (synced \/ batch.init) = synced /\ (synced' \/ batch'.init) = (synced \/ b.init)
  BY <1>1, <1>2, <1>9 DEF NoBatch
<1>11. S \in SUBSET Uids
  BY <1>4 DEF Batches, Keys
<1>12. Feed!Deliver(S)
  <2>1. /\ (synced \/ b.init) \in {synced, TRUE}
        /\ (synced \/ b.init) # synced => Apply(view, b) = source
    BY <1>2, <1>4, <1>8 DEF Batches
  <2> QED
    BY <1>1, <1>3, <1>5, <1>6, <1>7, <1>9, <1>10, <2>1 DEF Feed!Deliver
<1> QED
  BY <1>11, <1>12 DEF Feed!Next

LEMMA FeedStep == IInv /\ [Next]_vars => [Feed!Next]_(Feed!vars)
<1> SUFFICES ASSUME IInv, [Next]_vars PROVE [Feed!Next]_(Feed!vars)
  OBVIOUS
<1>1. ASSUME NEW u \in Uids, Record(u) PROVE [Feed!Next]_(Feed!vars)
  <2>1. cache[u] \in Maybe
    BY DEF IInv, TypeOK, Tables
  <2> QED
    BY <1>1, <2>1, FeedRecord DEF Record, Maybe
<1>2. ASSUME NEW u \in Uids, PreviewRow(u) PROVE [Feed!Next]_(Feed!vars)
  <2>1. previewRows[u] \in Rows
    BY <1>2 DEF PreviewRow, IInv, HandlerInv, TypeOK, Tables, Maybe, Keys
  <2>2. CASE cache[u] # NoRow
    BY <1>2, <2>2 DEF PreviewRow, Feed!vars
  <2>3. CASE cache[u] = NoRow
    BY <1>2, <2>1, <2>3, FeedRecord DEF PreviewRow, Maybe
  <2> QED
    BY <2>2, <2>3
<1>3. CASE MarkInitDone
  <2>1. /\ ch'.changed = ch.changed /\ ch'.deleted = ch.deleted
        /\ ch'.closed = ch.closed
    BY <1>3 DEF MarkInitDone, mark_init_done, IInv, TypeOK, Channels
  <2> QED
    BY <1>3, <2>1 DEF MarkInitDone, Feed!vars, Caught
<1>4. CASE DropClose
  <2>1. /\ ch'.changed = ch.changed /\ ch'.deleted = ch.deleted
        /\ ch'.closed = TRUE
    BY <1>4 DEF DropClose, close, IInv, TypeOK, Channels
  <2>2. Feed!Close
    BY <1>4, <2>1 DEF DropClose, Feed!Close, Caught
  <2> QED
    BY <2>2 DEF Feed!Next
<1>5. CASE FwdDrain
  BY <1>5, FeedDrain
<1>6. CASE FwdEmit
  <2>1. view' = Apply(view, batch) /\ batch' = NoBatch /\ ch' = ch
        /\ synced' = (synced \/ batch.init)
    BY <1>6 DEF FwdEmit
  <2>2. Apply(view', batch') = Apply(view, batch)
    BY <2>1, ApplyType, ApplyNoBatch DEF IInv, TypeOK
  <2>3. (synced' \/ batch'.init) = (synced \/ batch.init)
    BY <2>1 DEF NoBatch, IInv, TypeOK, Batches
  <2> QED
    BY <2>1, <2>2, <2>3 DEF Feed!vars
<1>7. CASE UNCHANGED <<ch, view, batch, synced>>
  BY <1>7 DEF Feed!vars
<1>8. ASSUME NEW u \in Uids, NEW r \in Maybe, ServerWrite(u, r)
      PROVE UNCHANGED <<ch, view, batch, synced>>
  BY <1>8 DEF ServerWrite
<1>9. ASSUME NEW u \in Uids, StreamInitApply(u)
      PROVE UNCHANGED <<ch, view, batch, synced>>
  BY <1>9 DEF StreamInitApply
<1> QED
  BY <1>1, <1>2, <1>3, <1>4, <1>5, <1>6, <1>7, <1>8, <1>9
     DEF Next, StreamStep, TaskStep, FwdStep, vars, preview_rows, StreamInit,
         StreamInitDone, StreamApply, StreamDelete, StreamError, PreviewStart,
         PreviewEnd, DropAbort, FwdNotified, FwdCheck, FwdWake, FwdWindow

(* The whole pipeline implements the abstract feed: recorded rows are the  *)
(* source, drained rows the replica. *)
THEOREM PipelineImplementsFeed == Spec => ImplementsFeed
  BY FeedInit, FeedStep, Invariant, PTL DEF Spec, ImplementsFeed, Feed!Spec

-----------------------------------------------------------------------------
(* The cache and the apiserver.  CacheTracksServer is not inductive by     *)
(* itself: it starts to hold when a list ends, so the list must be         *)
(* followed from its start.  Until then a uid is still to be replayed, has *)
(* been replayed (initSeen), or is left to the reconcile; a change made    *)
(* meanwhile is the latest event of its uid.                               *)
Latest(q, u, r) ==
  \E i \in 1..Len(q) : /\ q[i].uid = u /\ q[i].row = r
                       /\ \A j \in 1..Len(q) : q[j].uid = u => j <= i
Unreported(q, u) == \A i \in 1..Len(q) : q[i].uid # u

Cached(u) == server[u] \in BadRows \/ cache[u] = server[u]
Listed(u) ==
  \/ page[u] # NoRow /\ page[u] = server[u]
  \/ page[u] = NoRow /\ u \in initSeen /\ server[u] # NoRow /\ Cached(u)
  \/ page[u] = NoRow /\ u \notin initSeen /\ server[u] = NoRow

TracksInv ==
  /\ phase = "watch" => initDone
  /\ pc = "preview" => ~initDone
  /\ phase # "down" =>
       \A u \in Uids : \/ Latest(backlog, u, server[u])
                       \/ /\ Unreported(backlog, u)
                          /\ phase = "watch" => Cached(u)
                          /\ phase = "list" => Listed(u)

(* A new event is the latest of its uid and leaves those of the others.    *)
LEMMA AppendLatest ==
  ASSUME NEW q \in Seq(Events), NEW e \in Events
  PROVE  /\ Latest(Append(q, e), e.uid, e.row)
         /\ \A u \in Uids \ {e.uid} :
              /\ \A r \in Maybe : Latest(q, u, r) => Latest(Append(q, e), u, r)
              /\ Unreported(q, u) => Unreported(Append(q, e), u)
<1> DEFINE n == Append(q, e)
<1>1. /\ n \in Seq(Events) /\ Len(n) = Len(q) + 1 /\ Len(q) \in Nat /\ n[Len(q) + 1] = e
      /\ \A i \in 1..Len(q) : n[i] = q[i]
  OBVIOUS
<1> HIDE DEF n
<1>2. Latest(n, e.uid, e.row)
  <2>1. Len(q) + 1 \in 1..Len(n)
    BY <1>1
  <2> QED
    BY <1>1, <2>1 DEF Latest
<1>3. ASSUME NEW u \in Uids \ {e.uid}
      PROVE  /\ \A r \in Maybe : Latest(q, u, r) => Latest(n, u, r)
             /\ Unreported(q, u) => Unreported(n, u)
  <2>1. \A i \in 1..Len(n) : n[i].uid = u => i \in 1..Len(q)
    BY <1>1
  <2>2. \A i \in 1..Len(q) : i \in 1..Len(n)
    BY <1>1
  <2> QED
    BY <1>1, <2>1, <2>2 DEF Latest, Unreported
<1> QED
  BY <1>2, <1>3 DEF n

(* Taking the first event leaves the latest ones, or the uid unreported.   *)
LEMMA TailLatest ==
  ASSUME NEW q \in Seq(Events), q # << >>
  PROVE  \A u \in Uids :
           /\ \A r \in Maybe : Latest(q, u, r) =>
                \/ Latest(Tail(q), u, r)
                \/ Unreported(Tail(q), u) /\ Head(q).uid = u /\ Head(q).row = r
           /\ Unreported(q, u) => Unreported(Tail(q), u) /\ Head(q).uid # u
<1> DEFINE t == Tail(q)
<1>1. /\ t \in Seq(Events) /\ Len(q) \in Nat /\ Len(q) > 0 /\ Len(t) = Len(q) - 1
      /\ Head(q) = q[1] /\ \A i \in 1..Len(t) : t[i] = q[i + 1]
  OBVIOUS
<1> HIDE DEF t
<1>2. /\ \A i \in 1..Len(t) : i + 1 \in 1..Len(q)
      /\ \A i \in 1..Len(q) : i # 1 => i - 1 \in 1..Len(t) /\ t[i - 1] = q[i]
      /\ 1 \in 1..Len(q)
  BY <1>1
<1>3. ASSUME NEW u \in Uids, NEW r \in Maybe, Latest(q, u, r)
      PROVE  \/ Latest(t, u, r)
             \/ Unreported(t, u) /\ Head(q).uid = u /\ Head(q).row = r
  <2>1. PICK i \in 1..Len(q) : /\ q[i].uid = u /\ q[i].row = r
                               /\ \A j \in 1..Len(q) : q[j].uid = u => j <= i
    BY <1>3 DEF Latest
  <2>2. CASE i = 1
    <3>1. ASSUME NEW k \in 1..Len(t), t[k].uid = u PROVE FALSE
      BY <1>1, <1>2, <2>1, <2>2, <3>1
    <3> QED
      BY <1>1, <2>1, <2>2, <3>1 DEF Unreported
  <2>3. CASE i # 1
    <3>1. i - 1 \in 1..Len(t) /\ t[i - 1] = q[i]
      BY <1>2, <2>3
    <3>2. \A j \in 1..Len(t) : t[j].uid = u => j <= i - 1
      BY <1>1, <1>2, <2>1
    <3> QED
      BY <2>1, <3>1, <3>2 DEF Latest
  <2> QED
    BY <2>2, <2>3
<1>4. \A u \in Uids : Unreported(q, u) => Unreported(t, u) /\ Head(q).uid # u
  BY <1>1, <1>2 DEF Unreported
<1> QED
  BY <1>3, <1>4 DEF t

(* A step that touches neither the stream nor the cache. *)
LEMMA TracksFrame ==
  ASSUME TracksInv,
         UNCHANGED <<server, phase, page, backlog, cache, initSeen, initDone>>,
         pc' = "preview" => ~initDone
  PROVE  TracksInv'
  BY DEF TracksInv, Cached, Listed

LEMMA TracksStep == TypeOK /\ HandlerInv /\ TracksInv /\ [Next]_vars => TracksInv'
<1> SUFFICES ASSUME TypeOK, HandlerInv, TracksInv, [Next]_vars PROVE TracksInv'
  OBVIOUS
<1> DEFINE Tracked(u) ==
      \/ Latest(backlog, u, server[u])
      \/ /\ Unreported(backlog, u)
         /\ phase = "watch" => Cached(u)
         /\ phase = "list" => Listed(u)
<1>1. ASSUME NEW u \in Uids, NEW r \in Maybe, ServerWrite(u, r) PROVE TracksInv'
  <2>1. CASE phase = "down"
    BY <1>1, <2>1 DEF ServerWrite, TracksInv
  <2>2. CASE phase # "down"
    <3> DEFINE e == [uid |-> u, row |-> r]
    <3>1. /\ e \in Events /\ e.uid = u /\ e.row = r /\ backlog' = Append(backlog, e)
          /\ backlog \in Seq(Events)
      BY <1>1, <2>2 DEF ServerWrite, Events, TypeOK
    <3>2. /\ server' = [server EXCEPT ![u] = r] /\ server \in Tables
          /\ UNCHANGED <<phase, page, cache, initSeen, initDone, pc>>
      BY <1>1 DEF ServerWrite, TypeOK
    <3>3. \A v \in Uids : server'[v] = (IF v = u THEN r ELSE server[v]) /\ server[v] \in Maybe
      BY <3>2 DEF Tables
    <3> HIDE DEF e
    <3>4. ASSUME NEW v \in Uids PROVE Tracked(v)'
      <4>1. CASE v = u
        BY <3>1, <3>3, <4>1, AppendLatest
      <4>2. CASE v # u
        <5>1. Tracked(v)
          BY <2>2 DEF TracksInv
        <5>2. Cached(v)' <=> Cached(v)
          BY <3>2, <3>3, <4>2 DEF Cached
        <5>3. Listed(v)' <=> Listed(v)
          BY <3>2, <3>3, <4>2, <5>2 DEF Listed
        <5>4. server'[v] = server[v] /\ server[v] \in Maybe
          BY <3>3, <4>2
        <5>5. CASE Latest(backlog, v, server[v])
          BY <3>1, <4>2, <5>4, <5>5, AppendLatest
        <5>6. CASE Unreported(backlog, v)
          BY <3>1, <3>2, <4>2, <5>1, <5>2, <5>3, <5>4, <5>6, AppendLatest
        <5> QED
          BY <5>1, <5>5, <5>6
      <4> QED
        BY <4>1, <4>2
    <3> QED
      BY <3>2, <3>4 DEF TracksInv
  <2> QED
    BY <2>1, <2>2
<1>2. CASE StreamInit
  <2>1. /\ phase' = "list" /\ backlog' = << >> /\ page' = server /\ initSeen' = {}
        /\ UNCHANGED <<server, cache, initDone, pc>>
    BY <1>2 DEF StreamInit
  <2>2. \A u \in Uids : Unreported(backlog', u) /\ Listed(u)'
    BY <2>1 DEF Unreported, Listed
  <2> QED
    BY <2>1, <2>2 DEF TracksInv
<1>3. ASSUME NEW u \in Uids, StreamInitApply(u) PROVE TracksInv'
  <2>1. /\ phase = "list" /\ phase' = "list" /\ page[u] # NoRow
        /\ page' = [page EXCEPT ![u] = NoRow] /\ initSeen' = initSeen \cup {u}
        /\ UNCHANGED <<server, backlog, initDone>> /\ pc' # "preview"
    BY <1>3 DEF StreamInitApply, Awaiting, Project
  <2>2. cache' \in [Uids -> Maybe] /\ cache \in [Uids -> Maybe] /\ page \in [Uids -> Maybe]
    BY <1>3 DEF StreamInitApply, Project, TypeOK, Tables
  <2>3. \A v \in Uids : /\ v # u => cache'[v] = cache[v] /\ page'[v] = page[v]
                        /\ page'[u] = NoRow
                        /\ page[u] \in BadRows \/ cache'[u] = page[u]
    BY <1>3, <2>1, <2>2 DEF StreamInitApply, Project
  <2>4. ASSUME NEW v \in Uids, Listed(v) PROVE Listed(v)'
    BY <2>1, <2>3, <2>4 DEF Listed, Cached
  <2> QED
    BY <2>1, <2>4 DEF TracksInv
<1>4. CASE StreamInitDone
  <2>1. /\ phase = "list" /\ phase' = "watch" /\ initDone' = TRUE /\ pc' = "reconcile"
        /\ UNCHANGED <<server, backlog>> /\ \A u \in Uids : page[u] = NoRow
        /\ \A u \in Uids : cache'[u] = IF u \in Keys(cache) \ initSeen THEN NoRow ELSE cache[u]
    BY <1>4 DEF StreamInitDone, reconcile_init_seen, Keys
  <2>2. ASSUME NEW u \in Uids, Listed(u) PROVE Cached(u)'
    BY <2>1, <2>2 DEF Listed, Cached, Keys
  <2> QED
    BY <2>1, <2>2 DEF TracksInv
<1>5. CASE StreamApply \/ StreamDelete
  <2> DEFINE h == Head(backlog)
  <2>1. /\ phase = "watch" /\ phase' = "watch" /\ backlog # << >> /\ backlog' = Tail(backlog)
        /\ UNCHANGED <<server, initDone>> /\ pc' # "preview" /\ backlog \in Seq(Events)
    BY <1>5 DEF StreamApply, StreamDelete, Awaiting, Project, TypeOK
  <2>2. h \in Events /\ cache \in [Uids -> Maybe] /\ server \in [Uids -> Maybe]
    BY <2>1 DEF TypeOK, Tables
  <2>3. /\ \A u \in Uids : u # h.uid => cache'[u] = cache[u]
        /\ h.row \in BadRows \/ cache'[h.uid] = h.row
    <3>1. CASE StreamApply
      BY <2>2, <3>1 DEF StreamApply, Project, Events
    <3>2. CASE StreamDelete
      BY <2>2, <3>2 DEF StreamDelete, Events
    <3> QED
      BY <1>5, <3>1, <3>2
  <2> HIDE DEF h
  <2>4. ASSUME NEW u \in Uids PROVE Tracked(u)'
    <3>1. server[u] \in Maybe /\ server'[u] = server[u]
      BY <2>1, <2>2
    <3>2. CASE Latest(backlog, u, server[u])
      <4>1. \/ Latest(backlog', u, server[u])
            \/ Unreported(backlog', u) /\ h.uid = u /\ h.row = server[u]
        BY <2>1, <3>1, <3>2, TailLatest DEF h
      <4> QED
        BY <2>1, <2>3, <3>1, <4>1 DEF Cached
    <3>3. CASE Unreported(backlog, u) /\ Cached(u)
      <4>1. Unreported(backlog', u) /\ h.uid # u
        BY <2>1, <3>3, TailLatest DEF h
      <4> QED
        BY <2>1, <2>3, <3>1, <3>3, <4>1 DEF Cached
    <3> QED
      BY <2>1, <3>2, <3>3 DEF TracksInv
  <2> QED
    BY <2>1, <2>4 DEF TracksInv
<1>6. CASE StreamError
  BY <1>6 DEF StreamError, Awaiting, TracksInv
<1>7. ASSUME NEW u \in Uids, PreviewRow(u) PROVE TracksInv'
  <2>1. /\ pc = "preview" /\ ~initDone /\ phase # "watch"
        /\ UNCHANGED <<server, phase, page, backlog, initSeen, initDone, pc>>
    BY <1>7 DEF PreviewRow, TracksInv
  <2>2. \A v \in Uids : cache[v] = NoRow \/ cache'[v] = cache[v]
    BY <1>7 DEF PreviewRow, TypeOK, Tables
  <2>3. ASSUME NEW v \in Uids, Listed(v) PROVE Listed(v)'
    BY <2>1, <2>2, <2>3 DEF Listed, Cached
  <2> QED
    BY <2>1, <2>3 DEF TracksInv
<1>8. CASE PreviewStart
  BY <1>8, TracksFrame DEF PreviewStart, Awaiting
<1>9. ASSUME NEW u \in Uids, Record(u) PROVE TracksInv'
  BY <1>9, TracksFrame DEF Record
<1>10. CASE MarkInitDone \/ PreviewEnd
  BY <1>10, TracksFrame DEF MarkInitDone, PreviewEnd
<1>11. CASE UNCHANGED <<server, phase, page, backlog, cache, initSeen, initDone, pc>>
  BY <1>11, TracksFrame DEF TracksInv
<1> QED
  BY <1>1, <1>2, <1>3, <1>4, <1>5, <1>6, <1>7, <1>8, <1>9, <1>10, <1>11
     DEF Next, StreamStep, TaskStep, FwdStep, vars, preview_rows, DropAbort, DropClose,
         FwdNotified, FwdCheck, FwdWake, FwdWindow, FwdDrain, FwdEmit

(* Whatever a preview, a broken watch or a resync brought in, after        *)
(* InitDone the cache with the events under way is the apiserver's state   *)
(* (start_with_api, reconcile_init_seen), for every row that serialises.   *)
THEOREM CacheTracks == Spec => []CacheTracksServer
<1>1. Init => TracksInv
  BY DEF Init, TracksInv
<1>2. ASSUME TypeOK, TracksInv PROVE CacheTracksServer
  <2> SUFFICES ASSUME phase = "watch", NEW u \in Uids, server[u] \notin BadRows
               PROVE  LatestEvent(u) = server[u]
    BY DEF CacheTracksServer
  <2> DEFINE at == {i \in 1..Len(backlog) : backlog[i].uid = u}
  <2>1. CASE Latest(backlog, u, server[u])
    <3>1. PICK i \in at : backlog[i].row = server[u] /\ \A j \in at : j <= i
      BY <2>1 DEF Latest
    <3>2. at \subseteq Nat /\ at # {}
      BY <3>1
    <3> HIDE DEF at
    <3>3. (CHOOSE k \in at : \A j \in at : j <= k) = i
      <4>1. \A k \in at : (\A j \in at : j <= k) => k = i
        BY <3>1, <3>2
      <4> QED
        BY <3>1, <4>1
    <3> QED
      BY <3>1, <3>2, <3>3 DEF LatestEvent, at
  <2>2. CASE Unreported(backlog, u) /\ Cached(u)
    BY <2>2 DEF Unreported, Cached, LatestEvent
  <2> QED
    BY <1>2, <2>1, <2>2 DEF TracksInv
<1>3. IInv => TypeOK /\ HandlerInv
  BY DEF IInv
<1> QED
  BY <1>1, <1>2, <1>3, Invariant, TracksStep, PTL DEF Spec
=============================================================================
