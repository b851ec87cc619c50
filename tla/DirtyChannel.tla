---------------------------- MODULE DirtyChannel ----------------------------
(***************************************************************************)
(* The coalescing channel between a resource watcher and the forwarder     *)
(* that feeds the webview (crates/kube-ext/src/watcher.rs, DirtyChannel).  *)
(*                                                                         *)
(* A channel state is a record of the four fields of DirtyState; every     *)
(* method that changes it under the mutex is an operator from a channel to *)
(* a channel.  HashMaps from uid to row are total functions whose value    *)
(* NoRow stands for "no entry".  The Notify handle is modelled by the      *)
(* module that runs the two tasks.                                         *)
(***************************************************************************)
EXTENDS Naturals, FiniteSets

CONSTANTS Uids,     \* the uids of the objects of one (cluster, kind)
          Rows,     \* the projected rows an object can have
          NoRow,    \* "no row": the object does not exist
          MaxEmit   \* MAX_EMIT_DELTAS; 0 means "no cap"

ASSUME NoRowAssumption == NoRow \notin Rows
ASSUME MaxEmitAssumption == MaxEmit \in Nat

Maybe == Rows \cup {NoRow}
Tables == [Uids -> Maybe]
Empty == [u \in Uids |-> NoRow]
Keys(t) == {u \in Uids : t[u] # NoRow}

Channels == [changed : Tables, deleted : SUBSET Uids,
             init : BOOLEAN, closed : BOOLEAN]

Batches == [upserts : Tables, deletes : SUBSET Uids, init : BOOLEAN]
NoBatch == [upserts |-> Empty, deletes |-> {}, init |-> FALSE]

NewChannel == [changed |-> Empty, deleted |-> {}, init |-> FALSE, closed |-> FALSE]

-----------------------------------------------------------------------------
(* The writer's side.  A closed channel ignores every record.              *)

(* Mutant: the tombstone of an earlier delete stays. *)
record_upsert_KeepsTombstone(ch, u, r) ==
  IF ch.closed THEN ch ELSE [ch EXCEPT !.changed[u] = r]

record_upsert(ch, u, r) ==
  IF ch.closed THEN ch
  ELSE [ch EXCEPT !.deleted = @ \ {u}, !.changed[u] = r]

record_delete(ch, u) ==
  IF ch.closed THEN ch
  ELSE [ch EXCEPT !.changed[u] = NoRow, !.deleted = @ \cup {u}]

mark_init_done(ch) ==
  IF ch.closed THEN ch ELSE [ch EXCEPT !.init = TRUE]

close(ch) == [ch EXCEPT !.closed = TRUE]

-----------------------------------------------------------------------------
(* The drainer's side.                                                     *)

(* What wait_for_change looks for before it looks at `closed`. *)
HasWork(ch) == Keys(ch.changed) # {} \/ ch.deleted # {} \/ ch.init

(* The fast path of drain_capped: everything pending fits in one batch. *)
Fits(ch) ==
  MaxEmit = 0 \/ Cardinality(Keys(ch.changed)) + Cardinality(ch.deleted) <= MaxEmit

TakeAll(ch) == [upserts |-> ch.changed, deletes |-> ch.deleted, init |-> ch.init]

(* The capped path: deletes first, then upserts up to the budget that is   *)
(* left; the iteration order of the hash maps is arbitrary; init is held   *)
(* back.                                                                   *)
Least(a, b) == IF a <= b THEN a ELSE b

(* Mutant: the capped path hands InitDone out with its first chunk. *)
HeldBack_Released(ch) == ch.init
HeldBack(ch) == FALSE

Capped(ch) ==
  {b \in [upserts : {[u \in Uids |-> IF u \in U THEN ch.changed[u] ELSE NoRow]
                        : U \in SUBSET Keys(ch.changed)},
          deletes : SUBSET ch.deleted,
          init : {HeldBack(ch)}] :
     /\ Cardinality(b.deletes) = Least(MaxEmit, Cardinality(ch.deleted))
     /\ Cardinality(Keys(b.upserts)) = MaxEmit - Cardinality(b.deletes)}

(* The batches one call of drain_capped(MaxEmit) may return ... *)
drain_capped(ch) == IF Fits(ch) THEN {TakeAll(ch)} ELSE Capped(ch)

(* Mutant: a capped drain takes the whole map and forgets the rest. *)
Remainder_DropsRest(ch, b) ==
  [ch EXCEPT !.changed = Empty, !.deleted = @ \ b.deletes, !.init = @ /\ ~b.init]

(* ... and what it leaves in the channel. *)
Remainder(ch, b) ==
  [ch EXCEPT !.changed = [u \in Uids |-> IF b.upserts[u] # NoRow THEN NoRow
                                         ELSE ch.changed[u]],
             !.deleted = @ \ b.deletes,
             !.init    = @ /\ ~b.init]

is_empty(b) == Keys(b.upserts) = {} /\ b.deletes = {} /\ ~b.init

-----------------------------------------------------------------------------
(* What a listener that holds table t shows once it has applied a batch:   *)
(* the upserts of the emitted array come before its deletes.               *)
Apply(t, b) ==
  [u \in Uids |-> IF u \in b.deletes THEN NoRow
                  ELSE IF b.upserts[u] # NoRow THEN b.upserts[u] ELSE t[u]]

(* The table a listener holding t will have once all of ch has reached it. *)
Caught(t, ch) ==
  [u \in Uids |-> IF ch.changed[u] # NoRow THEN ch.changed[u]
                  ELSE IF u \in ch.deleted THEN NoRow ELSE t[u]]
=============================================================================
