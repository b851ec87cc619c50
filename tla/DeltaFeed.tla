----------------------------- MODULE DeltaFeed -----------------------------
(***************************************************************************)
(* What a resource pipeline promises the listener behind it, without tasks,*)
(* channels or batches: a source table, a replica that is brought up to    *)
(* date in instalments, and a "sync complete" mark that is only handed out *)
(* together with the last missing row.                                     *)
(*                                                                         *)
(* An instalment takes, for the uids it covers, the value the source has   *)
(* NOW.  So the replica never shows a value the source did not have, never *)
(* goes back to an older value, and never misses a change for good; but it *)
(* may skip values (coalescing).                                           *)
(***************************************************************************)
CONSTANTS Uids, Rows, NoRow

VARIABLES source,   \* uid -> the last row published
          replica,  \* uid -> the last row handed to the listener
          done,     \* has the listener been told the initial sync is over?
          open      \* can rows still be published?

vars == <<source, replica, done, open>>

Init ==
  /\ source = [u \in Uids |-> NoRow]
  /\ replica = source
  /\ done = FALSE /\ open = TRUE

Publish(u, r) ==
  /\ open
  /\ source' = [source EXCEPT ![u] = r]
  /\ UNCHANGED <<replica, done, open>>

Deliver(S) ==
  /\ replica' = [u \in Uids |-> IF u \in S THEN source[u] ELSE replica[u]]
  /\ done' \in {done, TRUE}
  /\ done' # done => replica' = source
  /\ UNCHANGED <<source, open>>

Close ==
  /\ open' = FALSE
  /\ UNCHANGED <<source, replica, done>>

Next ==
  \/ \E u \in Uids, r \in Rows \cup {NoRow} : Publish(u, r)
  \/ \E S \in SUBSET Uids : Deliver(S)
  \/ Close

Spec == Init /\ [][Next]_vars
=============================================================================
