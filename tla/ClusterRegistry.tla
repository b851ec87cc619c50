--------------------------- MODULE ClusterRegistry ---------------------------
(***************************************************************************)
(* The registry of one cluster id: the cached entry, the single flight     *)
(* that lazy connects share, connect_context with its cancel, timeout,     *)
(* wedged-entry replacement and search index, the client lookup of the     *)
(* port-forwards, and the disconnects that race them all.                  *)
(*                                                                         *)
(* Entries and flights are numbered in the order they are made; 0 is none. *)
(* What an entry holds (watchers, forwarders, health, log streams) is the  *)
(* business of KindSlots, HealthMonitor and LogStream.                     *)
(***************************************************************************)
EXTENDS Integers, FiniteSets

CONSTANTS
  Connects,    \* connect_context calls
  Forwards,    \* current_client calls of port-forwards
  Drops,       \* drop_cluster_watchers calls: the operator leaves
  Evicts,      \* reconnect_cluster calls
  MaxEntries,  \* bound on the entries made
  MaxWedges    \* bound on how often health marks an entry unavailable

Callers == Connects \cup Forwards
Leavers == Drops \cup Evicts

ASSUME RegistryAssumption ==
  /\ MaxEntries \in Nat /\ MaxWedges \in Nat
  /\ IsFiniteSet(Callers) /\ IsFiniteSet(Leavers)
  /\ Connects \cap Forwards = {} /\ Drops \cap Evicts = {} /\ Callers \cap Leavers = {}

VARIABLES
  cached,   \* AppState.inner: the entry the id maps to
  made,     \* entries made so far
  entry,    \* per entry: unavailable, connect_probes_done, epoch it belongs to
  current,  \* SingleFlight.flights: the flight the id maps to
  flight,   \* per flight: cancelled, being run, its cell, epoch it started in
  call,     \* where each caller is, with the flight it joined and its entry
  leave,    \* where each disconnect or reconnect is
  index,    \* AppState.search_indices: the entry the index was opened for
  hist      \* history: how often remove_cluster ran; the entries made before the
            \* last disconnect ended; whether a connect was overtaken

vars == <<cached, made, entry, current, flight, call, leave, index, hist>>

Entries == 1..MaxEntries
Departures == 0..Cardinality(Leavers)
\* A caller starts a flight at most once, a port-forward twice.
Flights == 1..(Cardinality(Callers) + Cardinality(Forwards))
CallPCs == {"idle", "lookup", "miss", "wait", "connecting", "caching", "settled",
            "fresh", "probe", "insert", "claim", "unindex",
            "register", "replace", "done", "failed"}

TypeOK ==
  /\ cached \in 0..made /\ made \in 0..MaxEntries
  /\ entry \in [Entries -> [wedged : BOOLEAN, probes : BOOLEAN,
                            via : {"none", "lazy", "connect"}, epoch : Departures]]
  /\ current \in Flights \cup {0}
  /\ flight \in [Flights -> [cancelled : BOOLEAN, st : {"unused", "idle", "run", "ok", "err"},
                             val : 0..MaxEntries, epoch : Departures]]
  /\ call \in [Callers -> [pc : CallPCs, flight : Flights \cup {0},
                           entry : 0..MaxEntries, again : BOOLEAN]]
  /\ leave \in [Leavers -> {"idle", "unindex", "done"}]
  /\ index \in 0..MaxEntries
  /\ \A c \in Callers :
       /\ call[c].pc \in {"wait", "connecting", "caching", "settled"} =>
            call[c].flight # 0 /\ flight[call[c].flight].st # "unused"
       /\ call[c].pc \in {"probe", "claim", "unindex", "register", "replace"} =>
            call[c].entry # 0
  /\ hist \in [epoch : Departures, swept : 0..MaxEntries, raced : BOOLEAN]

NewEntry == [wedged |-> FALSE, probes |-> FALSE, via |-> "none", epoch |-> 0]
UnusedFlight == [cancelled |-> FALSE, st |-> "unused", val |-> 0, epoch |-> 0]

Init ==
  /\ cached = 0 /\ made = 0
  /\ entry = [e \in Entries |-> NewEntry]
  /\ current = 0
  /\ flight = [f \in Flights |-> UnusedFlight]
  /\ call = [c \in Callers |-> [pc |-> "idle", flight |-> 0, entry |-> 0,
                                again |-> FALSE]]
  /\ leave = [d \in Leavers |-> "idle"]
  /\ index = 0
  /\ hist = [epoch |-> 0, swept |-> 0, raced |-> FALSE]

At(c, pc) == call[c].pc = pc
Goto(c, pc) == call' = [call EXCEPT ![c].pc = pc]
Resting == {"idle", "done", "failed"}
\* A connect other than c is under way.
Connecting(c) == \E k \in Connects \ {c} : call[k].pc \notin Resting
Race(b) == hist' = [hist EXCEPT !.raced = @ \/ b]
-----------------------------------------------------------------------------
(* AppState::entry and SingleFlight::run, shared by all callers *)

\* What follows once the entry is known.
AfterEntry(c, e) ==
  IF c \in Connects THEN "probe"
  ELSE IF ~entry[e].wedged THEN "done"
  ELSE IF call[c].again THEN "failed" ELSE "replace"

\* A call that is not a connect begins with the lookup.
GetExisting(c) ==
  /\ At(c, "lookup") \/ (c \notin Connects /\ At(c, "idle"))
  /\ call' = IF cached # 0
             THEN [call EXCEPT ![c].entry = cached, ![c].pc = AfterEntry(c, cached)]
             ELSE [call EXCEPT ![c].pc = "miss"]
  /\ UNCHANGED <<cached, made, entry, current, flight, leave, index, hist>>

Join(c) ==
  /\ At(c, "miss")
  /\ IF current = 0
     THEN \E f \in Flights :
            /\ flight[f].st = "unused" /\ \A g \in 1..(f - 1) : flight[g].st # "unused"
            /\ current' = f
            /\ flight' = [flight EXCEPT ![f].st = "idle", ![f].epoch = hist.epoch]
     ELSE UNCHANGED <<current, flight>>
  /\ call' = [call EXCEPT ![c].pc = "wait", ![c].flight = current']
  /\ UNCHANGED <<cached, made, entry, leave, index, hist>>

\* OnceCell::get_or_init: one of those waiting runs the computation; when it is
\* dropped another takes over.
GetOrInit(c) ==
  /\ At(c, "wait") /\ flight[call[c].flight].st = "idle"
  /\ flight' = [flight EXCEPT ![call[c].flight].st = "run"]
  /\ Goto(c, "connecting")
  /\ UNCHANGED <<cached, made, entry, current, leave, index, hist>>

\* Whoever ran the computation goes on without an await: it cannot be dropped
\* before it has returned.
Settle(c, st, e) ==
  /\ flight' = [flight EXCEPT ![call[c].flight].st = st, ![call[c].flight].val = e]
  /\ Goto(c, "settled")

ConnectCluster(c) ==
  /\ At(c, "connecting")
  /\ \/ Goto(c, "caching") /\ flight' = flight
     \/ Settle(c, "err", 0)
  /\ UNCHANGED <<cached, made, entry, current, leave, index, hist>>

(* Mutant: a flight that lands after a disconnect caches its client. *)
RefusedNever(f) == FALSE
Refused(f) == flight[f].cancelled

CacheLazy(c) ==
  LET f == call[c].flight IN
  /\ At(c, "caching")
  /\ IF cached # 0 THEN Settle(c, "ok", cached) /\ UNCHANGED <<cached, made, entry>>
     ELSE IF Refused(f) THEN Settle(c, "err", 0) /\ UNCHANGED <<cached, made, entry>>
     ELSE /\ made < MaxEntries
          /\ made' = made + 1
          /\ cached' = made + 1
          /\ entry' = [entry EXCEPT ![made + 1] =
                         [NewEntry EXCEPT !.via = "lazy", !.epoch = flight[f].epoch]]
          /\ Settle(c, "ok", made + 1)
  /\ UNCHANGED <<current, leave, index, hist>>

(* Mutant: nobody clears the key. *)
ForgottenNever(f) == current
(* Mutant: whoever returns clears the key, also of a newer flight. *)
ForgottenAny(f) == 0
\* The key is forgotten only while it still maps to the flight that settled.
Forgotten(f) == IF current = f THEN 0 ELSE current

Return(c) ==
  LET f == call[c].flight IN
  /\ call[c].pc \in {"wait", "settled"} /\ flight[f].st \in {"ok", "err"}
  /\ current' = Forgotten(f)
  /\ call' = IF flight[f].st = "err"
             THEN [call EXCEPT ![c].pc = "failed"]
             ELSE [call EXCEPT ![c].entry = flight[f].val,
                               ![c].pc = AfterEntry(c, flight[f].val)]
  /\ UNCHANGED <<cached, made, entry, flight, leave, index, hist>>
-----------------------------------------------------------------------------
(* connect_context *)

\* A wedged entry is not probed through: a fresh client replaces it.
ConnectBegin(c) ==
  /\ c \in Connects /\ At(c, "idle")
  /\ Goto(c, IF cached # 0 /\ entry[cached].wedged THEN "fresh" ELSE "lookup")
  /\ UNCHANGED <<cached, made, entry, current, flight, leave, index, hist>>

\* The liveness probe passes, through the entry or the fresh client.
Probe(c) ==
  /\ c \in Connects
  /\ \/ At(c, "probe") /\ Goto(c, "claim")
     \/ At(c, "fresh") /\ Goto(c, "insert")
  /\ UNCHANGED <<cached, made, entry, current, flight, leave, index, hist>>

Working(c) == call[c].pc \in {"connecting", "caching"}

(* Mutant: the flight of a dropped worker stays taken. *)
HandedOverNever(c) == flight
\* The future is dropped: if it ran the flight, another caller may.
HandedOver(c) ==
  IF Working(c) THEN [flight EXCEPT ![call[c].flight].st = "idle"] ELSE flight

\* cancel_connect, the timeout, or a failed connect or probe.
ConnectAbort(c) ==
  /\ c \in Connects
  /\ call[c].pc \in {"lookup", "miss", "wait", "connecting", "caching", "fresh", "probe"}
  /\ flight' = HandedOver(c)
  /\ Goto(c, "failed")
  /\ UNCHANGED <<cached, made, entry, current, leave, index, hist>>

(* Mutant: whatever is cached wins, wedged or not. *)
ExistingWinsAlways == cached # 0
ExistingWins == cached # 0 /\ ~entry[cached].wedged

InsertConnected(c) ==
  /\ At(c, "insert")
  /\ IF ExistingWins
     THEN /\ call' = [call EXCEPT ![c].entry = cached, ![c].pc = "claim"]
          /\ UNCHANGED <<cached, made, entry, hist>>
     ELSE /\ made < MaxEntries
          /\ made' = made + 1
          /\ cached' = made + 1
          /\ entry' = [entry EXCEPT ![made + 1] =
                         [NewEntry EXCEPT !.via = "connect", !.epoch = hist.epoch]]
          /\ call' = [call EXCEPT ![c].entry = made + 1, ![c].pc = "claim"]
          /\ Race(cached # 0 /\ Connecting(c))
  /\ UNCHANGED <<current, flight, leave, index>>

ClaimConnectProbes(c) ==
  /\ At(c, "claim")
  /\ entry' = [entry EXCEPT ![call[c].entry].probes = TRUE]
  /\ Goto(c, IF entry[call[c].entry].probes THEN "done" ELSE "unindex")
  /\ UNCHANGED <<cached, made, current, flight, leave, index, hist>>

\* The old handle goes, then the file is opened; an index that does not open
\* leaves the cluster without search.
ReopenIndex(c) ==
  /\ At(c, "unindex")
  /\ index' = 0
  /\ \E pc \in {"register", "done"} : Goto(c, pc)
  /\ UNCHANGED <<cached, made, entry, current, flight, leave, hist>>

InsertSearchIndex(c) ==
  /\ At(c, "register")
  /\ index' = call[c].entry
  /\ Goto(c, "done")
  /\ UNCHANGED <<cached, made, entry, current, flight, leave, hist>>
-----------------------------------------------------------------------------
(* current_client *)

\* The wedged entry goes only while it is still the one in the map.
RemoveClusterIfSame(c) ==
  /\ At(c, "replace")
  /\ IF cached = call[c].entry
     THEN cached' = 0 /\ Race(Connecting(c) \/ current # 0)
     ELSE UNCHANGED <<cached, hist>>
  /\ call' = [call EXCEPT ![c].pc = "lookup", ![c].again = TRUE]
  /\ UNCHANGED <<made, entry, current, flight, leave, index>>
-----------------------------------------------------------------------------
(* Disconnect, reconnect and health *)

\* SingleFlight::cancel, under the map lock.
Cancelled ==
  IF current = 0 THEN flight ELSE [flight EXCEPT ![current].cancelled = TRUE]

RemoveCluster(d) ==
  /\ leave[d] = "idle"
  /\ current' = 0
  /\ flight' = Cancelled
  /\ cached' = 0
  /\ hist' = [hist EXCEPT !.epoch = @ + 1, !.raced = @ \/ Connecting(d)]
  /\ leave' = [leave EXCEPT ![d] = IF d \in Drops THEN "unindex" ELSE "done"]
  /\ UNCHANGED <<made, entry, call, index>>

(* Mutant: a disconnect leaves the index registered. *)
ClosedNot == index
\* drop_cluster_watchers closes the index and deletes its file.
Closed == 0

DropIndex(d) ==
  /\ leave[d] = "unindex"
  /\ index' = Closed
  /\ hist' = [hist EXCEPT !.swept = made,
                          !.raced = @ \/ cached # 0 \/ Connecting(d)]
  /\ leave' = [leave EXCEPT ![d] = "done"]
  /\ UNCHANGED <<cached, made, entry, current, flight, call>>

\* The health probe or a system resume marks the cached entry.
Wedge ==
  /\ cached # 0 /\ ~entry[cached].wedged
  /\ Cardinality({e \in Entries : entry[e].wedged}) < MaxWedges
  /\ entry' = [entry EXCEPT ![cached].wedged = TRUE]
  /\ UNCHANGED <<cached, made, current, flight, call, leave, index, hist>>

Step(c) ==
  \/ GetExisting(c) \/ Join(c) \/ GetOrInit(c) \/ ConnectCluster(c) \/ CacheLazy(c)
  \/ Return(c) \/ Probe(c) \/ InsertConnected(c)
  \/ ClaimConnectProbes(c) \/ ReopenIndex(c) \/ InsertSearchIndex(c)
  \/ RemoveClusterIfSame(c)

Next ==
  \/ \E c \in Callers : ConnectBegin(c) \/ Step(c) \/ ConnectAbort(c)
  \/ \E d \in Leavers : RemoveCluster(d) \/ DropIndex(d)
  \/ Wedge

Spec == Init /\ [][Next]_vars
-----------------------------------------------------------------------------
Quiet ==
  /\ \A c \in Callers : call[c].pc \in Resting
  /\ \A d \in Leavers : leave[d] \in {"idle", "done"}

(* A cluster the operator left stays left: an entry that a lazy connect cached
   belongs to a flight that started after the last remove_cluster, never to
   one that was under way when the operator disconnected (cache_lazy,
   SingleFlight::cancel under the map lock). *)
NoResurrection ==
  cached # 0 /\ entry[cached].via = "lazy" => entry[cached].epoch = hist.epoch

(* At most one lazy connect of the cluster is made at a time: two callers that
   both connect belong to flights of which one was cancelled (SingleFlight). *)
OneConnectAtATime ==
  \A c, d \in Callers :
    /\ c # d
    /\ Working(c) /\ Working(d)
    => flight[call[c].flight].cancelled \/ flight[call[d].flight].cancelled

(* A settled flight is not an answer for later callers: when nothing is under
   way the id maps to no flight with a result, so an error, or an entry that
   left the map since, is not handed out again (SingleFlight::run). *)
NothingIsCachedInAFlight ==
  Quiet /\ current # 0 => flight[current].st = "idle"

(* A fresh client that passed the probe is not thrown away for a dead one: no
   connect goes on with an entry that was already unavailable when it was put
   into the map or chosen there (insert_connected, "a wedged entry never
   wins"). *)
WedgedNeverWins ==
  [][\A c \in Connects :
       At(c, "insert") /\ call'[c].pc # "insert" => ~entry'[call'[c].entry].wedged]_vars

(* The index follows the connection: unless a disconnect or a replacement
   overtook a connect under way, a registered index belongs to an entry
   made after the operator last left, and to the cached one as soon as that
   was connected and not only used (connect_context, drop_cluster_watchers). *)
IndexFollowsConnection ==
  Quiet /\ ~hist.raced /\ index # 0 =>
    /\ index > hist.swept
    /\ cached # 0 /\ entry[cached].probes => index = cached

(* Nobody waits for a flight that nobody runs: whoever of those sharing it is
   cancelled or times out, a flight marked as running has a caller behind it,
   so that another one can take it over (OnceCell::get_or_init). *)
WaitersHaveAWorker ==
  \A c \in Callers :
    At(c, "wait") /\ flight[call[c].flight].st = "run" =>
      \E d \in Callers : Working(d) /\ call[d].flight = call[c].flight

(* A shared flight does what it is for: one connect at a time, waiters that are
   served, no answer handed out after its time (SingleFlight::run). *)
FlightsAreSound ==
  TypeOK /\ OneConnectAtATime /\ NothingIsCachedInAFlight /\ WaitersHaveAWorker

(* search_index_for's contract: there is no index of a cluster that is not
   connected, when no call is under way. *)
IndexOnlyWhenConnected == Quiet /\ index # 0 => cached # 0
=============================================================================
