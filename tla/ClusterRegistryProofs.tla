----------------------- MODULE ClusterRegistryProofs -----------------------
(***************************************************************************)
(* Proofs, for any number of connects, port-forwards and disconnects, that *)
(* a cluster the operator left is not resurrected by a late connect, that  *)
(* the shared flight does what it is for, that a wedged entry never wins,  *)
(* and that the search index follows the connection.                       *)
(***************************************************************************)
EXTENDS ClusterRegistry, FiniteSetTheorems, TLAPS

-----------------------------------------------------------------------------
(* The types, one variable at a time. *)
EntryType == [Entries -> [wedged : BOOLEAN, probes : BOOLEAN,
                          via : {"none", "lazy", "connect"}, epoch : Departures]]
FlightType == [Flights -> [cancelled : BOOLEAN, st : {"unused", "idle", "run", "ok", "err"},
                           val : 0..MaxEntries, epoch : Departures]]
CallType == [Callers -> [pc : CallPCs, flight : Flights \cup {0},
                         entry : 0..MaxEntries, again : BOOLEAN]]
HistType == [epoch : Departures, swept : 0..MaxEntries, raced : BOOLEAN]

Types ==
  /\ cached \in 0..made /\ made \in 0..MaxEntries
  /\ entry \in EntryType /\ current \in Flights \cup {0} /\ flight \in FlightType
  /\ call \in CallType /\ leave \in [Leavers -> {"idle", "unindex", "done"}]
  /\ index \in 0..MaxEntries /\ hist \in HistType

(* Where a caller with a flight, or with an entry, may be. *)
HasFlight == {"wait", "connecting", "caching", "settled"}
HasEntry == {"probe", "claim", "unindex", "register", "replace"}

Placed ==
  \A c \in Callers :
    /\ call[c].pc \in HasFlight => call[c].flight # 0 /\ flight[call[c].flight].st # "unused"
    /\ call[c].pc \in HasEntry => call[c].entry # 0
    /\ call[c].pc \in {"fresh", "probe", "insert", "claim", "unindex", "register"} =>
         c \in Connects

(* A flight that has not settled is the current one, unless cancelled; the *)
(* current one is of the present epoch.                                    *)
Tracked ==
  /\ \A f \in Flights :
       flight[f].st \in {"idle", "run"} /\ ~flight[f].cancelled => f = current
  /\ current # 0 => /\ flight[current].st # "unused" /\ ~flight[current].cancelled
                    /\ flight[current].epoch = hist.epoch
  /\ \A f \in Flights : flight[f].st = "ok" => flight[f].val # 0
  /\ \A f \in Flights : flight[f].st = "unused" => ~flight[f].cancelled

(* A flight is being run by exactly one caller, or by none. *)
Workers ==
  /\ \A c \in Callers : Working(c) => flight[call[c].flight].st = "run"
  /\ \A c, d \in Callers :
       Working(c) /\ Working(d) /\ call[c].flight = call[d].flight => c = d
  /\ \A f \in Flights :
       flight[f].st = "run" => \E c \in Callers : Working(c) /\ call[c].flight = f

(* A current flight that has settled will be forgotten by who ran it. *)
Settler ==
  current # 0 /\ flight[current].st \in {"ok", "err"} =>
    \E c \in Callers : At(c, "settled") /\ call[c].flight = current

Departed ==
  /\ hist.epoch = Cardinality({d \in Leavers : leave[d] # "idle"})
  /\ hist.swept <= made

(* As long as no connect was overtaken, whoever is on the way to register  *)
(* an index does so for the cached entry.                                  *)
OnCourse(c) ==
  /\ At(c, "miss") /\ current # 0 /\ flight[current].st = "ok" => flight[current].val = cached
  /\ call[c].pc \in {"wait", "settled"} /\ flight[call[c].flight].st = "ok" =>
       flight[call[c].flight].val = cached
  /\ call[c].pc \in {"probe", "claim", "unindex", "register"} => call[c].entry = cached

Followed ==
  /\ cached # 0 => cached > hist.swept
  /\ current # 0 /\ flight[current].st = "ok" => cached # 0
  /\ \A c \in Connects : OnCourse(c)
  /\ index # 0 => index > hist.swept
  /\ index # 0 /\ cached # 0 /\ entry[cached].probes /\ index # cached =>
       \E c \in Connects : At(c, "unindex")

IInv ==
  /\ Types /\ Placed /\ Tracked /\ Workers /\ Settler /\ Departed /\ NoResurrection
  /\ ~hist.raced => Followed

-----------------------------------------------------------------------------
(* Flight and entry numbers are positive. *)
LEMMA Numbers ==
  /\ Cardinality(Leavers) \in Nat
  /\ Flights \subseteq Nat \ {0}
  /\ Entries \subseteq Nat \ {0}
<1>1. IsFiniteSet(Callers) /\ IsFiniteSet(Leavers) /\ IsFiniteSet(Forwards)
  BY RegistryAssumption, FS_Subset DEF Callers
<1>2. Cardinality(Callers) \in Nat /\ Cardinality(Forwards) \in Nat /\ Cardinality(Leavers) \in Nat
  BY <1>1, FS_CardinalityType
<1> QED
  BY <1>2, RegistryAssumption DEF Flights, Entries

LEMMA TypesIsTypeOK == Types /\ Placed => TypeOK
  BY DEF Types, Placed, TypeOK, EntryType, FlightType, CallType, HistType, HasFlight, HasEntry

LEMMA InitIInv == Init => IInv
<1> SUFFICES ASSUME Init PROVE IInv
  OBVIOUS
<1>1. 0 \in Departures /\ 0 \in 0..MaxEntries
  BY Numbers, RegistryAssumption DEF Departures
<1>2. Types
  <2>1. entry \in EntryType
    BY <1>1 DEF Init, EntryType, NewEntry
  <2>2. flight \in FlightType
    BY <1>1 DEF Init, FlightType, UnusedFlight
  <2>3. call \in CallType
    BY <1>1 DEF Init, CallType, CallPCs
  <2>4. hist \in HistType
    BY <1>1 DEF Init, HistType
  <2> QED
    BY <1>1, <2>1, <2>2, <2>3, <2>4 DEF Init, Types
<1>3. \A c \in Callers : call[c].pc = "idle"
  BY DEF Init
<1>4. \A f \in Flights : flight[f].st = "unused" /\ ~flight[f].cancelled
  BY DEF Init, UnusedFlight
<1>5. Placed
  BY <1>3 DEF Placed, HasFlight, HasEntry
<1>6. Tracked /\ Workers /\ Settler
  BY <1>3, <1>4 DEF Init, Tracked, Workers, Settler, Working
<1>7. Departed
  <2>1. {d \in Leavers : leave[d] # "idle"} = {}
    BY DEF Init
  <2> QED
    BY <2>1, FS_EmptySet DEF Init, Departed
<1>8. Followed /\ NoResurrection
  BY <1>3 DEF Init, Followed, OnCourse, NoResurrection, At, Callers
<1> QED
  BY <1>2, <1>5, <1>6, <1>7, <1>8 DEF IInv

-----------------------------------------------------------------------------
(* One caller moves; the others stay where they are. *)
MovesTo(c, pc) ==
  /\ call'[c].pc = pc
  /\ call'[c].flight = call[c].flight
  /\ \A d \in Callers \ {c} : call'[d] = call[d]

LEMMA MovesByPC ==
  ASSUME Types, NEW c \in Callers, NEW pc \in CallPCs, call' = [call EXCEPT ![c].pc = pc]
  PROVE  MovesTo(c, pc) /\ call' \in CallType /\ call'[c].entry = call[c].entry
  BY DEF Types, CallType, MovesTo

LEMMA MovesByEntry ==
  ASSUME Types, NEW c \in Callers, NEW pc \in CallPCs, NEW e \in 0..MaxEntries,
         call' = [call EXCEPT ![c].entry = e, ![c].pc = pc]
  PROVE  MovesTo(c, pc) /\ call' \in CallType /\ call'[c].entry = e
  BY DEF Types, CallType, MovesTo

(* A caller that neither runs a flight nor has settled one, and moves out  *)
(* of it, leaves the bookkeeping alone.                                    *)
LEMMA OutsideFlights ==
  ASSUME IInv, NEW c \in Callers, NEW pc \in CallPCs \ HasFlight, MovesTo(c, pc),
         call[c].pc \notin HasFlight \ {"wait"}, UNCHANGED <<current, flight>>,
         hist'.epoch = hist.epoch
  PROVE  /\ Tracked' /\ Workers' /\ Settler'
         /\ \A d \in Callers : call'[d].pc \in HasFlight =>
              call'[d].flight # 0 /\ flight'[call'[d].flight].st # "unused"
<1> USE DEF IInv, MovesTo, HasFlight
<1>1. Tracked'
  BY DEF Tracked
<1>2. \A d \in Callers : /\ call'[d].flight = call[d].flight
                         /\ call'[d].pc \in HasFlight => call'[d].pc = call[d].pc
                         /\ call[d].pc \in HasFlight \ {"wait"} => call'[d].pc = call[d].pc
  OBVIOUS
<1>3. Workers'
  BY <1>2 DEF Workers, Working
<1>4. Settler'
  BY <1>2 DEF Settler, At
<1> QED
  BY <1>1, <1>2, <1>3, <1>4 DEF Placed

(* The connection stays what it is: only the mover has to be on course. *)
LEMMA SameConnection ==
  ASSUME Followed, NEW c \in Callers, NEW pc, MovesTo(c, pc), call[c].pc # "unindex",
         UNCHANGED <<cached, entry, current, flight, index>>, hist'.swept = hist.swept,
         c \in Connects => OnCourse(c)'
  PROVE  Followed'
<1> USE DEF MovesTo, Callers
<1>1. \A k \in Connects : OnCourse(k)'
  BY DEF Followed, OnCourse, At
<1>2. \A k \in Connects : At(k, "unindex") => At(k, "unindex")'
  BY DEF At
<1> QED
  BY <1>1, <1>2 DEF Followed

-----------------------------------------------------------------------------
(* The caller's steps outside the flight. *)
LEMMA GetExistingStep ==
  ASSUME IInv, NEW c \in Callers, GetExisting(c)
  PROVE  IInv'
<1>1. Types /\ call[c].pc \in {"lookup", "idle"} /\ (call[c].pc = "idle" => c \notin Connects)
  BY DEF IInv, GetExisting, At
<1>2. UNCHANGED <<cached, made, entry, current, flight, leave, index, hist>>
  BY DEF GetExisting
<1>3. PICK pc \in {"miss", "probe", "done", "failed", "replace"} :
        /\ MovesTo(c, pc) /\ call' \in CallType
        /\ pc = "miss" => cached = 0
        /\ pc \in HasEntry => call'[c].entry = cached /\ cached # 0
        /\ pc = "probe" => c \in Connects
  <2>1. CASE cached # 0
    <3>1. AfterEntry(c, cached) \in {"probe", "done", "failed", "replace"}
          /\ (AfterEntry(c, cached) = "probe" => c \in Connects)
      BY DEF AfterEntry
    <3>2. cached \in 0..MaxEntries
      BY <1>1, RegistryAssumption DEF Types
    <3>3. call' = [call EXCEPT ![c].entry = cached, ![c].pc = AfterEntry(c, cached)]
      BY <2>1 DEF GetExisting
    <3> QED
      BY <1>1, <2>1, <3>1, <3>2, <3>3, MovesByEntry DEF CallPCs
  <2>2. CASE cached = 0
    <3>1. call' = [call EXCEPT ![c].pc = "miss"]
      BY <2>2 DEF GetExisting
    <3> QED
      BY <1>1, <2>2, <3>1, MovesByPC DEF CallPCs, HasEntry
  <2> QED
    BY <2>1, <2>2
<1>4. Types'
  BY <1>1, <1>2, <1>3 DEF Types
<1>5. /\ Tracked' /\ Workers' /\ Settler'
      /\ \A d \in Callers : call'[d].pc \in HasFlight =>
           call'[d].flight # 0 /\ flight'[call'[d].flight].st # "unused"
  BY <1>1, <1>2, <1>3, OutsideFlights DEF HasFlight, CallPCs
<1>6. Placed'
  BY <1>3, <1>5 DEF IInv, Placed, MovesTo, HasEntry
<1>7. Departed' /\ NoResurrection'
  BY <1>2 DEF IInv, Departed, NoResurrection
<1>8. ASSUME ~hist.raced PROVE Followed'
  <2>1. Followed /\ hist' = hist
    BY <1>2, <1>8 DEF IInv
  <2>2. OnCourse(c)'
    BY <1>2, <1>3, <2>1 DEF OnCourse, At, MovesTo, Followed, HasEntry
  <2> QED
    BY <1>1, <1>2, <1>3, <2>1, <2>2, SameConnection
<1> QED
  BY <1>2, <1>4, <1>5, <1>6, <1>7, <1>8 DEF IInv

LEMMA ConnectMoves ==
  ASSUME IInv, NEW c \in Callers, ConnectBegin(c) \/ Probe(c)
  PROVE  IInv'
<1>1. Types /\ c \in Connects /\ UNCHANGED <<cached, made, entry, current, flight, leave, index, hist>>
  BY DEF IInv, ConnectBegin, Probe
<1>2. PICK pc \in {"fresh", "lookup", "claim", "insert"} :
        /\ call' = [call EXCEPT ![c].pc = pc] /\ call[c].pc \in {"idle", "probe", "fresh"}
        /\ pc = "claim" => call[c].pc = "probe"
  BY DEF ConnectBegin, Probe, Goto, At
<1>3. MovesTo(c, pc) /\ call' \in CallType /\ call'[c].entry = call[c].entry
  BY <1>1, <1>2, MovesByPC DEF CallPCs
<1>4. Types'
  BY <1>1, <1>3 DEF Types
<1>5. /\ Tracked' /\ Workers' /\ Settler'
      /\ \A d \in Callers : call'[d].pc \in HasFlight =>
           call'[d].flight # 0 /\ flight'[call'[d].flight].st # "unused"
  BY <1>1, <1>2, <1>3, OutsideFlights DEF HasFlight, CallPCs
<1>6. Placed'
  BY <1>1, <1>2, <1>3, <1>5 DEF IInv, Placed, MovesTo, HasEntry
<1>7. Departed' /\ NoResurrection'
  BY <1>1 DEF IInv, Departed, NoResurrection
<1>8. ASSUME ~hist.raced PROVE Followed'
  <2>1. Followed /\ hist' = hist
    BY <1>1, <1>8 DEF IInv
  <2>2. OnCourse(c)'
    BY <1>1, <1>2, <1>3, <2>1 DEF OnCourse, At, MovesTo, Followed
  <2> QED
    BY <1>1, <1>2, <1>3, <2>1, <2>2, SameConnection
<1> QED
  BY <1>1, <1>4, <1>5, <1>6, <1>7, <1>8 DEF IInv

(* A function changed at one argument. *)
LEMMA ChangedAt ==
  ASSUME NEW S, NEW T, NEW fn \in [S -> T], NEW x \in S, NEW v \in T
  PROVE  /\ [fn EXCEPT ![x] = v] \in [S -> T]
         /\ [fn EXCEPT ![x] = v][x] = v
         /\ \A y \in S \ {x} : [fn EXCEPT ![x] = v][y] = fn[y]
  OBVIOUS

(* A new entry, as the cached one. *)
LEMMA NewEntryFacts ==
  ASSUME Types, made < MaxEntries, NEW via \in {"lazy", "connect"}, NEW ep \in Departures,
         made' = made + 1, cached' = made + 1,
         entry' = [entry EXCEPT ![made + 1] = [NewEntry EXCEPT !.via = via, !.epoch = ep]]
  PROVE  /\ cached' \in 0..made' /\ made' \in 0..MaxEntries /\ cached' # 0
         /\ entry' \in EntryType
         /\ ~entry'[cached'].wedged /\ ~entry'[cached'].probes
         /\ entry'[cached'].via = via /\ entry'[cached'].epoch = ep
<1> DEFINE new == [NewEntry EXCEPT !.via = via, !.epoch = ep]
<1>1. made + 1 \in Entries /\ cached' \in 0..made' /\ made' \in 0..MaxEntries /\ cached' # 0
  BY RegistryAssumption DEF Types, Entries
<1>2. /\ new \in [wedged : BOOLEAN, probes : BOOLEAN,
                  via : {"none", "lazy", "connect"}, epoch : Departures]
      /\ ~new.wedged /\ ~new.probes /\ new.via = via /\ new.epoch = ep
  BY DEF NewEntry
<1> HIDE DEF new
<1>3. entry' = [entry EXCEPT ![made + 1] = new]
  BY DEF new
<1>4. entry' \in EntryType /\ entry'[made + 1] = new
  <2>1. entry \in EntryType
    BY DEF Types
  <2> HIDE DEF Types
  <2>2. [entry EXCEPT ![made + 1] = new] \in EntryType /\ [entry EXCEPT ![made + 1] = new][made + 1] = new
    BY <1>1, <1>2, <2>1, ChangedAt DEF EntryType
  <2> QED
    BY <1>3, <2>2
<1> QED
  BY <1>1, <1>2, <1>4

LEMMA InsertConnectedStep ==
  ASSUME IInv, NEW c \in Callers, InsertConnected(c)
  PROVE  IInv'
<1>1. Types /\ Placed /\ call[c].pc = "insert" /\ UNCHANGED <<current, flight, leave, index>>
  BY DEF IInv, InsertConnected, At
<1>2. c \in Connects
  BY <1>1 DEF Placed
<1>3. CASE ExistingWins
  <2>1. cached # 0 /\ UNCHANGED <<cached, made, entry, hist>>
    BY <1>3 DEF InsertConnected, ExistingWins
  <2>2. MovesTo(c, "claim") /\ call' \in CallType /\ call'[c].entry = cached
    <3>1. cached \in 0..MaxEntries /\ call' = [call EXCEPT ![c].entry = cached, ![c].pc = "claim"]
      BY <1>1, <1>3, RegistryAssumption DEF InsertConnected, Types
    <3> QED
      BY <1>1, <3>1, MovesByEntry DEF CallPCs
  <2>3. Types'
    BY <1>1, <2>1, <2>2 DEF Types
  <2>4. /\ Tracked' /\ Workers' /\ Settler'
        /\ \A d \in Callers : call'[d].pc \in HasFlight =>
             call'[d].flight # 0 /\ flight'[call'[d].flight].st # "unused"
    BY <1>1, <2>1, <2>2, OutsideFlights DEF HasFlight, CallPCs
  <2>5. Placed'
    BY <1>1, <1>2, <2>1, <2>2, <2>4 DEF Placed, MovesTo, HasEntry
  <2>6. Departed' /\ NoResurrection'
    BY <1>1, <2>1 DEF IInv, Departed, NoResurrection
  <2>7. ASSUME ~hist.raced PROVE Followed'
    <3>1. OnCourse(c)'
      BY <2>1, <2>2 DEF OnCourse, At, MovesTo
    <3> QED
      BY <1>1, <2>1, <2>2, <2>7, <3>1, SameConnection DEF IInv
  <2> QED
    BY <2>1, <2>3, <2>4, <2>5, <2>6, <2>7 DEF IInv
<1>4. CASE ~ExistingWins
  <2>1. /\ made < MaxEntries /\ made' = made + 1 /\ cached' = made + 1
        /\ entry' = [entry EXCEPT ![made + 1] =
                       [NewEntry EXCEPT !.via = "connect", !.epoch = hist.epoch]]
        /\ call' = [call EXCEPT ![c].entry = made + 1, ![c].pc = "claim"]
        /\ hist' = [hist EXCEPT !.raced = @ \/ (cached # 0 /\ Connecting(c))]
    BY <1>4 DEF InsertConnected, Race
  <2>2. hist.epoch \in Departures
    BY <1>1 DEF Types, HistType
  <2>3. /\ cached' \in 0..made' /\ made' \in 0..MaxEntries /\ cached' # 0
        /\ entry' \in EntryType /\ ~entry'[cached'].probes /\ entry'[cached'].via = "connect"
    BY <1>1, <2>1, <2>2, NewEntryFacts
  <2>4. MovesTo(c, "claim") /\ call' \in CallType /\ call'[c].entry = cached'
    <3>1. made + 1 \in 0..MaxEntries
      BY <2>1, <2>3
    <3> QED
      BY <1>1, <2>1, <3>1, MovesByEntry DEF CallPCs
  <2>5. /\ hist' \in HistType /\ hist'.epoch = hist.epoch /\ hist'.swept = hist.swept
        /\ hist'.raced = (hist.raced \/ (cached # 0 /\ Connecting(c)))
    BY <1>1, <2>1 DEF Types, HistType
  <2>6. Types'
    BY <1>1, <2>3, <2>4, <2>5 DEF Types
  <2>7. /\ Tracked' /\ Workers' /\ Settler'
        /\ \A d \in Callers : call'[d].pc \in HasFlight =>
             call'[d].flight # 0 /\ flight'[call'[d].flight].st # "unused"
    BY <1>1, <2>4, <2>5, OutsideFlights DEF HasFlight, CallPCs
  <2>8. Placed'
    BY <1>1, <1>2, <2>3, <2>4, <2>7 DEF Placed, MovesTo, HasEntry
  <2>9. hist.swept <= made /\ hist.swept \in Nat /\ made \in Nat
    BY <1>1, RegistryAssumption DEF IInv, Departed, Types, HistType
  <2>10. Departed' /\ NoResurrection'
    BY <1>1, <2>1, <2>3, <2>5, <2>9 DEF IInv, Departed, NoResurrection
  <2>11. ASSUME ~hist'.raced PROVE Followed'
    <3>1. Followed /\ (cached = 0 \/ ~Connecting(c))
      BY <2>5, <2>11 DEF IInv
    <3>2. ASSUME NEW k \in Connects PROVE OnCourse(k)'
      <4>1. CASE k = c
        BY <2>4, <4>1 DEF OnCourse, At, MovesTo
      <4>2. CASE k # c
        <5>1. call'[k] = call[k] /\ k \in Callers
          BY <2>4, <4>2 DEF MovesTo, Callers
        <5>2. CASE cached = 0
          <6>1. OnCourse(k) /\ ~(current # 0 /\ flight[current].st = "ok")
            BY <3>1, <5>2 DEF Followed
          <6>2. call[k].pc \in {"wait", "settled"} /\ flight[call[k].flight].st = "ok" =>
                  flight[call[k].flight].val # 0
            BY <1>1, <5>1 DEF IInv, Placed, HasFlight, Tracked, Types, CallType
          <6>3. call[k].pc \notin {"probe", "claim", "unindex", "register"}
            BY <1>1, <5>1, <5>2, <6>1 DEF OnCourse, Placed, HasEntry
          <6> QED
            BY <1>1, <5>1, <5>2, <6>1, <6>2, <6>3 DEF OnCourse, At
        <5>3. CASE ~Connecting(c)
          BY <4>2, <5>1, <5>3 DEF Connecting, Resting, OnCourse, At
        <5> QED
          BY <3>1, <5>2, <5>3
      <4> QED
        BY <4>1, <4>2
    <3> QED
      BY <1>1, <2>1, <2>3, <2>5, <2>9, <3>1, <3>2 DEF Followed
  <2> QED
    BY <2>6, <2>7, <2>8, <2>10, <2>11 DEF IInv
<1> QED
  BY <1>3, <1>4

LEMMA ClaimStep ==
  ASSUME IInv, NEW c \in Callers, ClaimConnectProbes(c)
  PROVE  IInv'
<1> DEFINE e == call[c].entry
           pc == IF entry[e].probes THEN "done" ELSE "unindex"
<1>1. /\ Types /\ Placed /\ call[c].pc = "claim"
      /\ UNCHANGED <<cached, made, current, flight, leave, index, hist>>
      /\ entry' = [entry EXCEPT ![e].probes = TRUE] /\ call' = [call EXCEPT ![c].pc = pc]
  BY DEF IInv, ClaimConnectProbes, At, Goto
<1>2. c \in Connects /\ e \in Entries
  BY <1>1, RegistryAssumption DEF Placed, HasEntry, Types, CallType, Entries
<1>3. /\ entry' \in EntryType
      /\ \A x \in Entries : /\ entry'[x].via = entry[x].via /\ entry'[x].epoch = entry[x].epoch
                            /\ x # e => entry'[x] = entry[x]
  BY <1>1, <1>2 DEF Types, EntryType
<1>4. MovesTo(c, pc) /\ call' \in CallType /\ call'[c].entry = e
  BY <1>1, MovesByPC DEF CallPCs
<1>5. Types'
  BY <1>1, <1>3, <1>4 DEF Types
<1>6. /\ Tracked' /\ Workers' /\ Settler'
      /\ \A d \in Callers : call'[d].pc \in HasFlight =>
           call'[d].flight # 0 /\ flight'[call'[d].flight].st # "unused"
  BY <1>1, <1>4, OutsideFlights DEF HasFlight, CallPCs
<1>7. Placed'
  BY <1>1, <1>2, <1>4, <1>6 DEF Placed, MovesTo, HasEntry
<1>8. cached # 0 => cached \in Entries
  BY <1>1, RegistryAssumption DEF Types, Entries
<1>9. Departed' /\ NoResurrection'
  BY <1>1, <1>3, <1>8 DEF IInv, Departed, NoResurrection
<1>10. ASSUME ~hist.raced PROVE Followed'
  <2>1. Followed
    BY <1>10 DEF IInv
  <2>2. OnCourse(c)'
    BY <1>1, <1>2, <1>4, <2>1 DEF Followed, OnCourse, At, MovesTo
  <2>3. ASSUME NEW k \in Connects PROVE OnCourse(k)'
    <3>1. CASE k # c
      <4>1. call'[k] = call[k] /\ OnCourse(k)
        BY <1>4, <2>1, <3>1 DEF MovesTo, Callers, Followed
      <4> QED
        BY <1>1, <4>1 DEF OnCourse, At
    <3> QED
      BY <2>2, <3>1
  <2>4. ASSUME index # 0, cached # 0, entry'[cached].probes, index # cached
        PROVE  \E k \in Connects : At(k, "unindex")'
    <3>1. CASE entry[cached].probes
      <4>1. PICK k \in Connects : At(k, "unindex")
        BY <2>1, <2>4, <3>1 DEF Followed
      <4>2. k # c /\ call'[k] = call[k]
        BY <1>1, <1>4, <4>1 DEF At, MovesTo, Callers
      <4> QED
        BY <4>1, <4>2 DEF At
    <3>2. CASE ~entry[cached].probes
      <4>1. cached = e
        BY <1>3, <1>8, <2>4, <3>2
      <4> QED
        BY <1>2, <1>4, <3>2, <4>1 DEF At, MovesTo
    <3> QED
      BY <3>1, <3>2
  <2> QED
    BY <1>1, <2>1, <2>3, <2>4 DEF Followed
<1> QED
  BY <1>1, <1>5, <1>6, <1>7, <1>9, <1>10 DEF IInv

(* The old index goes, the new one is registered. *)
LEMMA IndexStep ==
  ASSUME IInv, NEW c \in Callers, ReopenIndex(c) \/ InsertSearchIndex(c)
  PROVE  IInv'
<1>1. /\ Types /\ Placed /\ call[c].pc \in {"unindex", "register"}
      /\ UNCHANGED <<cached, made, entry, current, flight, leave, hist>>
      /\ index' \in {0, call[c].entry}
      /\ index' # 0 => call[c].pc = "register"
  BY DEF IInv, ReopenIndex, InsertSearchIndex, At
<1>2. PICK pc \in {"register", "done"} :
        call' = [call EXCEPT ![c].pc = pc] /\ (pc = "register" => index' = 0)
  BY DEF ReopenIndex, InsertSearchIndex, Goto
<1>3. c \in Connects /\ call[c].entry \in 0..MaxEntries /\ call[c].entry # 0
  BY <1>1 DEF Placed, Types, CallType, HasEntry
<1>4. MovesTo(c, pc) /\ call' \in CallType /\ call'[c].entry = call[c].entry
  BY <1>1, <1>2, MovesByPC DEF CallPCs
<1>5. Types'
  <2>1. index' \in 0..MaxEntries
    BY <1>1, <1>3, RegistryAssumption
  <2> QED
    BY <1>1, <1>4, <2>1 DEF Types
<1>6. /\ Tracked' /\ Workers' /\ Settler'
      /\ \A d \in Callers : call'[d].pc \in HasFlight =>
           call'[d].flight # 0 /\ flight'[call'[d].flight].st # "unused"
  BY <1>1, <1>4, OutsideFlights DEF HasFlight, CallPCs
<1>7. Placed'
  BY <1>1, <1>3, <1>4, <1>6 DEF Placed, MovesTo, HasEntry
<1>8. Departed' /\ NoResurrection'
  BY <1>1 DEF IInv, Departed, NoResurrection
<1>9. ASSUME ~hist.raced PROVE Followed'
  <2>1. Followed
    BY <1>9 DEF IInv
  <2>2. call[c].entry = cached
    BY <1>1, <1>3, <2>1 DEF Followed, OnCourse
  <2>3. ASSUME NEW k \in Connects PROVE OnCourse(k)'
    BY <1>1, <1>4, <2>1, <2>2 DEF Followed, OnCourse, At, MovesTo, Callers
  <2> QED
    BY <1>1, <2>1, <2>2, <2>3 DEF Followed
<1> QED
  BY <1>1, <1>5, <1>6, <1>7, <1>8, <1>9 DEF IInv

(* A port-forward's client lookup drops the wedged entry it was handed. *)
LEMMA RemoveIfSameStep ==
  ASSUME IInv, NEW c \in Callers, RemoveClusterIfSame(c)
  PROVE  IInv'
<1>1. /\ Types /\ Placed /\ call[c].pc = "replace"
      /\ UNCHANGED <<made, entry, current, flight, leave, index>>
      /\ call' = [call EXCEPT ![c].pc = "lookup", ![c].again = TRUE]
  BY DEF IInv, RemoveClusterIfSame, At
<1>2. MovesTo(c, "lookup") /\ call' \in CallType
  <2>1. call \in CallType
    BY <1>1 DEF Types
  <2>2. call' = [call EXCEPT ![c] = [call[c] EXCEPT !.pc = "lookup", !.again = TRUE]]
    BY <1>1, <2>1 DEF CallType
  <2>3. "lookup" \in CallPCs
    BY DEF CallPCs
  <2>4. DOMAIN call = Callers /\ call[c] \in [pc : CallPCs, flight : Flights \cup {0},
                                            entry : 0..MaxEntries, again : BOOLEAN]
    BY <2>1 DEF CallType
  <2>5. DOMAIN call' = Callers /\ \A d \in Callers \ {c} : call'[d] = call[d]
    BY <2>2, <2>4
  <2>6. call'[c] = [call[c] EXCEPT !.pc = "lookup", !.again = TRUE]
    BY <2>2, <2>4
  <2>7. /\ call'[c] \in [pc : CallPCs, flight : Flights \cup {0},
                         entry : 0..MaxEntries, again : BOOLEAN]
        /\ call'[c].pc = "lookup" /\ call'[c].flight = call[c].flight
    BY <2>3, <2>4, <2>6
  <2>8. MovesTo(c, "lookup")
    BY <2>5, <2>7 DEF MovesTo
  <2>9. call' \in CallType
    BY <2>1, <2>2, <2>5, <2>7 DEF CallType
  <2> QED
    BY <2>8, <2>9
<1>3. /\ cached' \in {0, cached} /\ hist' \in HistType
      /\ hist'.epoch = hist.epoch /\ hist'.swept = hist.swept
      /\ ~hist'.raced => ~hist.raced
      /\ ~hist'.raced /\ cached' # cached => ~Connecting(c) /\ current = 0
  <2>1. CASE cached = call[c].entry
    <3>1. cached' = 0 /\ hist' = [hist EXCEPT !.raced = @ \/ (Connecting(c) \/ current # 0)]
      BY <2>1 DEF RemoveClusterIfSame, Race
    <3> QED
      BY <1>1, <3>1 DEF Types, HistType
  <2>2. CASE cached # call[c].entry
    BY <1>1, <2>2 DEF RemoveClusterIfSame, Types
  <2> QED
    BY <2>1, <2>2
<1>4. Types'
  BY <1>1, <1>2, <1>3, RegistryAssumption DEF Types
<1>5. /\ Tracked' /\ Workers' /\ Settler'
      /\ \A d \in Callers : call'[d].pc \in HasFlight =>
           call'[d].flight # 0 /\ flight'[call'[d].flight].st # "unused"
  BY <1>1, <1>2, <1>3, OutsideFlights DEF HasFlight, CallPCs
<1>6. Placed'
  BY <1>1, <1>2, <1>5 DEF Placed, MovesTo, HasEntry
<1>7. Departed' /\ NoResurrection'
  BY <1>1, <1>3 DEF IInv, Departed, NoResurrection
<1>8. ASSUME ~hist'.raced PROVE Followed'
  <2>1. Followed
    BY <1>3, <1>8 DEF IInv
  <2>2. ASSUME NEW k \in Connects PROVE OnCourse(k)'
    <3>1. CASE k = c
      BY <1>2, <3>1 DEF OnCourse, At, MovesTo
    <3>2. CASE k # c
      <4>1. call'[k] = call[k]
        BY <1>2, <3>2 DEF MovesTo, Callers
      <4>2. CASE cached' = cached
        BY <1>1, <2>1, <4>1, <4>2 DEF Followed, OnCourse, At
      <4>3. CASE cached' # cached
        BY <1>3, <1>8, <3>2, <4>1, <4>3 DEF Connecting, Resting, OnCourse, At
      <4> QED
        BY <4>2, <4>3
    <3> QED
      BY <3>1, <3>2
  <2>3. ASSUME NEW k \in Connects, At(k, "unindex") PROVE At(k, "unindex")'
    BY <1>1, <1>2, <2>3 DEF At, MovesTo, Callers
  <2> QED
    BY <1>1, <1>3, <1>8, <2>1, <2>2, <2>3 DEF Followed
<1> QED
  BY <1>4, <1>5, <1>6, <1>7, <1>8 DEF IInv

-----------------------------------------------------------------------------
(* The steps of the shared flight. *)
LEMMA JoinStep ==
  ASSUME IInv, NEW c \in Callers, Join(c)
  PROVE  IInv'
<1>1. /\ Types /\ Placed /\ Tracked /\ Workers /\ Settler /\ call[c].pc = "miss"
      /\ UNCHANGED <<cached, made, entry, leave, index, hist>>
      /\ call' = [call EXCEPT ![c].pc = "wait", ![c].flight = current']
  BY DEF IInv, Join, At
<1>2. current \in Flights \cup {0} /\ 0 \notin Flights
  BY <1>1, Numbers DEF Types
<1>3. /\ current' \in Flights
      /\ flight' \in FlightType
      /\ flight'[current'].st # "unused" /\ ~flight'[current'].cancelled
      /\ flight'[current'].epoch = hist.epoch
      /\ \A g \in Flights : g # current' => flight'[g] = flight[g]
      /\ \/ current # 0 /\ current' = current /\ flight' = flight
         \/ current = 0 /\ flight[current'].st = "unused" /\ flight'[current'].st = "idle"
  <2>1. CASE current # 0
    BY <1>1, <1>2, <2>1 DEF Join, Types, Tracked
  <2>2. CASE current = 0
    <3>1. PICK f \in Flights :
            /\ flight[f].st = "unused" /\ current' = f
            /\ flight' = [flight EXCEPT ![f].st = "idle", ![f].epoch = hist.epoch]
      BY <2>2 DEF Join
    <3>2. flight' \in FlightType
      <4>1. flight \in FlightType /\ hist.epoch \in Departures
        BY <1>1 DEF Types, HistType
      <4>2. flight' = [flight EXCEPT ![f] = [flight[f] EXCEPT !.st = "idle", !.epoch = hist.epoch]]
        BY <3>1, <4>1 DEF FlightType
      <4>3. [flight[f] EXCEPT !.st = "idle", !.epoch = hist.epoch] \in
              [cancelled : BOOLEAN, st : {"unused", "idle", "run", "ok", "err"},
               val : 0..MaxEntries, epoch : Departures]
        BY <4>1 DEF FlightType
      <4> QED
        BY <4>1, <4>2, <4>3 DEF FlightType
    <3>3. /\ flight'[f].st = "idle" /\ flight'[f].cancelled = flight[f].cancelled
          /\ flight'[f].epoch = hist.epoch
          /\ \A g \in Flights : g # f => flight'[g] = flight[g]
      BY <1>1, <3>1 DEF Types, FlightType
    <3>4. ~flight[f].cancelled
      BY <1>1, <3>1 DEF Tracked
    <3> QED
      BY <2>2, <3>1, <3>2, <3>3, <3>4
  <2> QED
    BY <2>1, <2>2
<1>4. /\ call' \in CallType /\ call'[c].pc = "wait" /\ call'[c].flight = current'
      /\ \A d \in Callers \ {c} : call'[d] = call[d]
  <2>1. call \in CallType
    BY <1>1 DEF Types
  <2>2. call' = [call EXCEPT ![c] = [call[c] EXCEPT !.pc = "wait", !.flight = current']]
    BY <1>1, <2>1 DEF CallType
  <2>3. [call[c] EXCEPT !.pc = "wait", !.flight = current'] \in
          [pc : CallPCs, flight : Flights \cup {0}, entry : 0..MaxEntries, again : BOOLEAN]
    <3>1. "wait" \in CallPCs /\ current' \in Flights
      BY <1>3 DEF CallPCs
    <3> QED
      BY <2>1, <3>1 DEF CallType
  <2>4. call'[c] = [call[c] EXCEPT !.pc = "wait", !.flight = current']
        /\ \A d \in Callers \ {c} : call'[d] = call[d]
    BY <2>1, <2>2 DEF CallType
  <2>5. call' \in CallType
    BY <2>1, <2>2, <2>3 DEF CallType
  <2>6. call'[c].pc = "wait" /\ call'[c].flight = current'
    BY <2>1, <2>4 DEF CallType
  <2> QED
    BY <2>4, <2>5, <2>6
<1>5. Types'
  BY <1>1, <1>3, <1>4 DEF Types
<1>6. Placed'
  <2>1. ASSUME NEW d \in Callers, call'[d].pc \in HasFlight
        PROVE  call'[d].flight # 0 /\ flight'[call'[d].flight].st # "unused"
    <3>1. CASE d = c
      BY <1>2, <1>3, <1>4, <3>1
    <3>2. CASE d # c
      <4>1. call[d].flight \in Flights /\ flight[call[d].flight].st # "unused"
        BY <1>1, <1>4, <2>1, <3>2 DEF Placed, Types, CallType
      <4> QED
        BY <1>2, <1>3, <1>4, <3>2, <4>1
    <3> QED
      BY <3>1, <3>2
  <2> QED
    BY <1>1, <1>4, <2>1 DEF Placed, HasEntry
<1>7. Tracked'
  <2>1. ASSUME NEW f \in Flights, flight'[f].st \in {"idle", "run"}, ~flight'[f].cancelled
        PROVE  f = current'
    BY <1>1, <1>2, <1>3, <2>1 DEF Tracked
  <2>2. \A f \in Flights : /\ flight'[f].st = "ok" => flight'[f].val # 0
                           /\ flight'[f].st = "unused" => ~flight'[f].cancelled
    BY <1>1, <1>3 DEF Tracked
  <2> QED
    BY <1>1, <1>3, <2>1, <2>2 DEF Tracked
<1>8. Workers'
  <2>1. \A d \in Callers : /\ Working(d)' <=> Working(d)
                           /\ Working(d) => call'[d].flight = call[d].flight
    BY <1>1, <1>4 DEF Working
  <2>2. \A d \in Callers : Working(d) => /\ call[d].flight \in Flights
                                         /\ flight'[call[d].flight].st = "run"
    BY <1>1, <1>3 DEF Placed, Types, CallType, Working, HasFlight, Workers
  <2>3. \A f \in Flights : flight'[f].st = "run" => flight[f].st = "run"
    BY <1>3
  <2>4. ASSUME NEW f \in Flights, flight'[f].st = "run"
        PROVE  \E d \in Callers : Working(d)' /\ call'[d].flight = f
    <3>1. PICK d \in Callers : Working(d) /\ call[d].flight = f
      BY <1>1, <2>3, <2>4 DEF Workers
    <3> QED
      BY <2>1, <3>1
  <2>5. \A d, e \in Callers :
          Working(d)' /\ Working(e)' /\ call'[d].flight = call'[e].flight => d = e
    BY <1>1, <2>1 DEF Workers
  <2>6. \A d \in Callers : Working(d)' => flight'[call'[d].flight].st = "run"
    BY <2>1, <2>2
  <2> QED
    BY <2>4, <2>5, <2>6 DEF Workers
<1>9. Settler'
  BY <1>1, <1>3, <1>4 DEF Settler, At
<1>10. Departed' /\ NoResurrection'
  BY <1>1 DEF IInv, Departed, NoResurrection
<1>11. ASSUME ~hist.raced PROVE Followed'
  <2>1. Followed
    BY <1>11 DEF IInv
  <2>2. current' # 0 /\ flight'[current'].st = "ok" => current # 0 /\ flight[current].st = "ok"
    BY <1>3
  <2>3. ASSUME NEW k \in Connects PROVE OnCourse(k)'
    <3>1. OnCourse(k) /\ k \in Callers
      BY <2>1 DEF Followed, Callers
    <3>2. CASE k = c
      BY <1>1, <1>3, <1>4, <2>2, <3>1, <3>2 DEF OnCourse, At
    <3>3. CASE k # c
      <4>1. call'[k] = call[k]
        BY <1>4, <3>1, <3>3
      <4>2. call[k].pc \in {"wait", "settled"} =>
              flight'[call[k].flight] = flight[call[k].flight]
        BY <1>1, <1>3, <3>1 DEF Placed, Types, CallType, HasFlight
      <4> QED
        BY <1>1, <1>3, <2>2, <3>1, <4>1, <4>2 DEF OnCourse, At
    <3> QED
      BY <3>2, <3>3
  <2>4. \A k \in Connects : At(k, "unindex") => At(k, "unindex")'
    BY <1>1, <1>4 DEF At, Callers
  <2> QED
    BY <1>1, <2>1, <2>2, <2>3, <2>4 DEF Followed
<1> QED
  BY <1>1, <1>5, <1>6, <1>7, <1>8, <1>9, <1>10, <1>11 DEF IInv

(* A caller moves and its flight changes state with it; the rest of the    *)
(* flight, and every other flight, stays.                                  *)
Switches(f, st) ==
  /\ flight'[f].st = st
  /\ flight'[f].cancelled = flight[f].cancelled /\ flight'[f].epoch = flight[f].epoch
  /\ \A g \in Flights : g # f => flight'[g] = flight[g]

(* What such a step keeps: a flight becomes running with its only worker,  *)
(* or stops running when that worker stops.                                *)
LEMMA SwitchFacts ==
  ASSUME IInv, NEW c \in Callers, NEW pc, MovesTo(c, pc), call[c].pc \in HasFlight,
         NEW st \in {"idle", "run", "ok", "err"}, Switches(call[c].flight, st),
         UNCHANGED current, hist'.epoch = hist.epoch,
         st = "run" <=> pc \in {"connecting", "caching"},
         st \in {"ok", "err"} => pc = "settled", call[c].pc # "settled",
         st = "ok" => flight'[call[c].flight].val # 0,
         flight[call[c].flight].st = IF Working(c) THEN "run" ELSE "idle"
  PROVE  /\ Tracked' /\ Workers' /\ Settler'
         /\ \A d \in Callers : call'[d].pc \in HasFlight =>
              call'[d].flight # 0 /\ flight'[call'[d].flight].st # "unused"
<1> DEFINE f == call[c].flight
<1>1. Types /\ Placed /\ Tracked /\ Workers /\ Settler /\ f \in Flights /\ 0 \notin Flights
  BY Numbers DEF IInv, Types, CallType, Placed
<1>2. flight[f].st \in {"idle", "run"}
  OBVIOUS
<1>3. /\ flight'[f].st = st
      /\ flight'[f].cancelled = flight[f].cancelled /\ flight'[f].epoch = flight[f].epoch
      /\ \A g \in Flights : g # f => flight'[g] = flight[g]
      /\ call'[c].pc = pc /\ call'[c].flight = f
      /\ \A d \in Callers \ {c} : call'[d] = call[d]
  BY DEF Switches, MovesTo
<1>4. \A d \in Callers : call'[d].flight = call[d].flight
  BY <1>3
<1> HIDE DEF f
<1>5. Tracked'
  <2>1. \A g \in Flights : flight'[g].st \in {"idle", "run"} /\ ~flight'[g].cancelled => g = current
    BY <1>1, <1>2, <1>3 DEF Tracked
  <2>2. current # 0 => /\ flight'[current].st # "unused" /\ ~flight'[current].cancelled
                       /\ flight'[current].epoch = hist.epoch
    BY <1>1, <1>3 DEF Tracked, Types
  <2>3. \A g \in Flights : flight'[g].st = "ok" => flight'[g].val # 0
    BY <1>1, <1>3 DEF Tracked, f
  <2>4. \A g \in Flights : flight'[g].st = "unused" => ~flight'[g].cancelled
    BY <1>1, <1>3 DEF Tracked
  <2> QED
    BY <2>1, <2>2, <2>3, <2>4 DEF Tracked
<1>6. \A d \in Callers \ {c} : Working(d)' <=> Working(d)
  BY <1>3 DEF Working
<1>7. ASSUME NEW d \in Callers \ {c}, Working(d) PROVE call[d].flight \in Flights \ {f}
  <2>1. flight[call[d].flight].st = "run" /\ call[d].flight \in Flights
    BY <1>1, <1>7 DEF Workers, Placed, Types, CallType, Working, HasFlight
  <2>2. call[d].flight = f => Working(c)
    BY <2>1 DEF f
  <2> QED
    BY <1>1, <1>7, <2>1, <2>2 DEF Workers, f
<1>8. Working(c)' <=> st = "run"
  BY <1>3 DEF Working
<1>9. Workers'
  <2>1. \A d \in Callers : Working(d)' => flight'[call'[d].flight].st = "run"
    <3>1. SUFFICES ASSUME NEW d \in Callers, Working(d)' PROVE flight'[call'[d].flight].st = "run"
      OBVIOUS
    <3>2. CASE d = c
      BY <1>3, <1>8, <3>1, <3>2
    <3>3. CASE d # c
      BY <1>1, <1>3, <1>6, <1>7, <3>1, <3>3 DEF Workers
    <3> QED
      BY <3>2, <3>3
  <2>2. \A d, e \in Callers :
          Working(d)' /\ Working(e)' /\ call'[d].flight = call'[e].flight => d = e
    BY <1>1, <1>3, <1>4, <1>6, <1>7 DEF Workers
  <2>3. ASSUME NEW g \in Flights, flight'[g].st = "run"
        PROVE  \E d \in Callers : Working(d)' /\ call'[d].flight = g
    <3>1. CASE g = f
      BY <1>3, <1>8, <2>3, <3>1
    <3>2. CASE g # f
      <4>1. PICK d \in Callers : Working(d) /\ call[d].flight = g
        BY <1>1, <1>3, <2>3, <3>2 DEF Workers
      <4>2. d # c
        BY <3>2, <4>1 DEF f
      <4> QED
        BY <1>4, <1>6, <4>1, <4>2
    <3> QED
      BY <3>1, <3>2
  <2> QED
    BY <2>1, <2>2, <2>3 DEF Workers
<1>10. Settler'
  <2>1. SUFFICES ASSUME current # 0, flight'[current].st \in {"ok", "err"}
                 PROVE  \E d \in Callers : At(d, "settled")' /\ call'[d].flight = current
    BY DEF Settler
  <2>2. CASE current = f
    BY <1>3, <2>1, <2>2 DEF At
  <2>3. CASE current # f
    <3>1. PICK d \in Callers : At(d, "settled") /\ call[d].flight = current
      BY <1>1, <1>3, <2>1, <2>3 DEF Settler, Types
    <3>2. d # c
      BY <3>1 DEF At
    <3> QED
      BY <1>3, <3>1, <3>2 DEF At
  <2> QED
    BY <2>2, <2>3
<1>11. ASSUME NEW d \in Callers, call'[d].pc \in HasFlight
       PROVE  call'[d].flight # 0 /\ flight'[call'[d].flight].st # "unused"
  <2>1. CASE call[d].flight = f
    BY <1>1, <1>3, <1>4, <2>1
  <2>2. CASE call[d].flight # f
    BY <1>1, <1>3, <1>4, <1>11, <2>2 DEF Placed, Types, CallType
  <2> QED
    BY <2>1, <2>2
<1> QED
  BY <1>5, <1>9, <1>10, <1>11

(* As to the connection: the result of a flight is the cached entry, an    *)
(* older one or the one it has just made.                                  *)
LEMMA SwitchCourse ==
  ASSUME IInv, Followed, NEW c \in Callers,
         NEW pc \in {"connecting", "caching", "settled", "failed"}, MovesTo(c, pc),
         call[c].pc \in HasFlight, NEW st \in {"idle", "run", "ok", "err"},
         Switches(call[c].flight, st), UNCHANGED <<current, index>>, hist'.swept = hist.swept,
         st = "ok" => flight'[call[c].flight].val = cached' /\ cached' # 0,
         \/ cached' = cached /\ entry' = entry
         \/ cached = 0 /\ cached' # 0 /\ cached' > hist.swept /\ ~entry'[cached'].probes
  PROVE  Followed'
<1> DEFINE f == call[c].flight
<1>1. Types /\ Placed /\ Tracked /\ f \in Flights
  BY DEF IInv, Types, CallType, Placed
<1>2. /\ flight'[f].st = st
      /\ \A g \in Flights : g # f => flight'[g] = flight[g]
      /\ call'[c].pc = pc /\ call'[c].flight = f
      /\ \A d \in Callers \ {c} : call'[d] = call[d]
  BY DEF Switches, MovesTo
<1> HIDE DEF f
<1>3. current # 0 /\ flight'[current].st = "ok" =>
        /\ cached' # 0 /\ (current # f => flight[current].st = "ok" /\ cached' = cached)
        /\ (current = f => flight'[current].val = cached')
  BY <1>1, <1>2 DEF Followed, Types, f
<1>4. ASSUME NEW k \in Connects PROVE OnCourse(k)'
  <2>1. OnCourse(k) /\ k \in Callers
    BY DEF Followed, Callers
  <2>2. CASE k = c
    BY <1>2, <2>2 DEF OnCourse, At, f
  <2>3. CASE k # c
    <3>1. call'[k] = call[k]
      BY <1>2, <2>1, <2>3
    <3>2. At(k, "miss")' /\ current # 0 /\ flight'[current].st = "ok" =>
            flight'[current].val = cached'
      BY <1>1, <1>2, <1>3, <2>1, <3>1 DEF At, OnCourse, Types
    <3>3. call[k].pc \in {"wait", "settled"} /\ flight'[call[k].flight].st = "ok" =>
            flight'[call[k].flight].val = cached'
      <4>1. SUFFICES ASSUME call[k].pc \in {"wait", "settled"}, flight'[call[k].flight].st = "ok"
                     PROVE  flight'[call[k].flight].val = cached'
        OBVIOUS
      <4>2. call[k].flight \in Flights
        BY <1>1, <2>1, <4>1 DEF Placed, HasFlight, Types, CallType
      <4>3. CASE call[k].flight = f
        BY <1>2, <4>1, <4>3 DEF f
      <4>4. CASE call[k].flight # f
        BY <1>1, <1>2, <2>1, <4>1, <4>2, <4>4 DEF OnCourse, Tracked
      <4> QED
        BY <4>3, <4>4
    <3>4. call[k].pc \in {"probe", "claim", "unindex", "register"} => call[k].entry = cached'
      BY <1>1, <2>1 DEF OnCourse, Placed, HasEntry
    <3> QED
      BY <3>1, <3>2, <3>3, <3>4 DEF OnCourse
  <2> QED
    BY <2>2, <2>3
<1>5. \A k \in Connects : At(k, "unindex") => At(k, "unindex")'
  BY <1>2 DEF At, Callers, HasFlight
<1> QED
  BY <1>3, <1>4, <1>5 DEF Followed

(* Taking the flight, and the connect itself when it succeeds. *)
LEMMA RunStep ==
  ASSUME IInv, NEW c \in Callers,
         \/ GetOrInit(c)
         \/ /\ At(c, "connecting") /\ Goto(c, "caching") /\ flight' = flight
            /\ UNCHANGED <<cached, made, entry, current, leave, index, hist>>
  PROVE  IInv'
<1> DEFINE f == call[c].flight
<1>1. /\ Types /\ Placed /\ call[c].pc \in {"wait", "connecting"}
      /\ UNCHANGED <<cached, made, entry, current, leave, index, hist>>
  BY DEF IInv, GetOrInit, At
<1>2. f \in Flights
  BY <1>1 DEF Placed, Types, CallType, HasFlight
<1>3. PICK pc \in {"connecting", "caching"} : call' = [call EXCEPT ![c].pc = pc]
  BY DEF GetOrInit, Goto
<1>4. MovesTo(c, pc) /\ call' \in CallType /\ call'[c].entry = call[c].entry
  BY <1>1, <1>3, MovesByPC DEF CallPCs
<1>5. flight[f].st = IF Working(c) THEN "run" ELSE "idle"
  BY DEF IInv, Workers, GetOrInit, At, Working
<1>6. flight' \in FlightType /\ Switches(f, "run")
  <2>1. CASE GetOrInit(c)
    <3>1. flight' = [flight EXCEPT ![f].st = "run"]
      BY <2>1 DEF GetOrInit
    <3> QED
      BY <1>1, <1>2, <3>1 DEF Types, FlightType, Switches
  <2>2. CASE At(c, "connecting") /\ flight' = flight
    BY <1>1, <1>5, <2>2 DEF Types, Switches, At, Working
  <2> QED
    BY <2>1, <2>2
<1>7. Types'
  BY <1>1, <1>4, <1>6 DEF Types
<1>8. /\ Tracked' /\ Workers' /\ Settler'
      /\ \A d \in Callers : call'[d].pc \in HasFlight =>
           call'[d].flight # 0 /\ flight'[call'[d].flight].st # "unused"
  BY <1>1, <1>4, <1>5, <1>6, SwitchFacts DEF HasFlight
<1>9. Placed'
  BY <1>1, <1>4, <1>8 DEF Placed, MovesTo, HasEntry
<1>10. Departed' /\ NoResurrection'
  BY <1>1 DEF IInv, Departed, NoResurrection
<1>11. ASSUME ~hist.raced PROVE Followed'
  BY <1>1, <1>4, <1>6, <1>11, SwitchCourse DEF IInv, HasFlight
<1> QED
  BY <1>1, <1>7, <1>8, <1>9, <1>10, <1>11 DEF IInv

(* A flight settles, with the cached entry, a new one, or an error. *)
LEMMA SettleStep ==
  ASSUME IInv, NEW c \in Callers, call[c].pc \in {"connecting", "caching"},
         NEW st \in {"ok", "err"}, NEW e \in 0..MaxEntries, Settle(c, st, e),
         st = "ok" => e = cached' /\ e # 0,
         UNCHANGED <<current, leave, index, hist>>,
         cached' \in 0..made', made' \in 0..MaxEntries, entry' \in EntryType, made' >= made,
         \/ cached' = cached /\ entry' = entry
         \/ cached = 0 /\ cached' = made + 1 /\ ~entry'[cached'].probes,
         NoResurrection'
  PROVE  IInv'
<1> DEFINE f == call[c].flight
<1>1. Types /\ Placed
  BY DEF IInv
<1>2. f \in Flights
  BY <1>1 DEF Placed, Types, CallType, HasFlight
<1>3. MovesTo(c, "settled") /\ call' \in CallType /\ call'[c].entry = call[c].entry
  BY <1>1, MovesByPC DEF CallPCs, Settle, Goto
<1>4. flight' \in FlightType /\ Switches(f, st) /\ flight'[f].val = e
  <2>1. flight' = [flight EXCEPT ![f].st = st, ![f].val = e]
    BY DEF Settle
  <2> QED
    BY <1>1, <1>2, <2>1 DEF Types, FlightType, Switches
<1>5. Working(c) /\ flight[f].st = "run"
  BY DEF IInv, Workers, Working
<1>6. Types'
  BY <1>1, <1>3, <1>4 DEF Types
<1>7. /\ Tracked' /\ Workers' /\ Settler'
      /\ \A d \in Callers : call'[d].pc \in HasFlight =>
           call'[d].flight # 0 /\ flight'[call'[d].flight].st # "unused"
  BY <1>3, <1>4, <1>5, SwitchFacts DEF HasFlight
<1>8. Placed'
  BY <1>1, <1>3, <1>7 DEF Placed, MovesTo, HasEntry
<1>9. hist.swept \in Nat /\ made \in Nat /\ made' \in Nat /\ hist.swept <= made
  BY <1>1, RegistryAssumption DEF IInv, Departed, Types, HistType
<1>10. Departed'
  BY <1>9 DEF IInv, Departed
<1>11. ASSUME ~hist.raced PROVE Followed'
  <2>1. \/ cached' = cached /\ entry' = entry
        \/ cached = 0 /\ cached' # 0 /\ cached' > hist.swept /\ ~entry'[cached'].probes
    BY <1>9
  <2> QED
    BY <1>3, <1>4, <1>11, <2>1, SwitchCourse DEF IInv, HasFlight
<1> QED
  BY <1>6, <1>7, <1>8, <1>10, <1>11 DEF IInv

LEMMA ConnectClusterStep ==
  ASSUME IInv, NEW c \in Callers, ConnectCluster(c)
  PROVE  IInv'
<1>1. CASE Goto(c, "caching") /\ flight' = flight
  BY <1>1, RunStep DEF ConnectCluster
<1>2. CASE Settle(c, "err", 0)
  <2>1. /\ call[c].pc \in {"connecting", "caching"}
        /\ UNCHANGED <<cached, made, entry, current, leave, index, hist>>
    BY DEF ConnectCluster, At
  <2>2. /\ cached \in 0..made /\ made \in 0..MaxEntries /\ entry \in EntryType /\ made >= made
        /\ 0 \in 0..MaxEntries
    BY RegistryAssumption DEF IInv, Types
  <2>3. NoResurrection'
    BY <2>1 DEF IInv, NoResurrection
  <2> QED
    BY <1>2, <2>1, <2>2, <2>3, SettleStep
<1> QED
  BY <1>1, <1>2 DEF ConnectCluster

(* cache_lazy: the one step that could resurrect a cluster.  Its flight is *)
(* not cancelled, so it is the current one and of the present epoch.       *)
LEMMA CacheLazyStep ==
  ASSUME IInv, NEW c \in Callers, CacheLazy(c)
  PROVE  IInv'
<1> DEFINE f == call[c].flight
<1>1. /\ Types /\ Placed /\ Tracked /\ Workers /\ call[c].pc = "caching"
      /\ UNCHANGED <<current, leave, index, hist>>
  BY DEF IInv, CacheLazy, At
<1>2. f \in Flights /\ flight[f].st = "run"
  BY <1>1 DEF Placed, Types, CallType, HasFlight, Workers, Working
<1>3. cached \in 0..made /\ made \in 0..MaxEntries /\ entry \in EntryType /\ made >= made
      /\ 0 \in 0..MaxEntries /\ cached \in 0..MaxEntries
  BY <1>1, RegistryAssumption DEF Types
<1>4. CASE cached # 0
  <2>1. Settle(c, "ok", cached) /\ UNCHANGED <<cached, made, entry>>
    BY <1>4 DEF CacheLazy
  <2>2. NoResurrection'
    BY <1>1, <2>1 DEF IInv, NoResurrection
  <2> QED
    BY <1>1, <1>3, <1>4, <2>1, <2>2, SettleStep
<1>5. CASE cached = 0 /\ Refused(f)
  <2>1. Settle(c, "err", 0) /\ UNCHANGED <<cached, made, entry>>
    BY <1>5 DEF CacheLazy
  <2>2. NoResurrection'
    BY <1>1, <2>1 DEF IInv, NoResurrection
  <2> QED
    BY <1>1, <1>3, <2>1, <2>2, SettleStep
<1>6. CASE cached = 0 /\ ~Refused(f)
  <2>1. /\ made < MaxEntries /\ made' = made + 1 /\ cached' = made + 1
        /\ entry' = [entry EXCEPT ![made + 1] =
                       [NewEntry EXCEPT !.via = "lazy", !.epoch = flight[f].epoch]]
        /\ Settle(c, "ok", made + 1)
    BY <1>6 DEF CacheLazy
  <2>2. flight[f].epoch \in Departures
    BY <1>1, <1>2 DEF Types, FlightType
  <2>3. /\ cached' \in 0..made' /\ made' \in 0..MaxEntries /\ cached' # 0
        /\ entry' \in EntryType /\ ~entry'[cached'].probes
        /\ entry'[cached'].epoch = flight[f].epoch
    BY <1>1, <2>1, <2>2, NewEntryFacts
  <2>4. f = current /\ flight[f].epoch = hist.epoch
    <3>1. f = current
      BY <1>1, <1>2, <1>6 DEF Tracked, Refused
    <3> QED
      BY <1>1, <1>2, <3>1, Numbers DEF Tracked
  <2>5. NoResurrection'
    BY <1>1, <2>3, <2>4 DEF NoResurrection
  <2>6. made' >= made /\ made + 1 \in 0..MaxEntries
    BY <1>3, <2>1, <2>3
  <2> QED
    BY <1>1, <1>6, <2>1, <2>3, <2>5, <2>6, SettleStep
<1> QED
  BY <1>4, <1>5, <1>6

(* A caller takes the result and clears the key while it is this flight's. *)
LEMMA ReturnStep ==
  ASSUME IInv, NEW c \in Callers, Return(c)
  PROVE  IInv'
<1> DEFINE f == call[c].flight
<1>1. /\ Types /\ Placed /\ Tracked /\ Workers /\ Settler /\ call[c].pc \in {"wait", "settled"}
      /\ UNCHANGED <<cached, made, entry, flight, leave, index, hist>>
      /\ flight[f].st \in {"ok", "err"}
      /\ current' = IF current = f THEN 0 ELSE current
  BY DEF IInv, Return, Forgotten
<1>2. f \in Flights /\ 0 \notin Flights /\ current \in Flights \cup {0}
  BY <1>1, Numbers DEF Placed, Types, CallType, HasFlight
<1>3. PICK pc \in {"failed", "probe", "done", "replace"} :
        /\ MovesTo(c, pc) /\ call' \in CallType
        /\ pc \in HasEntry => call'[c].entry = flight[f].val /\ flight[f].st = "ok"
        /\ pc = "probe" => c \in Connects
  <2>1. CASE flight[f].st = "err"
    <3>1. call' = [call EXCEPT ![c].pc = "failed"]
      BY <2>1 DEF Return
    <3> QED
      BY <1>1, <3>1, MovesByPC DEF CallPCs, HasEntry
  <2>2. CASE flight[f].st = "ok"
    <3>1. call' = [call EXCEPT ![c].entry = flight[f].val,
                               ![c].pc = AfterEntry(c, flight[f].val)]
      BY <2>2 DEF Return
    <3>2. /\ AfterEntry(c, flight[f].val) \in {"probe", "done", "failed", "replace"}
          /\ AfterEntry(c, flight[f].val) = "probe" => c \in Connects
      BY DEF AfterEntry
    <3>3. flight[f].val \in 0..MaxEntries
      BY <1>1, <1>2 DEF Types, FlightType
    <3> QED
      BY <1>1, <2>2, <3>1, <3>2, <3>3, MovesByEntry DEF CallPCs
  <2> QED
    BY <1>1, <2>1, <2>2
<1>4. /\ call'[c].pc = pc /\ call'[c].flight = f
      /\ \A d \in Callers \ {c} : call'[d] = call[d]
  BY <1>3 DEF MovesTo
<1>5. flight[f].st = "ok" => flight[f].val # 0
  BY <1>1, <1>2 DEF Tracked
<1>6. Types'
  BY <1>1, <1>2, <1>3 DEF Types
<1>7. Placed'
  BY <1>1, <1>3, <1>4, <1>5 DEF Placed, HasFlight, HasEntry
<1>8. Tracked'
  <2>1. \A g \in Flights : flight[g].st \in {"idle", "run"} /\ ~flight[g].cancelled => g = current'
    BY <1>1 DEF Tracked
  <2> QED
    BY <1>1, <2>1 DEF Tracked
<1>9. Workers'
  <2>1. \A d \in Callers : (Working(d)' <=> Working(d)) /\ call'[d].flight = call[d].flight
    BY <1>1, <1>4 DEF Working
  <2>2. \A g \in Flights : flight[g].st = "run" =>
          \E d \in Callers : Working(d)' /\ call'[d].flight = g
    BY <1>1, <2>1 DEF Workers
  <2> QED
    BY <1>1, <2>1, <2>2 DEF Workers
<1>10. Settler'
  <2>1. SUFFICES ASSUME current' # 0, flight[current'].st \in {"ok", "err"}
                 PROVE  \E d \in Callers : At(d, "settled")' /\ call'[d].flight = current'
    BY <1>1 DEF Settler
  <2>2. current' = current /\ current # f
    BY <1>1, <2>1
  <2>3. PICK d \in Callers : At(d, "settled") /\ call[d].flight = current
    BY <1>1, <2>1, <2>2 DEF Settler
  <2>4. d # c
    BY <2>2, <2>3
  <2> QED
    BY <1>4, <2>2, <2>3, <2>4 DEF At
<1>11. Departed' /\ NoResurrection'
  BY <1>1 DEF IInv, Departed, NoResurrection
<1>12. ASSUME ~hist.raced PROVE Followed'
  <2>1. Followed
    BY <1>12 DEF IInv
  <2>2. ASSUME NEW k \in Connects PROVE OnCourse(k)'
    <3>1. OnCourse(k) /\ k \in Callers
      BY <2>1 DEF Followed, Callers
    <3>2. CASE k = c
      BY <1>1, <1>3, <1>4, <3>1, <3>2 DEF OnCourse, At, HasEntry
    <3>3. CASE k # c
      BY <1>1, <1>4, <3>1, <3>3 DEF OnCourse, At
    <3> QED
      BY <3>2, <3>3
  <2>3. \A k \in Connects : At(k, "unindex") => At(k, "unindex")'
    BY <1>1, <1>4 DEF At, Callers
  <2> QED
    BY <1>1, <2>1, <2>2, <2>3 DEF Followed
<1> QED
  BY <1>1, <1>6, <1>7, <1>8, <1>9, <1>10, <1>11, <1>12 DEF IInv

(* A connect is dropped: what it ran is free to be taken over. *)
LEMMA AbortStep ==
  ASSUME IInv, NEW c \in Callers, ConnectAbort(c)
  PROVE  IInv'
<1> DEFINE f == call[c].flight
<1>1. /\ Types /\ Placed /\ c \in Connects /\ call' = [call EXCEPT ![c].pc = "failed"]
      /\ call[c].pc \in {"lookup", "miss", "wait", "connecting", "caching", "fresh", "probe"}
      /\ UNCHANGED <<cached, made, entry, current, leave, index, hist>>
  BY DEF IInv, ConnectAbort, Goto
<1>2. MovesTo(c, "failed") /\ call' \in CallType /\ call'[c].entry = call[c].entry
  BY <1>1, MovesByPC DEF CallPCs
<1>3. CASE Working(c)
  <2>1. f \in Flights /\ flight[f].st = "run" /\ call[c].pc \in HasFlight
    BY <1>1, <1>3 DEF IInv, Placed, Types, CallType, HasFlight, Workers, Working
  <2>2. flight' \in FlightType /\ Switches(f, "idle")
    <3>1. flight' = [flight EXCEPT ![f].st = "idle"]
      BY <1>3 DEF ConnectAbort, HandedOver
    <3>2. flight \in FlightType
      BY <1>1 DEF Types
    <3> HIDE DEF f
    <3>3. flight' \in FlightType
      BY <2>1, <3>1, <3>2 DEF FlightType
    <3>4. Switches(f, "idle")
      BY <2>1, <3>1, <3>2 DEF FlightType, Switches
    <3> QED
      BY <3>3, <3>4
  <2>3. Types'
    BY <1>1, <1>2, <2>2 DEF Types
  <2>4. /\ Tracked' /\ Workers' /\ Settler'
        /\ \A d \in Callers : call'[d].pc \in HasFlight =>
             call'[d].flight # 0 /\ flight'[call'[d].flight].st # "unused"
    BY <1>1, <1>2, <1>3, <2>1, <2>2, SwitchFacts
  <2>5. Placed'
    BY <1>1, <1>2, <2>4 DEF Placed, MovesTo, HasEntry
  <2>6. Departed' /\ NoResurrection'
    BY <1>1 DEF IInv, Departed, NoResurrection
  <2>7. ASSUME ~hist.raced PROVE Followed'
    BY <1>1, <1>2, <2>1, <2>2, <2>7, SwitchCourse DEF IInv
  <2> QED
    BY <1>1, <2>3, <2>4, <2>5, <2>6, <2>7 DEF IInv
<1>4. CASE ~Working(c)
  <2>1. flight' = flight /\ call[c].pc \notin {"connecting", "caching"}
    BY <1>4 DEF ConnectAbort, HandedOver, Working
  <2>2. Types'
    BY <1>1, <1>2, <2>1 DEF Types
  <2>3. /\ Tracked' /\ Workers' /\ Settler'
        /\ \A d \in Callers : call'[d].pc \in HasFlight =>
             call'[d].flight # 0 /\ flight'[call'[d].flight].st # "unused"
    BY <1>1, <1>2, <2>1, OutsideFlights DEF HasFlight, CallPCs
  <2>4. Placed'
    BY <1>1, <1>2, <2>3 DEF Placed, MovesTo, HasEntry
  <2>5. Departed' /\ NoResurrection'
    BY <1>1 DEF IInv, Departed, NoResurrection
  <2>6. ASSUME ~hist.raced PROVE Followed'
    <3>1. OnCourse(c)'
      BY <1>2 DEF OnCourse, At, MovesTo
    <3> QED
      BY <1>1, <1>2, <2>1, <2>6, <3>1, SameConnection DEF IInv
  <2> QED
    BY <1>1, <2>2, <2>3, <2>4, <2>5, <2>6 DEF IInv
<1> QED
  BY <1>3, <1>4

-----------------------------------------------------------------------------
(* Disconnect, reconnect and health. *)

(* No connect is under way: nothing is on its way to register an index. *)
LEMMA NoneOnCourse ==
  ASSUME NEW d \in Leavers, ~Connecting(d), UNCHANGED call
  PROVE  \A k \in Connects : OnCourse(k)' /\ ~At(k, "unindex")
<1>1. \A k \in Connects : call[k].pc \in Resting
  BY RegistryAssumption DEF Connecting, Callers
<1> QED
  BY <1>1 DEF OnCourse, At, Resting

LEMMA RemoveClusterStep ==
  ASSUME IInv, NEW d \in Leavers, RemoveCluster(d)
  PROVE  IInv'
<1> DEFINE Left == {x \in Leavers : leave[x] # "idle"}
           raced == hist.raced \/ Connecting(d)
<1>1. /\ Types /\ Placed /\ Tracked /\ Workers /\ leave[d] = "idle" /\ current' = 0 /\ cached' = 0
      /\ UNCHANGED <<made, entry, call, index>>
      /\ hist' = [hist EXCEPT !.epoch = @ + 1, !.raced = raced]
      /\ leave' = [leave EXCEPT ![d] = IF d \in Drops THEN "unindex" ELSE "done"]
  BY DEF IInv, RemoveCluster
<1>2. leave' \in [Leavers -> {"idle", "unindex", "done"}] /\ leave'[d] # "idle"
      /\ \A x \in Leavers \ {d} : leave'[x] = leave[x]
  BY <1>1 DEF Types
<1>3. hist.epoch + 1 = Cardinality({x \in Leavers : leave'[x] # "idle"})
      /\ hist.epoch + 1 \in Departures
  <2>1. {x \in Leavers : leave'[x] # "idle"} = Left \cup {d} /\ d \notin Left
    BY <1>1, <1>2
  <2>2. IsFiniteSet(Left) /\ IsFiniteSet(Leavers) /\ Left \cup {d} \in SUBSET Leavers
    BY RegistryAssumption, FS_Subset
  <2>3. Cardinality(Left \cup {d}) = Cardinality(Left) + 1
    BY <2>1, <2>2, FS_AddElement
  <2>4. Cardinality(Left \cup {d}) <= Cardinality(Leavers) /\ Cardinality(Left) \in Nat
    BY <2>2, FS_Subset, FS_CardinalityType
  <2>5. hist.epoch = Cardinality(Left)
    BY DEF IInv, Departed
  <2> HIDE DEF Left
  <2> QED
    BY <2>1, <2>3, <2>4, <2>5, Numbers DEF Departures
<1>4. hist' \in HistType /\ hist'.epoch = hist.epoch + 1 /\ hist'.swept = hist.swept
      /\ hist'.raced = raced
  BY <1>1, <1>3 DEF Types, HistType
<1>5. /\ flight' \in FlightType
      /\ \A f \in Flights : /\ flight'[f].st = flight[f].st /\ flight'[f].val = flight[f].val
                            /\ f # current => flight'[f].cancelled = flight[f].cancelled
      /\ current # 0 => flight'[current].cancelled
  <2>1. CASE current = 0
    BY <1>1, <2>1 DEF RemoveCluster, Cancelled, Types
  <2>2. CASE current # 0
    <3>1. flight' = [flight EXCEPT ![current].cancelled = TRUE] /\ current \in Flights
      BY <1>1, <2>2 DEF RemoveCluster, Cancelled, Types
    <3> QED
      BY <1>1, <3>1 DEF Types, FlightType
  <2> QED
    BY <2>1, <2>2
<1>6. Types'
  BY <1>1, <1>2, <1>4, <1>5, RegistryAssumption DEF Types
<1>7. Placed'
  BY <1>1, <1>5 DEF Placed, HasFlight, HasEntry, Types, CallType
<1>8. Tracked'
  BY <1>1, <1>5, Numbers DEF Tracked
<1>9. Workers'
  <2>1. \A c \in Callers : Working(c) => call[c].flight \in Flights
    BY <1>1 DEF Working, Placed, HasFlight, Types, CallType
  <2> QED
    BY <1>1, <1>5, <2>1 DEF Workers, Working
<1>10. Settler' /\ NoResurrection' /\ Departed'
  BY <1>1, <1>3, <1>4 DEF Settler, NoResurrection, IInv, Departed
<1>11. ASSUME ~hist'.raced PROVE Followed'
  <2>1. Followed /\ ~Connecting(d)
    BY <1>4, <1>11 DEF IInv
  <2> QED
    BY <1>1, <1>4, <2>1, NoneOnCourse DEF Followed
<1> QED
  BY <1>6, <1>7, <1>8, <1>9, <1>10, <1>11 DEF IInv

LEMMA DropIndexStep ==
  ASSUME IInv, NEW d \in Leavers, DropIndex(d)
  PROVE  IInv'
<1> DEFINE raced == hist.raced \/ cached # 0 \/ Connecting(d)
<1>1. /\ Types /\ Placed /\ leave[d] = "unindex" /\ index' = 0
      /\ UNCHANGED <<cached, made, entry, current, flight, call>>
      /\ hist' = [hist EXCEPT !.swept = made, !.raced = raced]
      /\ leave' = [leave EXCEPT ![d] = "done"]
  BY DEF IInv, DropIndex, Closed
<1>2. hist' \in HistType /\ hist'.epoch = hist.epoch /\ hist'.swept = made /\ hist'.raced = raced
  BY <1>1 DEF Types, HistType
<1>3. leave' \in [Leavers -> {"idle", "unindex", "done"}]
      /\ {x \in Leavers : leave'[x] # "idle"} = {x \in Leavers : leave[x] # "idle"}
  BY <1>1 DEF Types
<1>4. Types'
  BY <1>1, <1>2, <1>3, RegistryAssumption DEF Types
<1>5. Placed' /\ Tracked' /\ Workers' /\ Settler' /\ NoResurrection'
  BY <1>1, <1>2 DEF IInv, Placed, Tracked, Workers, Working, Settler, At, NoResurrection
<1>6. Departed'
  BY <1>1, <1>2, <1>3, RegistryAssumption DEF IInv, Departed, Types
<1>7. ASSUME ~hist'.raced PROVE Followed'
  <2>1. Followed /\ ~Connecting(d) /\ cached = 0
    BY <1>2, <1>7 DEF IInv
  <2> QED
    BY <1>1, <1>2, <2>1, NoneOnCourse DEF Followed
<1> QED
  BY <1>4, <1>5, <1>6, <1>7 DEF IInv

LEMMA WedgeStep == IInv /\ Wedge => IInv'
<1> SUFFICES ASSUME IInv, Wedge PROVE IInv'
  OBVIOUS
<1>1. /\ Types /\ cached \in Entries /\ entry' = [entry EXCEPT ![cached].wedged = TRUE]
      /\ UNCHANGED <<cached, made, current, flight, call, leave, index, hist>>
  BY RegistryAssumption DEF IInv, Wedge, Types, Entries
<1>2. /\ entry' \in EntryType
      /\ entry'[cached].via = entry[cached].via /\ entry'[cached].epoch = entry[cached].epoch
      /\ entry'[cached].probes = entry[cached].probes
  BY <1>1 DEF Types, EntryType
<1>3. Types' /\ NoResurrection'
  BY <1>1, <1>2 DEF Types, IInv, NoResurrection
<1>4. Placed' /\ Tracked' /\ Workers' /\ Settler' /\ Departed'
  BY <1>1 DEF IInv, Placed, Tracked, Workers, Working, Settler, At, Departed
<1>5. Followed => Followed'
  BY <1>1, <1>2 DEF Followed, OnCourse, At
<1> QED
  BY <1>1, <1>3, <1>4, <1>5 DEF IInv

LEMMA NextIInv == IInv /\ [Next]_vars => IInv'
<1> SUFFICES ASSUME IInv, [Next]_vars PROVE IInv'
  OBVIOUS
<1>1. ASSUME NEW c \in Callers, ConnectBegin(c) \/ Step(c) \/ ConnectAbort(c) PROVE IInv'
  BY <1>1, GetExistingStep, ConnectMoves, InsertConnectedStep, ClaimStep, IndexStep,
     RemoveIfSameStep, JoinStep, RunStep, ConnectClusterStep, CacheLazyStep, ReturnStep,
     AbortStep DEF Step
<1>2. ASSUME NEW d \in Leavers, RemoveCluster(d) \/ DropIndex(d) PROVE IInv'
  BY <1>2, RemoveClusterStep, DropIndexStep
<1>3. CASE UNCHANGED vars
  BY <1>3 DEF vars, IInv, Types, Placed, Tracked, Workers, Working, Settler, At, Departed,
              NoResurrection, Followed, OnCourse
<1> QED
  BY <1>1, <1>2, <1>3, WedgeStep DEF Next

LEMMA Invariance == Spec => []IInv
  BY InitIInv, NextIInv, PTL DEF Spec

-----------------------------------------------------------------------------
(* A cluster the operator left is never cached again by a lazy connect     *)
(* that was under way when it was left, however many callers share the     *)
(* flight and whenever the disconnects fall: cache_lazy checks, under the  *)
(* lock of the map, that its flight was not cancelled.  Lazy connects      *)
(* only: a connect_context that has its client makes no such check, and    *)
(* insert_connected caches it after a remove_cluster.                      *)
THEOREM StaysLeft == Spec => []NoResurrection
<1>1. IInv => NoResurrection
  BY DEF IInv
<1> QED
  BY <1>1, Invariance, PTL

(* The shared flight does what it is for, for any number of callers: one   *)
(* connect at a time, no settled result left behind for later callers, and *)
(* nobody waiting for a flight that nobody runs (SingleFlight::run).       *)
THEOREM Flying == Spec => []FlightsAreSound
<1>1. IInv => FlightsAreSound
  <2> SUFFICES ASSUME IInv PROVE FlightsAreSound
    OBVIOUS
  <2>1. Types /\ Placed /\ Tracked /\ Workers /\ Settler
    BY DEF IInv
  <2>2. TypeOK
    BY <2>1, TypesIsTypeOK
  <2>3. \A c \in Callers : call[c].pc \in HasFlight => call[c].flight \in Flights
    BY <2>1 DEF Placed, Types, CallType
  <2>4. OneConnectAtATime
    <3>1. SUFFICES ASSUME NEW c \in Callers, NEW d \in Callers, c # d, Working(c), Working(d),
                          ~flight[call[c].flight].cancelled, ~flight[call[d].flight].cancelled
                   PROVE  FALSE
      BY DEF OneConnectAtATime
    <3>2. /\ call[c].flight \in Flights /\ flight[call[c].flight].st = "run"
          /\ call[d].flight \in Flights /\ flight[call[d].flight].st = "run"
      BY <2>1, <2>3, <3>1 DEF Workers, Working, HasFlight
    <3>3. call[c].flight = current /\ call[d].flight = current
      BY <2>1, <3>1, <3>2 DEF Tracked
    <3> QED
      BY <2>1, <3>1, <3>3 DEF Workers
  <2>5. NothingIsCachedInAFlight
    <3>1. SUFFICES ASSUME Quiet, current # 0 PROVE flight[current].st = "idle"
      BY DEF NothingIsCachedInAFlight
    <3>2. flight[current].st \in {"idle", "run", "ok", "err"} /\ current \in Flights
      BY <2>1, <3>1 DEF Types, FlightType, Tracked
    <3>3. flight[current].st # "run"
      BY <2>1, <3>1, <3>2 DEF Workers, Working, Quiet, Resting
    <3>4. flight[current].st \notin {"ok", "err"}
      BY <2>1, <3>1 DEF Settler, At, Quiet, Resting
    <3> QED
      BY <3>2, <3>3, <3>4
  <2>6. WaitersHaveAWorker
    BY <2>1, <2>3 DEF WaitersHaveAWorker, Workers, At, HasFlight
  <2> QED
    BY <2>2, <2>4, <2>5, <2>6 DEF FlightsAreSound
<1> QED
  BY <1>1, Invariance, PTL

(* Unless a disconnect or a replacement overtook a connect, the index that *)
(* is registered when nothing is under way belongs to the connection that  *)
(* is there (connect_context, drop_cluster_watchers).                      *)
THEOREM Indexed == Spec => []IndexFollowsConnection
<1>1. IInv => IndexFollowsConnection
  BY DEF IInv, IndexFollowsConnection, Followed, Quiet, Resting, At, Callers
<1> QED
  BY <1>1, Invariance, PTL

(* No step of any caller makes a connect that reached insert_connected go  *)
(* on with an entry that is unavailable: "a wedged entry never wins".      *)
THEOREM NeverWedged == Spec => WedgedNeverWins
<1> DEFINE A == \A c \in Connects :
                  At(c, "insert") /\ call'[c].pc # "insert" => ~entry'[call'[c].entry].wedged
<1>1. IInv /\ [Next]_vars => [A]_vars
  <2> SUFFICES ASSUME IInv, Next, NEW c \in Connects, At(c, "insert"), call'[c].pc # "insert"
               PROVE  ~entry'[call'[c].entry].wedged
    OBVIOUS
  <2>1. Types /\ c \in Callers
    BY DEF IInv, Callers
  <2>2. InsertConnected(c)
    <3>1. ASSUME NEW k \in Callers, k # c, ConnectBegin(k) \/ Step(k) \/ ConnectAbort(k)
          PROVE  call'[c] = call[c]
      <4>1. CASE GetExisting(k) \/ Return(k) \/ Join(k)
        BY <2>1, <3>1, <4>1 DEF Types, CallType, GetExisting, Return, Join
      <4>2. CASE \/ ConnectBegin(k) \/ Probe(k) \/ GetOrInit(k) \/ ConnectCluster(k)
                 \/ CacheLazy(k) \/ ConnectAbort(k)
        BY <2>1, <3>1, <4>2 DEF Types, CallType, ConnectBegin, Probe, GetOrInit,
             ConnectCluster, CacheLazy, ConnectAbort, Goto, Settle
      <4>3. CASE \/ InsertConnected(k) \/ ClaimConnectProbes(k) \/ ReopenIndex(k)
                 \/ InsertSearchIndex(k) \/ RemoveClusterIfSame(k)
        BY <2>1, <3>1, <4>3 DEF Types, CallType, InsertConnected, ClaimConnectProbes,
             ReopenIndex, InsertSearchIndex, RemoveClusterIfSame, Goto
      <4> QED
        BY <3>1, <4>1, <4>2, <4>3 DEF Step
    <3>2. ConnectBegin(c) \/ Step(c) \/ ConnectAbort(c) => InsertConnected(c)
      BY DEF Step, GetExisting, Return, Join, ConnectBegin, Probe, GetOrInit, ConnectCluster,
             CacheLazy, ConnectAbort, ClaimConnectProbes, ReopenIndex, InsertSearchIndex,
             RemoveClusterIfSame, At
    <3>3. (\E d \in Leavers : RemoveCluster(d) \/ DropIndex(d)) \/ Wedge => UNCHANGED call
      BY DEF RemoveCluster, DropIndex, Wedge
    <3> QED
      BY <3>1, <3>2, <3>3 DEF Next, At
  <2>3. CASE ExistingWins
    <3>1. cached \in 0..MaxEntries
      BY <2>1, RegistryAssumption DEF Types
    <3>2. call' = [call EXCEPT ![c].entry = cached, ![c].pc = "claim"] /\ entry' = entry
      BY <2>2, <2>3 DEF InsertConnected
    <3>3. call'[c].entry = cached
      BY <2>1, <3>1, <3>2, MovesByEntry DEF CallPCs
    <3> QED
      BY <2>3, <3>2, <3>3 DEF ExistingWins
  <2>4. CASE ~ExistingWins
    <3>1. /\ made < MaxEntries /\ made' = made + 1 /\ cached' = made + 1
          /\ entry' = [entry EXCEPT ![made + 1] =
                         [NewEntry EXCEPT !.via = "connect", !.epoch = hist.epoch]]
          /\ call' = [call EXCEPT ![c].entry = made + 1, ![c].pc = "claim"]
      BY <2>2, <2>4 DEF InsertConnected
    <3>2. hist.epoch \in Departures /\ made + 1 \in 0..MaxEntries
      BY <2>1, <3>1, RegistryAssumption DEF Types, HistType
    <3>3. ~entry'[cached'].wedged
      BY <2>1, <3>1, <3>2, NewEntryFacts
    <3>4. call'[c].entry = made + 1
      BY <2>1, <3>1, <3>2, MovesByEntry DEF CallPCs
    <3> QED
      BY <3>1, <3>3, <3>4
  <2> QED
    BY <2>3, <2>4
<1>2. Spec => [][A]_vars
  BY <1>1, Invariance, PTL DEF Spec
<1> QED
  BY <1>2 DEF WedgedNeverWins
=============================================================================
