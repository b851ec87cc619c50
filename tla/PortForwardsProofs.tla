------------------------- MODULE PortForwardsProofs -------------------------
(***************************************************************************)
(* Proofs, for any number of forwards, commands under way and restarts,    *)
(* that what the operator pinned is in the file when nothing is under way, *)
(* that nothing else is, and that a pinned listener is not closed by a     *)
(* disconnect, as long as commands did not cross.                          *)
(***************************************************************************)
EXTENDS PortForwards, Integers, TLAPS

-----------------------------------------------------------------------------
CmdType == [Cmds -> [pc : Pcs, f : Fwds \cup {"none"}, pin : BOOLEAN,
                     snap : SUBSET Fwds, at : Nat]]

Types ==
  /\ byId \in [Fwds -> Flag] /\ overrides \in [Fwds -> Flag]
  /\ file \in SUBSET Fwds /\ live \in BOOLEAN /\ cmd \in CmdType
  /\ todo \in SUBSET Fwds /\ doing \in Fwds \cup {"none"}
  /\ clock \in [taken : Nat, file : Nat] /\ clock.file <= clock.taken
  /\ pins \in SUBSET Fwds /\ raced \in BOOLEAN /\ restarts \in Nat
  /\ \A c \in Cmds : /\ cmd[c].at <= clock.taken
                     /\ cmd[c].pc \in {"bind", "insert", "unpin", "set"} => cmd[c].f \in Fwds

At(c, pc) == cmd[c].pc = pc
Of(c, f) == cmd[c].f = f

(* Commands keep out of each other's way and of the restore's. *)
Apart ==
  /\ \A c, d \in Cmds : Of(c, cmd[d].f) /\ cmd[d].f \in Fwds => c = d
  /\ \A c \in Cmds : cmd[c].f \notin Restoring
  /\ Restoring # {} => \A c \in Cmds : ~At(c, "save")
  /\ \A f \in Restoring : byId[f] = "none" /\ f \in file
  /\ doing # "none" => overrides[doing] = "on" /\ doing \notin todo

(* An override without a handle is being removed, or is known as stale.    *)
Handles ==
  /\ \A f \in Fwds : overrides[f] # "none" /\ byId[f] = "none" =>
       f \in stale \/ f = doing \/ \E c \in Cmds : At(c, "unpin") /\ Of(c, f)
  /\ \A c \in Cmds : cmd[c].pc \in {"bind", "insert", "unpin"} => byId[cmd[c].f] = "none"
  /\ \A c \in Cmds : At(c, "unpin") => cmd[c].f \notin pins

(* The pins the file must have, and those it may have. *)
Kept == pins \ (failed \cup stale)
Known == pins \cup failed \cup stale

(* In memory a pin is what the operator made it. *)
Remembered ==
  /\ \A f \in Kept : f \notin Restoring => Pinned(f)
  /\ \A f \in Fwds : Pinned(f) => f \in pins \cup stale

(* A pin is in the file or its command will write it, and no older write   *)
(* can take it away.                                                       *)
Writes(c, f, t) ==
  Of(c, f) /\ (At(c, "persist") \/ (At(c, "save") /\ f \in cmd[c].snap /\ cmd[c].at > t))

Saved ==
  \A f \in Kept :
    /\ f \in file \/ \E c \in Cmds : Writes(c, f, -1)
    /\ \A d \in Cmds : At(d, "save") /\ f \notin cmd[d].snap =>
         \/ \E c \in Cmds : Writes(c, f, cmd[d].at)
         \/ f \in file /\ clock.file > cmd[d].at

(* What is not pinned any more is gone from the file, or a command will    *)
(* write the file without it, or it is known as unsaved.                   *)
Erases(c, f, t) ==
  \/ At(c, "persist")
  \/ At(c, "unpin") /\ cmd[c].pin /\ Of(c, f)
  \/ At(c, "save") /\ f \notin cmd[c].snap /\ cmd[c].at > t

Erased ==
  \A f \in Fwds \ Known :
    /\ f \in file => f \in unsaved \/ \E c \in Cmds : Erases(c, f, -1)
    /\ \A d \in Cmds : At(d, "save") /\ f \in cmd[d].snap =>
         \/ \E c \in Cmds : Erases(c, f, cmd[d].at)
         \/ f \notin file /\ clock.file > cmd[d].at
         \/ /\ f \in unsaved
            /\ \A c \in Cmds : At(c, "save") /\ f \notin cmd[c].snap => clock.file > cmd[c].at

Uncrossed == Apart /\ Handles /\ Remembered /\ Saved /\ Erased
IInv == Types /\ (~raced => Uncrossed)

-----------------------------------------------------------------------------
LEMMA InitIInv == Init => IInv
<1> SUFFICES ASSUME Init PROVE IInv
  OBVIOUS
<1> USE IdsAssumption DEF Init, Idle
<1>1. Types
  <2>1. cmd \in CmdType
    BY DEF CmdType, Pcs
  <2>2. byId \in [Fwds -> Flag] /\ overrides \in [Fwds -> Flag]
    BY DEF Flag
  <2>3. \A c \in Cmds : cmd[c].at = 0 /\ cmd[c].pc = "idle"
    OBVIOUS
  <2> QED
    <3>1. clock \in [taken : Nat, file : Nat] /\ clock.file <= clock.taken /\ clock.taken = 0
      OBVIOUS
    <3>2. file \in SUBSET Fwds /\ todo \in SUBSET Fwds /\ pins \in SUBSET Fwds
      OBVIOUS
    <3>3. live \in BOOLEAN /\ raced \in BOOLEAN
      OBVIOUS
    <3> QED
      BY <2>1, <2>2, <2>3, <3>1, <3>2, <3>3 DEF Types
<1>2. Apart
  BY DEF Apart, Restoring, At, Of
<1>3. Handles
  BY DEF Handles, At, Of
<1>4. Remembered
  <2>1. Kept = {}
    BY DEF Kept
  <2> QED
    BY <2>1 DEF Remembered, Pinned
<1>5. Saved
  <2>1. Kept = {}
    BY DEF Kept
  <2> QED
    BY <2>1 DEF Saved
<1>6. Erased
  BY DEF Erased, At
<1> QED
  BY <1>1, <1>2, <1>3, <1>4, <1>5, <1>6 DEF IInv, Uncrossed

(* The types of the commands, whatever becomes of one of them. *)
CmdsTyped == cmd \in CmdType /\ clock \in [taken : Nat, file : Nat]
CmdsPlaced ==
  \A c \in Cmds : /\ cmd[c].at <= clock.taken
                  /\ cmd[c].pc \in {"bind", "insert", "unpin", "set"} => cmd[c].f \in Fwds

LEMMA BeginTypes ==
  ASSUME Types, NEW c \in Cmds, NEW pc \in Pcs, NEW f \in Fwds \cup {"none"},
         NEW p \in BOOLEAN, Begin(c, pc, f, p), clock' = clock,
         pc \in {"bind", "insert", "unpin", "set"} => f \in Fwds
  PROVE  /\ CmdsTyped' /\ CmdsPlaced' /\ raced' \in BOOLEAN
         /\ \A d \in Cmds \ {c} : cmd'[d] = cmd[d]
         /\ cmd'[c].pc = pc /\ cmd'[c].f = f /\ cmd'[c].pin = p
<1> DEFINE new == [Idle EXCEPT !.pc = pc, !.f = f, !.pin = p]
<1>1. /\ new \in [pc : Pcs, f : Fwds \cup {"none"}, pin : BOOLEAN, snap : SUBSET Fwds, at : Nat]
      /\ new.pc = pc /\ new.f = f /\ new.pin = p /\ new.at = 0
  BY DEF Idle
<1>2. cmd' = [cmd EXCEPT ![c] = new]
  BY DEF Begin
<1> HIDE DEF new
<1>3. \A d \in Cmds : cmd'[d] = IF d = c THEN new ELSE cmd[d]
  BY <1>2 DEF Types, CmdType
<1>4. cmd' \in CmdType
  BY <1>1, <1>2 DEF Types, CmdType
<1>5. CmdsPlaced'
  BY <1>1, <1>3 DEF Types, CmdsPlaced
<1>6. raced' \in BOOLEAN
  <2>1. CASE raced \/ f \in Restoring \/ \E d \in Cmds : f \in Fwds /\ cmd[d].f = f
    BY <2>1, Zenon DEF Begin
  <2>2. CASE ~(raced \/ f \in Restoring \/ \E d \in Cmds : f \in Fwds /\ cmd[d].f = f)
    BY <2>2, Zenon DEF Begin
  <2> QED
    BY <2>1, <2>2
<1> QED
  BY <1>1, <1>3, <1>4, <1>5, <1>6 DEF CmdsTyped, Types

LEMMA GotoTypes ==
  ASSUME Types, NEW c \in Cmds, clock' = clock,
         Done(c) \/ \E pc \in {"insert", "persist"} :
                      Goto(c, pc) /\ (pc = "insert" => cmd[c].f \in Fwds)
  PROVE  CmdsTyped' /\ CmdsPlaced'
<1>1. CASE Done(c)
  BY <1>1 DEF Types, CmdsTyped, CmdsPlaced, CmdType, Done, Idle, Pcs
<1>2. ASSUME NEW pc \in {"insert", "persist"}, Goto(c, pc), pc = "insert" => cmd[c].f \in Fwds
      PROVE  CmdsTyped' /\ CmdsPlaced'
  <2>1. cmd' \in CmdType
    BY <1>2 DEF Types, CmdType, Goto, Pcs
  <2>2. CmdsPlaced'
    BY <1>2 DEF Types, CmdsPlaced, CmdType, Goto
  <2> QED
    BY <2>1, <2>2 DEF CmdsTyped, Types
<1> QED
  BY <1>1, <1>2

LEMMA GotoEffect ==
  ASSUME Types, NEW c \in Cmds, NEW pc \in Pcs, Goto(c, pc)
  PROVE  /\ \A d \in Cmds \ {c} : cmd'[d] = cmd[d]
         /\ cmd'[c].pc = pc /\ cmd'[c].f = cmd[c].f /\ cmd'[c].pin = cmd[c].pin
BY DEF Types, CmdType, Goto

LEMMA DoneEffect ==
  ASSUME Types, NEW c \in Cmds, Done(c)
  PROVE  /\ \A d \in Cmds \ {c} : cmd'[d] = cmd[d]
         /\ cmd'[c].pc = "idle" /\ cmd'[c].f = "none"
BY DEF Types, CmdType, Done, Idle

(* A step that takes no snapshot and writes no file keeps every pin's way  *)
(* into the file, and every former pin's way out of it, if what it pins is *)
(* about to be written, or is there with no write under way, and if what   *)
(* it unpins is about to be written, or is known as unsaved.               *)
Unwritten ==
  /\ file' = file /\ clock' = clock
  /\ \A c \in Cmds : cmd[c].pc \in {"persist", "save"} => cmd'[c] = cmd[c]
  /\ \A c \in Cmds : cmd'[c].pc = "save" => cmd'[c] = cmd[c]
  /\ \A c \in Cmds : At(c, "unpin") /\ cmd[c].pin => cmd'[c] = cmd[c] \/ cmd'[c].pc = "persist"

LEMMA SavedFrame ==
  ASSUME Saved, Unwritten,
         \A f \in Kept' :
           \/ f \in Kept
           \/ \E c \in Cmds : cmd'[c].f = f /\ cmd'[c].pc = "persist"
           \/ f \in file /\ \A c \in Cmds : ~At(c, "save")
  PROVE  Saved'
<1> SUFFICES ASSUME NEW f \in Kept'
             PROVE  /\ f \in file' \/ \E c \in Cmds : Writes(c, f, -1)'
                    /\ \A d \in Cmds : At(d, "save")' /\ f \notin cmd'[d].snap =>
                         \/ \E c \in Cmds : Writes(c, f, cmd[d].at)'
                         \/ f \in file' /\ clock'.file > cmd'[d].at
  BY DEF Saved
<1>1. ASSUME NEW c \in Cmds, NEW t, Writes(c, f, t)
      PROVE  Writes(c, f, t)'
  BY <1>1 DEF Unwritten, Writes, At, Of
<1>2. CASE f \in Kept
  <2>1. f \in file' \/ \E c \in Cmds : Writes(c, f, -1)'
    BY <1>1, <1>2 DEF Saved, Unwritten
  <2>2. ASSUME NEW d \in Cmds, At(d, "save")', f \notin cmd'[d].snap
        PROVE  \/ \E c \in Cmds : Writes(c, f, cmd[d].at)'
               \/ f \in file' /\ clock'.file > cmd'[d].at
    <3>1. cmd'[d] = cmd[d] /\ At(d, "save")
      BY <2>2 DEF Unwritten, At
    <3>2. \/ \E c \in Cmds : Writes(c, f, cmd[d].at)
          \/ f \in file /\ clock.file > cmd[d].at
      BY <1>2, <2>2, <3>1 DEF Saved
    <3> QED
      BY <3>1, <3>2 DEF Unwritten, Writes, At, Of
  <2> QED
    BY <2>1, <2>2
<1>3. CASE \E c \in Cmds : cmd'[c].f = f /\ cmd'[c].pc = "persist"
  BY <1>3 DEF Writes, At, Of
<1>4. CASE f \in file /\ \A c \in Cmds : ~At(c, "save")
  BY <1>4 DEF Unwritten, At
<1> QED
  BY <1>2, <1>3, <1>4

LEMMA ErasedFrame ==
  ASSUME Types, Saved, Erased, Unwritten,
         \A f \in Fwds \ Known' :
           \/ f \notin Known /\ (f \in unsaved => f \in unsaved')
           \/ \E c \in Cmds : cmd'[c].pc = "persist"
           \/ \E c \in Cmds : cmd'[c].pc = "unpin" /\ cmd'[c].pin /\ cmd'[c].f = f
           \/ f \in Kept /\ f \in unsaved' /\ \A c \in Cmds : ~Of(c, f)
  PROVE  Erased'
<1> SUFFICES ASSUME NEW f \in Fwds \ Known'
             PROVE  /\ f \in file' => f \in unsaved' \/ \E c \in Cmds : Erases(c, f, -1)'
                    /\ \A d \in Cmds : At(d, "save")' /\ f \in cmd'[d].snap =>
                         \/ \E c \in Cmds : Erases(c, f, cmd[d].at)'
                         \/ f \notin file' /\ clock'.file > cmd'[d].at
                         \/ /\ f \in unsaved'
                            /\ \A c \in Cmds : At(c, "save")' /\ f \notin cmd'[c].snap
                                                 => clock'.file > cmd'[c].at
  BY DEF Erased
<1>1. \A c \in Cmds : At(c, "save")' => cmd'[c] = cmd[c] /\ At(c, "save")
  BY DEF Unwritten, At
<1>2. CASE f \notin Known /\ (f \in unsaved => f \in unsaved')
  <2>1. ASSUME NEW c \in Cmds, NEW t, Erases(c, f, t)
        PROVE  Erases(c, f, t)'
    BY <2>1 DEF Unwritten, Erases, At, Of
  <2>2. f \in file' => f \in unsaved' \/ \E c \in Cmds : Erases(c, f, -1)'
    BY <1>2, <2>1 DEF Erased, Unwritten
  <2>3. ASSUME NEW d \in Cmds, At(d, "save")', f \in cmd'[d].snap
        PROVE  \/ \E c \in Cmds : Erases(c, f, cmd[d].at)'
               \/ f \notin file' /\ clock'.file > cmd'[d].at
               \/ /\ f \in unsaved'
                  /\ \A c \in Cmds : At(c, "save")' /\ f \notin cmd'[c].snap
                                       => clock'.file > cmd'[c].at
    <3>1. \/ \E c \in Cmds : Erases(c, f, cmd[d].at)
          \/ f \notin file /\ clock.file > cmd[d].at
          \/ /\ f \in unsaved
             /\ \A c \in Cmds : At(c, "save") /\ f \notin cmd[c].snap => clock.file > cmd[c].at
      BY <1>1, <1>2, <2>3 DEF Erased
    <3>2. CASE \E c \in Cmds : Erases(c, f, cmd[d].at)
      BY <1>1, <2>3, <3>2 DEF Unwritten, Erases, At, Of
    <3>3. CASE f \notin file /\ clock.file > cmd[d].at
      BY <1>1, <2>3, <3>3 DEF Unwritten
    <3>4. CASE /\ f \in unsaved
               /\ \A c \in Cmds : At(c, "save") /\ f \notin cmd[c].snap => clock.file > cmd[c].at
      BY <1>1, <1>2, <3>4 DEF Unwritten
    <3> QED
      BY <3>1, <3>2, <3>3, <3>4
  <2> QED
    BY <2>2, <2>3
<1>3. CASE \E c \in Cmds : cmd'[c].pc = "persist"
  BY <1>3 DEF Erases, At
<1>4. CASE \E c \in Cmds : cmd'[c].pc = "unpin" /\ cmd'[c].pin /\ cmd'[c].f = f
  BY <1>4 DEF Erases, At, Of
<1>5. CASE f \in Kept /\ f \in unsaved' /\ \A c \in Cmds : ~Of(c, f)
  <2>1. \A c \in Cmds : At(c, "save") /\ f \notin cmd[c].snap => clock.file > cmd[c].at
    BY <1>5 DEF Saved, Writes
  <2> QED
    BY <1>1, <1>5, <2>1 DEF Unwritten
<1> QED
  BY <1>2, <1>3, <1>4, <1>5

-----------------------------------------------------------------------------
(* A command that begins on a forward nobody is at, that goes on to its    *)
(* next await, or that ends having done nothing.                           *)
LEMMA CommandOnly ==
  ASSUME Types, Uncrossed, NEW c \in Cmds,
         UNCHANGED <<byId, overrides, file, todo, doing, clock, pins, failed, stale, unsaved>>,
         \A d \in Cmds \ {c} : cmd'[d] = cmd[d],
         cmd[c].pc \in {"idle", "bind"},
         cmd'[c].pc \in {"idle", "bind", "insert", "set", "remove"},
         cmd'[c].pc \in {"bind", "insert"} => byId[cmd'[c].f] = "none",
         \/ cmd'[c].f \in {cmd[c].f, "none"}
         \/ cmd'[c].f \notin Restoring /\ \A d \in Cmds : cmd[d].f # cmd'[c].f
  PROVE  Uncrossed'
<1>1. UNCHANGED <<Kept, Known, Restoring>> /\ (\A g \in Fwds : Pinned(g)' <=> Pinned(g))
  BY DEF Kept, Known, Restoring, Pinned
<1>2. Restoring \subseteq Fwds /\ Kept \subseteq Fwds
  BY IdsAssumption DEF Types, Restoring, Kept
<1>3. Apart'
  BY <1>1, <1>2, IdsAssumption DEF Uncrossed, Apart, At, Of
<1>4. Handles'
  BY DEF Uncrossed, Handles, At, Of
<1>5. Remembered'
  BY <1>1, <1>2 DEF Uncrossed, Remembered
<1>6. Unwritten
  BY DEF Unwritten, At
<1> QED
  BY <1>1, <1>3, <1>4, <1>5, <1>6, SavedFrame, ErasedFrame DEF Uncrossed

LEMMA StartStep ==
  ASSUME IInv, NEW c \in Cmds, NEW f \in Fwds, NEW p \in BOOLEAN, Start(c, f, p)
  PROVE  IInv'
<1>1. Begin(c, "bind", f, p) /\ clock' = clock /\ "bind" \in Pcs /\ Types
  BY DEF Start, Pcs, IInv
<1>2. /\ CmdsTyped' /\ CmdsPlaced' /\ raced' \in BOOLEAN
      /\ \A d \in Cmds \ {c} : cmd'[d] = cmd[d]
      /\ cmd'[c].pc = "bind" /\ cmd'[c].f = f
  BY <1>1, BeginTypes
<1>3. UNCHANGED <<byId, overrides, file, live, todo, doing, clock, pins, failed, stale, unsaved,
                  restarts>>
  BY DEF Start, memory, restore
<1>4. Types'
  BY <1>1, <1>2, <1>3 DEF Types, CmdsTyped, CmdsPlaced
<1>5. ASSUME ~raced' PROVE Uncrossed'
  <2>1. Uncrossed /\ f \notin Restoring /\ (\A d \in Cmds : cmd[d].f # f) /\ cmd[c].pc = "idle"
    BY <1>1, <1>5 DEF Begin, IInv
  <2> QED
    BY <1>1, <1>2, <1>3, <2>1, CommandOnly DEF Start
<1> QED
  BY <1>4, <1>5 DEF IInv

LEMMA SetAutostartStep ==
  ASSUME IInv, NEW c \in Cmds, NEW f \in Fwds, NEW p \in BOOLEAN, SetAutostart(c, f, p)
  PROVE  IInv'
<1>1. Begin(c, "set", f, p) /\ clock' = clock /\ "set" \in Pcs /\ Types
  BY DEF SetAutostart, Pcs, IInv
<1>2. /\ CmdsTyped' /\ CmdsPlaced' /\ raced' \in BOOLEAN
      /\ \A d \in Cmds \ {c} : cmd'[d] = cmd[d]
      /\ cmd'[c].pc = "set" /\ cmd'[c].f = f
  BY <1>1, BeginTypes
<1>3. UNCHANGED <<byId, overrides, file, live, todo, doing, clock, pins, failed, stale, unsaved,
                  restarts>>
  BY DEF SetAutostart, memory, restore, Edit
<1>4. Types'
  BY <1>1, <1>2, <1>3 DEF Types, CmdsTyped, CmdsPlaced
<1>5. ASSUME ~raced' PROVE Uncrossed'
  <2>1. Uncrossed /\ f \notin Restoring /\ (\A d \in Cmds : cmd[d].f # f) /\ cmd[c].pc = "idle"
    BY <1>1, <1>5 DEF Begin, IInv
  <2> QED
    BY <1>1, <1>2, <1>3, <2>1, CommandOnly
<1> QED
  BY <1>4, <1>5 DEF IInv

LEMMA StartBindStep ==
  ASSUME IInv, NEW c \in Cmds, StartBind(c)
  PROVE  IInv'
<1>1. clock' = clock /\ {"insert", "idle"} \subseteq Pcs /\ Types /\ At(c, "bind") /\ cmd[c].f \in Fwds
  BY DEF StartBind, Pcs, IInv, Types, At
<1>2. CmdsTyped' /\ CmdsPlaced'
  BY <1>1, GotoTypes DEF StartBind
<1>3. /\ \A d \in Cmds \ {c} : cmd'[d] = cmd[d]
      /\ \/ cmd'[c].pc = "insert" /\ cmd'[c].f = cmd[c].f
         \/ cmd'[c].pc = "idle" /\ cmd'[c].f = "none"
  BY <1>1, GotoEffect, DoneEffect DEF StartBind
<1>4. UNCHANGED <<byId, overrides, file, live, todo, doing, clock, pins, failed, stale, unsaved,
                  raced, restarts>>
  BY DEF StartBind, memory, restore, history, bounds
<1>5. Types'
  BY <1>1, <1>2, <1>4 DEF Types, CmdsTyped, CmdsPlaced
<1>6. ASSUME ~raced' PROVE Uncrossed'
  <2>1. Uncrossed
    BY <1>4, <1>6 DEF IInv
  <2>2. byId[cmd[c].f] = "none"
    BY <1>1, <2>1 DEF Uncrossed, Handles, At
  <2> QED
    BY <1>1, <1>3, <1>4, <2>1, <2>2, CommandOnly DEF At
<1> QED
  BY <1>5, <1>6 DEF IInv

LEMMA AddSourceStep == IInv /\ AddSource => IInv'
<1> SUFFICES ASSUME IInv, AddSource PROVE IInv'
  OBVIOUS
<1>1. UNCHANGED <<byId, overrides, file, cmd, todo, doing, clock, pins, failed, stale, unsaved,
                  raced, restarts>> /\ live' = TRUE
  BY DEF AddSource, memory, restore, history, bounds
<1>2. Types'
  BY <1>1 DEF Types, IInv
<1>3. Uncrossed' = Uncrossed
  <2>1. UNCHANGED <<Kept, Known, Restoring>>
    BY <1>1 DEF Kept, Known, Restoring
  <2> QED
    BY <1>1, <2>1 DEF Uncrossed, Apart, Handles, Remembered, Saved, Erased, Writes, Erases, At, Of,
                      Pinned
<1> QED
  BY <1>1, <1>2, <1>3 DEF IInv

LEMMA RemoveSourceStep ==
  ASSUME IInv, NEW c \in Cmds, RemoveSource(c)
  PROVE  IInv'
<1>1. UNCHANGED <<byId, overrides, file, todo, doing, clock, pins, failed, stale, unsaved, restarts>>
      /\ live' = FALSE /\ Types /\ cmd[c].pc = "idle"
  BY DEF RemoveSource, memory, restore, Edit, IInv, Begin
<1>2. CASE UNCHANGED <<cmd, raced>>
  <2>1. Types'
    BY <1>1, <1>2 DEF Types
  <2>2. UNCHANGED <<Kept, Known, Restoring>>
    BY <1>1 DEF Kept, Known, Restoring
  <2>3. Uncrossed' = Uncrossed
    BY <1>1, <1>2, <2>2 DEF Uncrossed, Apart, Handles, Remembered, Saved, Erased, Writes, Erases,
                            At, Of, Pinned
  <2> QED
    BY <1>2, <2>1, <2>3 DEF IInv
<1>3. CASE Begin(c, "remove", "none", FALSE)
  <2>1. "remove" \in Pcs /\ "none" \in Fwds \cup {"none"} /\ FALSE \in BOOLEAN
    BY DEF Pcs
  <2>2. /\ CmdsTyped' /\ CmdsPlaced' /\ raced' \in BOOLEAN
        /\ \A d \in Cmds \ {c} : cmd'[d] = cmd[d]
        /\ cmd'[c].pc = "remove" /\ cmd'[c].f = "none"
    BY <1>1, <1>3, <2>1, BeginTypes
  <2>3. Types'
    BY <1>1, <2>2 DEF Types, CmdsTyped, CmdsPlaced
  <2>4. ASSUME ~raced' PROVE Uncrossed'
    <3>1. Uncrossed
      BY <1>3, <2>4 DEF Begin, IInv
    <3> QED
      BY <1>1, <2>2, <3>1, CommandOnly
  <2> QED
    BY <2>3, <2>4 DEF IInv
<1> QED
  BY <1>2, <1>3 DEF RemoveSource

LEMMA StartInsertStep ==
  ASSUME IInv, NEW c \in Cmds, StartInsert(c)
  PROVE  IInv'
<1> DEFINE f == cmd[c].f
<1>1. /\ Types /\ At(c, "insert") /\ f \in Fwds /\ cmd[c].pin \in BOOLEAN
      /\ {"persist", "idle"} \subseteq Pcs
      /\ byId' = [byId EXCEPT ![f] = On(cmd[c].pin)]
      /\ pins' = IF cmd[c].pin THEN pins \cup {f} ELSE pins
      /\ UNCHANGED <<overrides, file, live, todo, doing, clock, failed, stale, unsaved, raced,
                     restarts>>
  BY DEF StartInsert, Handled, Pcs, IInv, Types, CmdType, At, restore, bounds
<1>2. CmdsTyped' /\ CmdsPlaced'
  BY <1>1, GotoTypes DEF StartInsert
<1>3. /\ \A d \in Cmds \ {c} : cmd'[d] = cmd[d]
      /\ \/ cmd[c].pin /\ cmd'[c].pc = "persist" /\ cmd'[c].f = f
         \/ ~cmd[c].pin /\ cmd'[c].pc = "idle" /\ cmd'[c].f = "none"
  BY <1>1, GotoEffect, DoneEffect DEF StartInsert
<1>4. /\ \A g \in Fwds : byId'[g] = IF g = f THEN On(cmd[c].pin) ELSE byId[g]
      /\ byId' \in [Fwds -> Flag] /\ On(cmd[c].pin) # "none"
  BY <1>1 DEF Types, Flag, On
<1>5. Types'
  BY <1>1, <1>2, <1>4 DEF Types, CmdsTyped, CmdsPlaced
<1>6. ASSUME ~raced' PROVE Uncrossed'
  <2>1. Uncrossed /\ Apart /\ Handles /\ Remembered /\ Saved /\ Erased
    BY <1>1, <1>6 DEF IInv, Uncrossed
  <2>2. /\ byId[f] = "none" /\ f \notin Restoring
        /\ \A d \in Cmds : cmd[d].f = f => d = c
        /\ overrides[f] # "none" => f \in stale
    <3>1. byId[f] = "none" /\ f \notin Restoring /\ f # doing
      BY <1>1, <2>1, IdsAssumption DEF Apart, Handles, At, Restoring
    <3>2. \A d \in Cmds : cmd[d].f = f => d = c
      BY <1>1, <2>1 DEF Apart, Of
    <3> QED
      BY <1>1, <2>1, <3>1, <3>2 DEF Handles, At, Of
  <2>3. Restoring \subseteq Fwds /\ Kept \subseteq Fwds /\ Kept' \subseteq Fwds /\ Restoring' = Restoring
    BY <1>1, IdsAssumption DEF Types, Restoring, Kept
  <2>4. f \notin Kept
    BY <2>1, <2>2 DEF Remembered, Pinned
  <2>5. \A g \in Fwds \ {f} : Pinned(g)' <=> Pinned(g)
    BY <1>1, <1>4 DEF Pinned
  <2>6. /\ \A g \in Fwds \ {f} : g \in Kept' <=> g \in Kept
        /\ f \in Kept' => cmd[c].pin /\ overrides[f] = "none"
        /\ Known \subseteq Known'
    BY <1>1, <2>2, <2>4 DEF Kept, Known
  <2>7. Apart'
    BY <1>1, <1>3, <1>4, <2>1, <2>2, <2>3, IdsAssumption DEF Apart, At, Of
  <2>8. Handles'
    BY <1>1, <1>3, <1>4, <2>1, <2>2 DEF Handles, At, Of, Types
  <2>9. Remembered'
    <3>1. ASSUME NEW g \in Kept', g \notin Restoring' PROVE Pinned(g)'
      BY <1>1, <1>4, <2>1, <2>3, <2>5, <2>6, <3>1 DEF Remembered, Pinned, On
    <3>2. ASSUME NEW g \in Fwds, Pinned(g)' PROVE g \in pins' \cup stale'
      BY <1>1, <1>4, <2>1, <2>2, <2>5, <3>2 DEF Remembered, Pinned, On
    <3> QED
      BY <3>1, <3>2 DEF Remembered
  <2>10. Unwritten
    BY <1>1, <1>3 DEF Unwritten, At
  <2>11. Saved'
    BY <1>3, <2>1, <2>3, <2>6, <2>10, SavedFrame
  <2>12. Erased'
    BY <1>1, <2>1, <2>6, <2>10, ErasedFrame
  <2> QED
    BY <2>7, <2>8, <2>9, <2>11, <2>12 DEF Uncrossed
<1> QED
  BY <1>5, <1>6 DEF IInv

LEMMA StopStep ==
  ASSUME IInv, NEW c \in Cmds, NEW f \in Fwds, Stop(c, f)
  PROVE  IInv'
<1>1. /\ Types /\ Begin(c, "unpin", f, byId[f] = "on") /\ byId[f] # "none"
      /\ "unpin" \in Pcs /\ (byId[f] = "on") \in BOOLEAN
      /\ byId' = [byId EXCEPT ![f] = "none"] /\ pins' = pins \ {f}
      /\ unsaved' = IF byId[f] = "off" THEN unsaved \cup {f} ELSE unsaved
      /\ UNCHANGED <<overrides, file, live, todo, doing, clock, failed, stale, restarts>>
  BY DEF Stop, Pcs, IInv, restore, Edit, Registered
<1>2. /\ CmdsTyped' /\ CmdsPlaced' /\ raced' \in BOOLEAN
      /\ \A d \in Cmds \ {c} : cmd'[d] = cmd[d]
      /\ cmd'[c].pc = "unpin" /\ cmd'[c].f = f /\ cmd'[c].pin = (byId[f] = "on")
  BY <1>1, BeginTypes
<1>3. (\A g \in Fwds : byId'[g] = IF g = f THEN "none" ELSE byId[g]) /\ byId' \in [Fwds -> Flag]
  BY <1>1 DEF Types, Flag
<1>4. Types'
  BY <1>1, <1>2, <1>3 DEF Types, CmdsTyped, CmdsPlaced
<1>5. ASSUME ~raced' PROVE Uncrossed'
  <2>1. /\ Uncrossed /\ Apart /\ Handles /\ Remembered /\ Saved /\ Erased
        /\ f \notin Restoring /\ (\A d \in Cmds : cmd[d].f # f) /\ cmd[c].pc = "idle"
    BY <1>1, <1>5 DEF Begin, IInv, Uncrossed
  <2>2. /\ Restoring \subseteq Fwds /\ Kept \subseteq Fwds /\ Restoring' = Restoring
        /\ Kept' = Kept \ {f} /\ Known \ {f} \subseteq Known'
        /\ f \in Known /\ f \notin Known' => f \in Kept
    BY <1>1, IdsAssumption DEF Types, Restoring, Kept, Known
  <2>3. (\A g \in Fwds \ {f} : Pinned(g)' <=> Pinned(g)) /\ ~Pinned(f)'
    BY <1>1, <1>3 DEF Pinned
  <2>4. Apart'
    BY <1>1, <1>2, <1>3, <2>1, <2>2, IdsAssumption DEF Apart, At, Of
  <2>5. Handles'
    BY <1>1, <1>2, <1>3, <2>1 DEF Handles, At, Of, Types
  <2>6. Remembered'
    BY <1>1, <2>1, <2>2, <2>3 DEF Remembered
  <2>7. Unwritten
    BY <1>1, <1>2, <2>1 DEF Unwritten, At
  <2>8. Saved'
    BY <2>1, <2>2, <2>7, SavedFrame
  <2>9. ASSUME NEW g \in Fwds \ Known'
        PROVE  \/ g \notin Known /\ (g \in unsaved => g \in unsaved')
               \/ \E d \in Cmds : cmd'[d].pc = "persist"
               \/ \E d \in Cmds : cmd'[d].pc = "unpin" /\ cmd'[d].pin /\ cmd'[d].f = g
               \/ g \in Kept /\ g \in unsaved' /\ \A d \in Cmds : ~Of(d, g)
    <3>1. CASE g \notin Known
      BY <1>1, <3>1
    <3>2. CASE g \in Known /\ byId[f] = "on"
      BY <1>2, <2>2, <3>2
    <3>3. CASE g \in Known /\ byId[f] # "on"
      BY <1>1, <2>1, <2>2, <3>3 DEF Of, Types, Flag
    <3> QED
      BY <3>1, <3>2, <3>3
  <2>10. Erased'
    BY <1>1, <2>1, <2>7, <2>9, ErasedFrame
  <2> QED
    BY <2>4, <2>5, <2>6, <2>8, <2>10 DEF Uncrossed
<1> QED
  BY <1>4, <1>5 DEF IInv

LEMMA StopUnpinStep ==
  ASSUME IInv, NEW c \in Cmds, StopUnpin(c)
  PROVE  IInv'
<1> DEFINE f == cmd[c].f
<1>1. /\ Types /\ At(c, "unpin") /\ f \in Fwds /\ cmd[c].pin \in BOOLEAN
      /\ {"persist", "idle"} \subseteq Pcs
      /\ overrides' = [overrides EXCEPT ![f] = "none"]
      /\ UNCHANGED <<byId, file, live, todo, doing, clock, pins, failed, stale, unsaved, raced,
                     restarts>>
  BY DEF StopUnpin, Unpinned, Pcs, IInv, Types, CmdType, At, restore, history, bounds
<1>2. CmdsTyped' /\ CmdsPlaced'
  BY <1>1, GotoTypes DEF StopUnpin
<1>3. /\ \A d \in Cmds \ {c} : cmd'[d] = cmd[d]
      /\ \/ cmd[c].pin /\ cmd'[c].pc = "persist" /\ cmd'[c].f = f
         \/ ~cmd[c].pin /\ cmd'[c].pc = "idle" /\ cmd'[c].f = "none"
  BY <1>1, GotoEffect, DoneEffect DEF StopUnpin
<1>4. /\ \A g \in Fwds : overrides'[g] = IF g = f THEN "none" ELSE overrides[g]
      /\ overrides' \in [Fwds -> Flag]
  BY <1>1 DEF Types, Flag
<1>5. Types'
  BY <1>1, <1>2, <1>4 DEF Types, CmdsTyped, CmdsPlaced
<1>6. ASSUME ~raced' PROVE Uncrossed'
  <2>1. Uncrossed /\ Apart /\ Handles /\ Remembered /\ Saved /\ Erased
    BY <1>1, <1>6 DEF IInv, Uncrossed
  <2>2. byId[f] = "none" /\ f \notin Restoring /\ f # doing
    BY <1>1, <2>1, IdsAssumption DEF Apart, Handles, At, Restoring
  <2>3. /\ Restoring \subseteq Fwds /\ Kept \subseteq Fwds
        /\ UNCHANGED <<Restoring, Kept, Known>>
    BY <1>1, IdsAssumption DEF Types, Restoring, Kept, Known
  <2>4. \A g \in Fwds : Pinned(g)' <=> Pinned(g)
    BY <1>1, <1>4, <2>2 DEF Pinned
  <2>5. Apart'
    BY <1>1, <1>3, <1>4, <2>1, <2>2, <2>3, IdsAssumption DEF Apart, At, Of, Types
  <2>6. Handles'
    BY <1>1, <1>3, <1>4, <2>1, <2>2 DEF Handles, At, Of, Types
  <2>7. Remembered'
    BY <1>1, <2>1, <2>3, <2>4 DEF Remembered
  <2>8. Unwritten
    BY <1>1, <1>3 DEF Unwritten, At
  <2> QED
    BY <1>1, <2>1, <2>3, <2>5, <2>6, <2>7, <2>8, SavedFrame, ErasedFrame DEF Uncrossed
<1> QED
  BY <1>5, <1>6 DEF IInv

LEMMA SetOverrideStep ==
  ASSUME IInv, NEW c \in Cmds, SetOverride(c)
  PROVE  IInv'
<1> DEFINE f == cmd[c].f
           keep == cmd[c].pin /\ f \in Registered
<1>1. /\ Types /\ At(c, "set") /\ f \in Fwds /\ cmd[c].pin \in BOOLEAN
      /\ "persist" \in Pcs /\ Goto(c, "persist")
      /\ overrides' = [overrides EXCEPT ![f] = On(cmd[c].pin)]
      /\ pins' = IF keep THEN pins \cup {f} ELSE pins \ {f}
      /\ stale' = IF f \in Registered THEN stale ELSE stale \cup {f}
      /\ UNCHANGED <<byId, file, live, todo, doing, clock, failed, unsaved, raced, restarts>>
  BY DEF SetOverride, Overrode, Pcs, IInv, Types, CmdType, At, restore, bounds
<1>2. CmdsTyped' /\ CmdsPlaced'
  BY <1>1, GotoTypes
<1>3. /\ \A d \in Cmds \ {c} : cmd'[d] = cmd[d]
      /\ cmd'[c].pc = "persist" /\ cmd'[c].f = f
  BY <1>1, GotoEffect
<1>4. /\ \A g \in Fwds : overrides'[g] = IF g = f THEN On(cmd[c].pin) ELSE overrides[g]
      /\ overrides' \in [Fwds -> Flag] /\ pins' \in SUBSET Fwds
  BY <1>1 DEF Types, Flag, On
<1>5. Types'
  BY <1>1, <1>2, <1>4 DEF Types, CmdsTyped, CmdsPlaced
<1>6. ASSUME ~raced' PROVE Uncrossed'
  <2>1. Uncrossed /\ Apart /\ Handles /\ Remembered /\ Saved /\ Erased
    BY <1>1, <1>6 DEF IInv, Uncrossed
  <2>2. /\ f \notin Restoring /\ f # doing
        /\ \A d \in Cmds : cmd[d].f = f => d = c
        /\ byId[f] # "none" <=> f \in Registered
    BY <1>1, <2>1, IdsAssumption DEF Apart, Of, Restoring, Registered
  <2>3. Restoring \subseteq Fwds /\ Kept' \subseteq Fwds /\ Restoring' = Restoring
    BY <1>1, <1>4, IdsAssumption DEF Types, Restoring, Kept
  <2>4. \A g \in Fwds : /\ g # f => (Pinned(g)' <=> Pinned(g))
                        /\ g = f => (Pinned(g)' <=> keep)
    BY <1>1, <1>4, <2>2 DEF Pinned, On
  <2>5. /\ \A g \in Fwds \ {f} : g \in Kept' <=> g \in Kept
        /\ f \in Kept' => keep
    BY <1>1 DEF Kept
  <2>6. Apart'
    BY <1>1, <1>3, <1>4, <2>1, <2>2, <2>3, IdsAssumption DEF Apart, At, Of, Types
  <2>7. Handles'
    BY <1>1, <1>3, <1>4, <2>1, <2>2 DEF Handles, At, Of, Types
  <2>8. Remembered'
    BY <1>1, <2>1, <2>3, <2>4, <2>5 DEF Remembered
  <2>9. Unwritten
    BY <1>1, <1>3 DEF Unwritten, At
  <2>10. Saved'
    BY <1>3, <2>1, <2>3, <2>5, <2>9, SavedFrame
  <2>11. Erased'
    BY <1>1, <1>3, <2>1, <2>9, ErasedFrame
  <2> QED
    BY <2>6, <2>7, <2>8, <2>10, <2>11 DEF Uncrossed
<1> QED
  BY <1>5, <1>6 DEF IInv

LEMMA CleanupRemoveStep ==
  ASSUME IInv, NEW c \in Cmds, CleanupRemove(c)
  PROVE  IInv'
<1>1. /\ Types /\ At(c, "remove") /\ "persist" \in Pcs /\ Goto(c, "persist")
      /\ byId' = [f \in Fwds |-> IF f \in Registered THEN "none" ELSE byId[f]]
      /\ pins' = pins \ Registered
      /\ stale' = stale \cup (Registered \cap Overridden)
      /\ UNCHANGED <<overrides, file, live, todo, doing, clock, failed, unsaved, raced, restarts>>
  BY DEF CleanupRemove, Removed, Pcs, IInv, At, restore, bounds
<1>2. CmdsTyped' /\ CmdsPlaced'
  BY <1>1, GotoTypes
<1>3. /\ \A d \in Cmds \ {c} : cmd'[d] = cmd[d]
      /\ cmd'[c].pc = "persist" /\ cmd'[c].f = cmd[c].f
  BY <1>1, GotoEffect
<1>4. (\A g \in Fwds : byId'[g] = "none") /\ byId' \in [Fwds -> Flag]
  BY <1>1 DEF Registered, Flag
<1>5. Types'
  BY <1>1, <1>2, <1>4 DEF Types, CmdsTyped, CmdsPlaced
<1>6. ASSUME ~raced' PROVE Uncrossed'
  <2>1. Uncrossed /\ Apart /\ Handles /\ Remembered /\ Saved /\ Erased
    BY <1>1, <1>6 DEF IInv, Uncrossed
  <2>2. /\ Restoring \subseteq Fwds /\ Kept \subseteq Fwds /\ Restoring' = Restoring
        /\ Kept' \subseteq Kept \ Registered
    BY <1>1, IdsAssumption DEF Types, Restoring, Kept
  <2>3. \A g \in Fwds : ~Pinned(g)'
    BY <1>4 DEF Pinned
  <2>4. Apart'
    BY <1>1, <1>3, <1>4, <2>1, <2>2, IdsAssumption DEF Apart, At, Of
  <2>5. Handles'
    BY <1>1, <1>3, <1>4, <1>5, <2>1 DEF Handles, At, Of, Types, Registered, Overridden
  <2>6. Remembered'
    BY <1>1, <2>1, <2>2, <2>3 DEF Remembered, Registered, Pinned
  <2>7. Unwritten
    BY <1>1, <1>3 DEF Unwritten, At
  <2>8. Saved'
    BY <2>1, <2>2, <2>7, SavedFrame
  <2>9. Erased'
    BY <1>1, <1>3, <2>1, <2>7, ErasedFrame
  <2> QED
    BY <2>4, <2>5, <2>6, <2>8, <2>9 DEF Uncrossed
<1> QED
  BY <1>5, <1>6 DEF IInv

LEMMA DisconnectStep == IInv /\ Disconnect => IInv'
<1> SUFFICES ASSUME IInv, Disconnect PROVE IInv'
  OBVIOUS
<1>1. /\ Types
      /\ byId' = [f \in Fwds |-> IF f \in Ephemeral THEN "none" ELSE byId[f]]
      /\ overrides' = [f \in Fwds |-> IF f \in Ephemeral THEN "none" ELSE overrides[f]]
      /\ UNCHANGED <<file, live, cmd, todo, doing, clock, pins, failed, stale, unsaved, raced,
                     restarts>>
  BY DEF Disconnect, IInv, restore, history, Edit
<1>2. byId' \in [Fwds -> Flag] /\ overrides' \in [Fwds -> Flag]
  BY <1>1 DEF Types, Flag
<1>3. Types'
  BY <1>1, <1>2 DEF Types
<1>4. ASSUME ~raced' PROVE Uncrossed'
  <2>1. Uncrossed /\ Apart /\ Handles /\ Remembered /\ Saved /\ Erased
    BY <1>1, <1>4 DEF IInv, Uncrossed
  <2>2. /\ Restoring \subseteq Fwds /\ Kept \subseteq Fwds
        /\ UNCHANGED <<Restoring, Kept, Known>>
    BY <1>1, IdsAssumption DEF Types, Restoring, Kept, Known
  <2>3. \A g \in Fwds : /\ g \in Ephemeral <=> byId[g] # "none" /\ ~Pinned(g)
                        /\ byId[g] = "none" => byId'[g] = "none" /\ overrides'[g] = overrides[g]
    BY <1>1 DEF Ephemeral, Registered
  <2>4. \A g \in Fwds : Pinned(g)' <=> Pinned(g)
    BY <1>1, <2>3 DEF Pinned
  <2>5. Apart'
    BY <1>1, <2>1, <2>2, <2>3, IdsAssumption DEF Apart, At, Of, Types, Restoring
  <2>6. Handles'
    BY <1>1, <2>1, <2>3 DEF Handles, At, Of, Types
  <2>7. Remembered'
    BY <1>1, <2>1, <2>2, <2>4 DEF Remembered
  <2>8. Unwritten
    BY <1>1 DEF Unwritten
  <2> QED
    BY <1>1, <2>1, <2>2, <2>5, <2>6, <2>7, <2>8, SavedFrame, ErasedFrame DEF Uncrossed
<1> QED
  BY <1>3, <1>4 DEF IInv

LEMMA RestoreNextStep == IInv /\ RestoreNext => IInv'
<1> SUFFICES ASSUME IInv, RestoreNext PROVE IInv'
  OBVIOUS
<1>1. PICK f \in todo : doing' = f /\ todo' = todo \ {f} /\ Overrode(f, TRUE)
  BY DEF RestoreNext
<1>2. /\ Types /\ doing = "none" /\ f \in Fwds /\ f # "none"
      /\ overrides' = [overrides EXCEPT ![f] = "on"]
      /\ UNCHANGED <<byId, file, live, cmd, clock, pins, failed, stale, unsaved, raced, restarts>>
  BY <1>1, IdsAssumption DEF RestoreNext, Overrode, On, IInv, Types, history, bounds
<1>3. /\ \A g \in Fwds : overrides'[g] = IF g = f THEN "on" ELSE overrides[g]
      /\ overrides' \in [Fwds -> Flag]
  BY <1>2 DEF Types, Flag
<1>4. Types'
  BY <1>1, <1>2, <1>3 DEF Types
<1>5. ASSUME ~raced' PROVE Uncrossed'
  <2>1. Uncrossed /\ Apart /\ Handles /\ Remembered /\ Saved /\ Erased
    BY <1>2, <1>5 DEF IInv, Uncrossed
  <2>2. /\ Restoring \subseteq Fwds /\ Kept \subseteq Fwds /\ f \in Restoring
        /\ UNCHANGED <<Restoring, Kept, Known>>
    BY <1>1, <1>2, IdsAssumption DEF Types, Restoring, Kept, Known
  <2>3. \A g \in Fwds : Pinned(g)' <=> Pinned(g)
    BY <1>2, <1>3, <2>1, <2>2 DEF Pinned, Apart
  <2>4. Apart'
    BY <1>1, <1>2, <1>3, <2>1, <2>2, IdsAssumption DEF Apart, At, Of
  <2>5. Handles'
    BY <1>1, <1>2, <1>3, <2>1, IdsAssumption DEF Handles, At, Of, Types
  <2>6. Remembered'
    BY <1>2, <2>1, <2>2, <2>3 DEF Remembered
  <2>7. Unwritten
    BY <1>2 DEF Unwritten
  <2> QED
    BY <1>2, <2>1, <2>2, <2>4, <2>5, <2>6, <2>7, SavedFrame, ErasedFrame DEF Uncrossed
<1> QED
  BY <1>4, <1>5 DEF IInv

LEMMA RestoreInsertStep == IInv /\ RestoreInsert => IInv'
<1> SUFFICES ASSUME IInv, RestoreInsert PROVE IInv'
  OBVIOUS
<1>1. /\ Types /\ doing \in Fwds /\ doing # "none" /\ doing' = "none"
      /\ byId' = [byId EXCEPT ![doing] = "on"]
      /\ pins' = pins \cup {doing} /\ failed' = failed \ {doing}
      /\ UNCHANGED <<overrides, file, live, cmd, todo, clock, stale, unsaved, raced, restarts>>
  BY DEF RestoreInsert, Handled, On, IInv, Types, bounds
<1>2. /\ \A g \in Fwds : byId'[g] = IF g = doing THEN "on" ELSE byId[g]
      /\ byId' \in [Fwds -> Flag]
  BY <1>1 DEF Types, Flag
<1>3. Types'
  BY <1>1, <1>2 DEF Types
<1>4. ASSUME ~raced' PROVE Uncrossed'
  <2>1. Uncrossed /\ Apart /\ Handles /\ Remembered /\ Saved /\ Erased
    BY <1>1, <1>4 DEF IInv, Uncrossed
  <2>2. /\ Restoring \subseteq Fwds /\ Kept' \subseteq Fwds /\ doing \in Restoring
        /\ doing \notin todo /\ Restoring' = todo /\ Restoring = todo \cup {doing}
        /\ Kept' \subseteq Kept \cup {doing} /\ Known \subseteq Known'
    BY <1>1, <2>1, IdsAssumption DEF Types, Restoring, Kept, Known, Apart
  <2>3. \A g \in Fwds : /\ g # doing => (Pinned(g)' <=> Pinned(g))
                        /\ g = doing => Pinned(g)'
    BY <1>1, <1>2, <2>1 DEF Pinned, Apart
  <2>4. Apart'
    BY <1>1, <1>2, <2>1, <2>2, IdsAssumption DEF Apart, At, Of
  <2>5. Handles'
    <3>1. \A d \in Cmds : cmd[d].f # doing
      BY <2>1, <2>2 DEF Apart
    <3> QED
      BY <1>1, <1>2, <2>1, <3>1 DEF Handles, At, Of, Types
  <2>6. Remembered'
    BY <1>1, <2>1, <2>2, <2>3 DEF Remembered
  <2>7. Unwritten
    BY <1>1 DEF Unwritten
  <2>8. doing \in file /\ \A c \in Cmds : ~At(c, "save")
    BY <2>1, <2>2 DEF Apart
  <2>9. Saved'
    BY <2>1, <2>2, <2>7, <2>8, SavedFrame
  <2>10. Erased'
    BY <1>1, <2>1, <2>2, <2>7, ErasedFrame
  <2> QED
    BY <2>4, <2>5, <2>6, <2>9, <2>10 DEF Uncrossed
<1> QED
  BY <1>3, <1>4 DEF IInv

LEMMA RestoreFailsStep == IInv /\ RestoreFails => IInv'
<1> SUFFICES ASSUME IInv, RestoreFails PROVE IInv'
  OBVIOUS
<1>1. /\ Types /\ doing \in Fwds /\ doing # "none" /\ doing' = "none"
      /\ failed' = failed \cup {doing} /\ stale' = stale \cup {doing}
      /\ UNCHANGED <<byId, overrides, file, live, cmd, todo, clock, pins, unsaved, raced, restarts>>
  BY DEF RestoreFails, IInv, Types, memory, bounds
<1>2. Types'
  BY <1>1 DEF Types
<1>3. ASSUME ~raced' PROVE Uncrossed'
  <2>1. Uncrossed /\ Apart /\ Handles /\ Remembered /\ Saved /\ Erased
    BY <1>1, <1>3 DEF IInv, Uncrossed
  <2>2. /\ Restoring \subseteq Fwds /\ Kept' \subseteq Fwds
        /\ Restoring' = todo /\ Restoring = todo \cup {doing}
        /\ Kept' = Kept \ {doing} /\ Known \subseteq Known'
    BY <1>1, <2>1, IdsAssumption DEF Types, Restoring, Kept, Known
  <2>3. \A g \in Fwds : Pinned(g)' <=> Pinned(g)
    BY <1>1 DEF Pinned
  <2>4. Apart'
    BY <1>1, <2>1, <2>2, IdsAssumption DEF Apart, At, Of
  <2>5. Handles'
    BY <1>1, <2>1 DEF Handles, At, Of
  <2>6. Remembered'
    BY <1>1, <2>1, <2>2, <2>3 DEF Remembered
  <2>7. Unwritten
    BY <1>1 DEF Unwritten
  <2>8. Saved'
    BY <2>1, <2>2, <2>7, SavedFrame
  <2>9. Erased'
    BY <1>1, <2>1, <2>2, <2>7, ErasedFrame
  <2> QED
    BY <2>4, <2>5, <2>6, <2>8, <2>9 DEF Uncrossed
<1> QED
  BY <1>2, <1>3 DEF IInv

LEMMA RestartStep == IInv /\ Restart => IInv'
<1> SUFFICES ASSUME IInv, Restart PROVE IInv'
  OBVIOUS
<1>1. /\ Types /\ \A f \in Fwds : byId'[f] = "none" /\ overrides'[f] = "none"
      /\ \A c \in Cmds : cmd'[c].pc = "idle" /\ cmd'[c].f = "none" /\ cmd'[c].at = 0
      /\ todo' = file /\ doing' = "none" /\ pins' = file /\ failed' = {} /\ stale' = {}
      /\ clock' = [taken |-> 0, file |-> 0] /\ file' = file
  BY DEF Restart, IInv, Idle
<1>2. Types'
  <2>1. cmd' \in CmdType
    BY DEF Restart, Idle, CmdType, Pcs
  <2>2. byId' \in [Fwds -> Flag] /\ overrides' \in [Fwds -> Flag]
    BY DEF Restart, Flag
  <2>3. clock' \in [taken : Nat, file : Nat] /\ clock'.file <= clock'.taken /\ clock'.taken = 0
    BY <1>1
  <2>4. live' = live /\ raced' \in BOOLEAN
    BY DEF Restart
  <2>5. restarts' \in Nat
    BY <1>1 DEF Restart, Types
  <2> QED
    BY <1>1, <2>1, <2>2, <2>3, <2>4, <2>5 DEF Types
<1>3. Kept' = file /\ Known' = file /\ Restoring' = file /\ file \subseteq Fwds
  BY <1>1 DEF Kept, Known, Restoring, Types
<1>4. Apart'
  BY <1>1, <1>3, IdsAssumption DEF Apart, At, Of
<1>5. Handles'
  BY <1>1 DEF Handles, At, Of
<1>6. Remembered'
  BY <1>1, <1>3 DEF Remembered, Pinned
<1>7. Saved'
  BY <1>1, <1>3 DEF Saved, At
<1>8. Erased'
  BY <1>1, <1>3 DEF Erased, At
<1> QED
  BY <1>2, <1>4, <1>5, <1>6, <1>7, <1>8 DEF IInv, Uncrossed

(* persist_forwards: the snapshot has every pin the file must have and     *)
(* nothing that is not known, and is newer than all others.                *)
LEMMA PersistStep ==
  ASSUME IInv, NEW c \in Cmds, Persist(c)
  PROVE  IInv'
<1>1. /\ Types /\ At(c, "persist") /\ Snapshot \in SUBSET Fwds
      /\ UNCHANGED <<byId, overrides, file, live, todo, doing, pins, failed, stale, unsaved, restarts>>
  BY DEF Persist, IInv, At, Snapshot, memory, restore, bounds
<1>2. /\ clock' \in [taken : Nat, file : Nat] /\ clock'.taken = clock.taken + 1
      /\ clock'.file = clock.file /\ clock.taken \in Nat /\ clock.file \in Nat
  BY <1>1 DEF Types, Persist
<1>3. /\ cmd' \in CmdType /\ \A d \in Cmds \ {c} : cmd'[d] = cmd[d]
      /\ cmd'[c].pc = "save" /\ cmd'[c].f = cmd[c].f
      /\ cmd'[c].snap = Snapshot /\ cmd'[c].at = clock.taken + 1
  BY <1>1, <1>2 DEF Types, CmdType, Pcs, Persist
<1>4. raced' \in BOOLEAN
  <2>1. CASE raced \/ Restoring # {}
    BY <2>1, Zenon DEF Persist
  <2>2. CASE ~(raced \/ Restoring # {})
    BY <2>2, Zenon DEF Persist
  <2> QED
    BY <2>1, <2>2
<1>5. \A d \in Cmds : cmd[d].at \in Nat /\ cmd[d].at < clock.taken + 1
  BY <1>1, <1>2 DEF Types, CmdType
<1>6. Types'
  <2>1. \A d \in Cmds : /\ cmd'[d].at <= clock'.taken
                        /\ cmd'[d].pc \in {"bind", "insert", "unpin", "set"} => cmd'[d].f \in Fwds
    BY <1>1, <1>2, <1>3, <1>5 DEF Types
  <2>2. clock'.file <= clock'.taken
    BY <1>1, <1>2 DEF Types
  <2> QED
    BY <1>1, <1>2, <1>3, <1>4, <2>1, <2>2 DEF Types
<1>7. ASSUME ~raced' PROVE Uncrossed'
  <2>1. Uncrossed /\ Apart /\ Handles /\ Remembered /\ Saved /\ Erased /\ Restoring = {}
    BY <1>7 DEF IInv, Uncrossed, Persist
  <2>2. /\ UNCHANGED <<Restoring, Kept, Known>> /\ Kept \subseteq Fwds
        /\ \A g \in Fwds : Pinned(g)' <=> Pinned(g)
    BY <1>1 DEF Restoring, Kept, Known, Pinned, Types
  <2>3. \A g \in Kept : g \in Snapshot
    BY <2>1, <2>2 DEF Remembered, Snapshot
  <2>4. \A g \in Fwds \ Known : g \notin Snapshot
    BY <2>1 DEF Remembered, Snapshot, Known
  <2>5. Apart'
    BY <1>1, <1>3, <2>1, <2>2 DEF Apart, At, Of
  <2>6. Handles'
    BY <1>1, <1>3, <2>1 DEF Handles, At, Of
  <2>7. Remembered'
    BY <1>1, <2>1, <2>2 DEF Remembered
  <2>8. Saved'
    <3> SUFFICES ASSUME NEW g \in Kept
                 PROVE  /\ g \in file' \/ \E e \in Cmds : Writes(e, g, -1)'
                        /\ \A d \in Cmds : At(d, "save")' /\ g \notin cmd'[d].snap =>
                             \/ \E e \in Cmds : Writes(e, g, cmd[d].at)'
                             \/ g \in file' /\ clock'.file > cmd'[d].at
      BY <2>2 DEF Saved
    <3>1. ASSUME NEW e \in Cmds, NEW t \in Int, t < clock.taken + 1, Writes(e, g, t)
          PROVE  Writes(e, g, t)'
      BY <1>1, <1>3, <2>3, <3>1 DEF Writes, At, Of
    <3>2. g \in file' \/ \E e \in Cmds : Writes(e, g, -1)'
      <4>1. -1 \in Int /\ -1 < clock.taken + 1
        BY <1>2
      <4> QED
        BY <1>1, <2>1, <3>1, <4>1 DEF Saved
    <3>3. ASSUME NEW d \in Cmds, At(d, "save")', g \notin cmd'[d].snap
          PROVE  \/ \E e \in Cmds : Writes(e, g, cmd[d].at)'
                 \/ g \in file' /\ clock'.file > cmd'[d].at
      <4>1. d # c /\ cmd'[d] = cmd[d] /\ At(d, "save")
        BY <1>3, <2>3, <3>3 DEF At
      <4>2. \/ \E e \in Cmds : Writes(e, g, cmd[d].at)
            \/ g \in file /\ clock.file > cmd[d].at
        BY <2>1, <3>3, <4>1 DEF Saved
      <4>3. CASE \E e \in Cmds : Writes(e, g, cmd[d].at)
        BY <1>1, <1>3, <1>5, <2>3, <4>1, <4>3 DEF Writes, At, Of
      <4> QED
        BY <1>1, <1>2, <4>1, <4>2, <4>3
    <3> QED
      BY <3>2, <3>3
  <2>9. Erased'
    <3> SUFFICES ASSUME NEW g \in Fwds \ Known
                 PROVE  /\ g \in file' => g \in unsaved' \/ \E e \in Cmds : Erases(e, g, -1)'
                        /\ \A d \in Cmds : At(d, "save")' /\ g \in cmd'[d].snap =>
                             \E e \in Cmds : Erases(e, g, cmd[d].at)'
      BY <2>2 DEF Erased
    <3>1. Erases(c, g, -1)'
      BY <1>2, <1>3, <2>4 DEF Erases, At
    <3>2. ASSUME NEW d \in Cmds, At(d, "save")', g \in cmd'[d].snap
          PROVE  Erases(c, g, cmd[d].at)'
      BY <1>3, <1>5, <2>4, <3>2 DEF Erases, At
    <3> QED
      BY <3>1, <3>2
  <2> QED
    BY <2>5, <2>6, <2>7, <2>8, <2>9 DEF Uncrossed
<1> QED
  BY <1>6, <1>7 DEF IInv

(* The write itself: no snapshot older than the file's is written.         *)
LEMMA SaveStep ==
  ASSUME IInv, NEW c \in Cmds, Save(c)
  PROVE  IInv'
<1>1. /\ Types /\ At(c, "save") /\ file' = cmd[c].snap /\ Done(c)
      /\ clock' = [clock EXCEPT !.file = cmd[c].at] /\ unsaved' = unsaved \cap cmd[c].snap
      /\ UNCHANGED <<byId, overrides, live, todo, doing, pins, failed, stale, restarts>>
  BY DEF Save, IInv, At, memory, restore, bounds
<1>2. /\ clock' \in [taken : Nat, file : Nat] /\ clock'.taken = clock.taken
      /\ clock'.file = cmd[c].at /\ clock.taken \in Nat /\ clock.file \in Nat
      /\ cmd[c].at <= clock.taken /\ cmd[c].snap \in SUBSET Fwds
  BY <1>1 DEF Types, CmdType
<1>3. /\ cmd' \in CmdType /\ cmd'[c].at = 0
      /\ \A d \in Cmds \ {c} : cmd'[d] = cmd[d]
      /\ cmd'[c].pc = "idle" /\ cmd'[c].f = "none"
  BY <1>1 DEF Types, CmdType, Done, Idle, Pcs
<1>4. raced' \in BOOLEAN
  <2>1. CASE raced \/ cmd[c].at < clock.file
    BY <2>1, Zenon DEF Save
  <2>2. CASE ~(raced \/ cmd[c].at < clock.file)
    BY <2>2, Zenon DEF Save
  <2> QED
    BY <2>1, <2>2
<1>5. \A d \in Cmds : cmd[d].at \in Nat
  BY <1>1 DEF Types, CmdType
<1>6. Types'
  BY <1>1, <1>2, <1>3, <1>4 DEF Types
<1>7. ASSUME ~raced' PROVE Uncrossed'
  <2>1. Uncrossed /\ Apart /\ Handles /\ Remembered /\ Saved /\ Erased
    BY <1>7 DEF IInv, Uncrossed, Save
  <2>2. cmd[c].at >= clock.file
    <3>1. ~(cmd[c].at < clock.file)
      BY <1>7, Zenon DEF Save
    <3> QED
      BY <1>2, <1>5, <3>1
  <2>3. /\ UNCHANGED <<Restoring, Kept, Known>> /\ Kept \subseteq Fwds /\ Restoring \subseteq Fwds
        /\ \A g \in Fwds : Pinned(g)' <=> Pinned(g)
    BY <1>1, IdsAssumption DEF Restoring, Kept, Known, Pinned, Types
  <2>4. Apart'
    BY <1>1, <1>3, <2>1, <2>3, IdsAssumption DEF Apart, At, Of
  <2>5. Handles'
    BY <1>1, <1>3, <2>1 DEF Handles, At, Of
  <2>6. Remembered'
    BY <1>1, <2>1, <2>3 DEF Remembered
  <2>7. Saved'
    <3> SUFFICES ASSUME NEW g \in Kept
                 PROVE  /\ g \in file' \/ \E e \in Cmds : Writes(e, g, -1)'
                        /\ \A d \in Cmds : At(d, "save")' /\ g \notin cmd'[d].snap =>
                             \/ \E e \in Cmds : Writes(e, g, cmd[d].at)'
                             \/ g \in file' /\ clock'.file > cmd'[d].at
      BY <2>3 DEF Saved
    <3>1. g \notin cmd[c].snap => \E e \in Cmds \ {c} : Writes(e, g, cmd[c].at)
      BY <1>1, <1>5, <2>1, <2>2, <1>2 DEF Saved, Writes, At
    <3>2. g \in file' \/ \E e \in Cmds : Writes(e, g, -1)'
      BY <1>1, <1>3, <1>5, <3>1 DEF Writes, At, Of
    <3>3. ASSUME NEW d \in Cmds, At(d, "save")', g \notin cmd'[d].snap
          PROVE  \/ \E e \in Cmds : Writes(e, g, cmd[d].at)'
                 \/ g \in file' /\ clock'.file > cmd'[d].at
      <4>1. d # c /\ cmd'[d] = cmd[d] /\ At(d, "save")
        BY <1>3, <3>3 DEF At
      <4>2. \/ \E e \in Cmds : Writes(e, g, cmd[d].at)
            \/ g \in file /\ clock.file > cmd[d].at
        BY <2>1, <3>3, <4>1 DEF Saved
      <4>3. CASE \E e \in Cmds \ {c} : Writes(e, g, cmd[d].at)
        BY <1>3, <4>1, <4>3 DEF Writes, At, Of
      <4>4. CASE Writes(c, g, cmd[d].at)
        BY <1>1, <1>2, <4>1, <4>4 DEF Writes, At
      <4>5. CASE g \in file /\ clock.file > cmd[d].at /\ g \in cmd[c].snap
        BY <1>1, <1>2, <1>5, <2>2, <4>1, <4>5
      <4>6. CASE clock.file > cmd[d].at /\ g \notin cmd[c].snap
        <5>1. PICK e \in Cmds \ {c} : Writes(e, g, cmd[c].at)
          BY <3>1, <4>6
        <5>2. Writes(e, g, cmd[d].at)
          BY <1>2, <1>5, <2>2, <4>6, <5>1 DEF Writes
        <5> QED
          BY <1>3, <4>1, <5>2 DEF Writes, At, Of
      <4> QED
        BY <4>2, <4>3, <4>4, <4>5, <4>6
    <3> QED
      BY <3>2, <3>3
  <2>8. Erased'
    <3> SUFFICES ASSUME NEW g \in Fwds \ Known
                 PROVE  /\ g \in file' => g \in unsaved' \/ \E e \in Cmds : Erases(e, g, -1)'
                        /\ \A d \in Cmds : At(d, "save")' /\ g \in cmd'[d].snap =>
                             \/ \E e \in Cmds : Erases(e, g, cmd[d].at)'
                             \/ g \notin file' /\ clock'.file > cmd'[d].at
                             \/ /\ g \in unsaved'
                                /\ \A e \in Cmds : At(e, "save")' /\ g \notin cmd'[e].snap
                                                     => clock'.file > cmd'[e].at
      BY <2>3 DEF Erased
    <3> DEFINE Lone == /\ g \in unsaved
                       /\ \A e \in Cmds : At(e, "save") /\ g \notin cmd[e].snap
                                            => clock.file > cmd[e].at
    <3>1. g \in cmd[c].snap => Lone \/ \E e \in Cmds \ {c} : Erases(e, g, cmd[c].at)
      BY <1>1, <1>2, <1>5, <2>1, <2>2 DEF Erased, Erases, At
    <3>2. ASSUME g \in cmd[c].snap, Lone
          PROVE  /\ g \in unsaved'
                 /\ \A e \in Cmds : At(e, "save")' /\ g \notin cmd'[e].snap
                                      => clock'.file > cmd'[e].at
      BY <1>1, <1>2, <1>3, <1>5, <2>2, <3>2 DEF At
    <3>3. ASSUME NEW e \in Cmds \ {c}, NEW t, Erases(e, g, t)
          PROVE  Erases(e, g, t)'
      BY <1>3, <3>3 DEF Erases, At, Of
    <3>4. g \in file' => g \in unsaved' \/ \E e \in Cmds : Erases(e, g, -1)'
      <4>1. ASSUME NEW e \in Cmds, Erases(e, g, cmd[c].at) PROVE Erases(e, g, -1)
        BY <1>5, <4>1 DEF Erases
      <4> QED
        BY <1>1, <3>1, <3>2, <3>3, <4>1
    <3>5. ASSUME NEW d \in Cmds, At(d, "save")', g \in cmd'[d].snap
          PROVE  \/ \E e \in Cmds : Erases(e, g, cmd[d].at)'
                 \/ g \notin file' /\ clock'.file > cmd'[d].at
                 \/ /\ g \in unsaved'
                    /\ \A e \in Cmds : At(e, "save")' /\ g \notin cmd'[e].snap
                                         => clock'.file > cmd'[e].at
      <4>1. d # c /\ cmd'[d] = cmd[d] /\ At(d, "save")
        BY <1>3, <3>5 DEF At
      <4>2. \/ \E e \in Cmds : Erases(e, g, cmd[d].at)
            \/ g \notin file /\ clock.file > cmd[d].at
            \/ Lone
        BY <2>1, <3>5, <4>1 DEF Erased
      <4>3. CASE \E e \in Cmds \ {c} : Erases(e, g, cmd[d].at)
        BY <1>3, <4>1, <4>3 DEF Erases, At, Of
      <4>4. CASE Erases(c, g, cmd[d].at)
        BY <1>1, <1>2, <4>1, <4>4 DEF Erases, At
      <4>5. CASE clock.file > cmd[d].at /\ g \notin cmd[c].snap
        BY <1>1, <1>2, <1>5, <2>2, <4>1, <4>5
      <4>6. CASE clock.file > cmd[d].at /\ g \in cmd[c].snap
        <5>1. CASE Lone
          BY <3>2, <4>6, <5>1
        <5>2. ASSUME NEW e \in Cmds \ {c}, Erases(e, g, cmd[c].at)
              PROVE  Erases(e, g, cmd[d].at)
          BY <1>2, <1>5, <2>2, <4>6, <5>2 DEF Erases
        <5>3. ASSUME NEW e \in Cmds \ {c}, Erases(e, g, cmd[d].at)
              PROVE  Erases(e, g, cmd[d].at)'
          BY <1>3, <4>1, <5>3 DEF Erases, At, Of
        <5> QED
          BY <3>1, <4>6, <5>1, <5>2, <5>3
      <4>7. CASE Lone /\ g \in cmd[c].snap
        BY <3>2, <4>7
      <4>8. CASE Lone /\ g \notin cmd[c].snap
        BY <1>1, <1>2, <1>5, <2>2, <4>8
      <4> QED
        BY <4>2, <4>3, <4>4, <4>5, <4>6, <4>7, <4>8
    <3> QED
      BY <3>4, <3>5
  <2> QED
    BY <2>4, <2>5, <2>6, <2>7, <2>8 DEF Uncrossed
<1> QED
  BY <1>6, <1>7 DEF IInv

-----------------------------------------------------------------------------
LEMMA NextIInv == IInv /\ [Next]_vars => IInv'
<1> SUFFICES ASSUME IInv, [Next]_vars PROVE IInv'
  OBVIOUS
<1>1. ASSUME NEW c \in Cmds, Command(c) PROVE IInv'
  <2>1. ASSUME NEW f \in Fwds, NEW p \in BOOLEAN, Start(c, f, p) \/ SetAutostart(c, f, p)
        PROVE  IInv'
    BY <2>1, StartStep, SetAutostartStep
  <2>2. ASSUME NEW f \in Fwds, Stop(c, f) PROVE IInv'
    BY <2>2, StopStep
  <2>3. StartBind(c) \/ StartInsert(c) \/ StopUnpin(c) \/ SetOverride(c) => IInv'
    BY StartBindStep, StartInsertStep, StopUnpinStep, SetOverrideStep
  <2>4. RemoveSource(c) \/ CleanupRemove(c) \/ Persist(c) \/ Save(c) => IInv'
    BY RemoveSourceStep, CleanupRemoveStep, PersistStep, SaveStep
  <2> QED
    BY <1>1, <2>1, <2>2, <2>3, <2>4 DEF Command
<1>2. CASE UNCHANGED vars
  <2>1. UNCHANGED <<byId, overrides, file, live, cmd, todo, doing, clock, pins, failed, stale,
                    unsaved, raced, restarts>>
    BY <1>2 DEF vars, memory, restore, history, bounds
  <2>2. UNCHANGED <<Restoring, Kept, Known>>
    BY <2>1 DEF Restoring, Kept, Known
  <2>3. Types'
    BY <2>1 DEF Types, IInv
  <2>4. Uncrossed' = Uncrossed
    BY <2>1, <2>2 DEF Uncrossed, Apart, Handles, Remembered, Saved, Erased, Writes, Erases, At, Of,
                      Pinned
  <2> QED
    BY <2>1, <2>3, <2>4 DEF IInv
<1>3. Disconnect \/ AddSource \/ Restart \/ RestoreNext \/ RestoreInsert \/ RestoreFails => IInv'
  BY DisconnectStep, AddSourceStep, RestartStep, RestoreNextStep, RestoreInsertStep,
     RestoreFailsStep
<1> QED
  BY <1>1, <1>2, <1>3 DEF Next

LEMMA Inductive == Spec => []IInv
<1> QED
  BY InitIInv, NextIInv, PTL DEF Spec

(* When nothing is under way, a pin the restore did not lose and no stale  *)
(* override overrules is in portforwards.json, and so survives a crash:    *)
(* every command that pins ends by writing a snapshot that has the pin,    *)
(* and only a snapshot taken after it can replace that one.                *)
THEOREM Survives == Spec => []PinSurvives
<1>1. ASSUME IInv PROVE PinSurvives
  <2> SUFFICES ASSUME Quiet, ~raced, NEW f \in Kept PROVE f \in file
    BY DEF PinSurvives, Kept
  <2>1. f \in file \/ \E c \in Cmds : Writes(c, f, -1)
    BY <1>1 DEF IInv, Uncrossed, Saved
  <2> QED
    BY <2>1 DEF Quiet, Writes, At
<1> QED
  BY <1>1, Inductive, PTL

(* The state is typed, and when nothing is under way the file has nothing  *)
(* the operator did not pin: what is stopped, unpinned or cleaned up does  *)
(* not come back with the next launch, the exceptions named there apart.   *)
THEOREM NothingSpurious == Spec => []FileIsSound
<1>1. ASSUME IInv PROVE FileIsSound
  <2>1. TypeOK
    BY <1>1 DEF IInv, Types, TypeOK, CmdType
  <2>2. ASSUME Quiet, ~raced, NEW f \in file PROVE f \in Known \cup unsaved
    <3>1. f \in Fwds \ Known => f \in unsaved \/ \E c \in Cmds : Erases(c, f, -1)
      BY <1>1, <2>2 DEF IInv, Uncrossed, Erased
    <3> QED
      BY <1>1, <2>2, <3>1 DEF IInv, Types, Quiet, Erases, At
  <2> QED
    BY <2>1, <2>2 DEF FileIsSound, NoSpuriousPin, Known
<1> QED
  BY <1>1, Inductive, PTL

(* A pinned listener is closed by a stop, by the removal of its source or  *)
(* by the end of the program, and by no disconnect: what                   *)
(* stop_cluster_forwards reads under both locks is the operator's pin,     *)
(* whether it is in the spec or in an override.                            *)
THEOREM KeepsListening == Spec => PinnedKeepListening
<1> DEFINE Closes == \A f \in pins \ (failed \cup stale) :
                       byId[f] # "none" /\ byId'[f] = "none" =>
                         raced \/ f \notin pins' \/ restarts' # restarts
<1>1. ASSUME IInv, [Next]_vars PROVE [Closes]_vars
  <2> SUFFICES ASSUME Next, ~raced, NEW f \in Kept, byId[f] # "none", byId'[f] = "none"
               PROVE  f \notin pins' \/ restarts' # restarts
    BY <1>1 DEF Kept
  <2>1. Types /\ Apart /\ Remembered /\ f \in Fwds /\ byId' # byId
    BY <1>1 DEF IInv, Types, Uncrossed, Kept
  <2>2. f \notin Restoring /\ Pinned(f)
    BY <2>1 DEF Apart, Remembered
  <2>3. ASSUME NEW c \in Cmds, Command(c) PROVE f \notin pins'
    <3>1. CASE StartInsert(c)
      BY <2>1, <3>1 DEF StartInsert, Handled, On, Types, CmdType
    <3>2. CASE \E g \in Fwds : Stop(c, g)
      BY <2>1, <3>2 DEF Stop, Types
    <3>3. CASE CleanupRemove(c)
      BY <2>1, <3>3 DEF CleanupRemove, Registered
    <3> QED
      BY <2>1, <2>3, <3>1, <3>2, <3>3 DEF Command, Start, SetAutostart, StartBind, StopUnpin,
         SetOverride, RemoveSource, Persist, Save, memory
  <2>4. ~Disconnect
    BY <2>1, <2>2 DEF Disconnect, Ephemeral
  <2>5. ~RestoreInsert
    BY <2>1 DEF RestoreInsert, Handled, On, Types
  <2>6. CASE Restart
    BY <2>1, <2>6 DEF Restart, Types
  <2> QED
    BY <2>1, <2>3, <2>4, <2>5, <2>6 DEF Next, AddSource, RestoreNext, RestoreFails, memory
<1> QED
  BY <1>1, Inductive, PTL DEF Spec, PinnedKeepListening
=============================================================================
