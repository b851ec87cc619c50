---------------------------- MODULE PortForwards ----------------------------
(***************************************************************************)
(* The simple port-forwards of one cluster: the registry of listeners and  *)
(* its side map of pins (PortForwardRegistry in crates/app/src/state.rs),  *)
(* the commands that start, stop, pin and clean up forwards and the file   *)
(* they persist to (crates/app/src/commands.rs,                            *)
(* crates/core/src/portforwards.rs), and the restore after a restart.      *)
(*                                                                         *)
(* Every await between two lock sections is a step of its own.  What a     *)
(* connection through a forward does is in ClusterRegistry                 *)
(* (current_client).                                                       *)
(***************************************************************************)
EXTENDS Naturals, FiniteSets

CONSTANTS Fwds,        \* ids: (cluster, target, remote port)
          Cmds,        \* commands that can be under way at once
          MaxStarts,   \* bound: pf_start commands
          MaxEdits,    \* bound: other commands
          MaxRestarts  \* bound: exits or crashes of the program

ASSUME BoundsAssumption == {MaxStarts, MaxEdits, MaxRestarts} \subseteq Nat
ASSUME IdsAssumption == "none" \notin Fwds

VARIABLES
  byId,       \* by_id: the handle of a forward, "none" or spec.autostart
  overrides,  \* pin_overrides
  file,       \* portforwards.json: the forwards in it
  live,       \* is the cluster's context still in a kubeconfig source?
  cmd,        \* the commands
  todo,       \* specs that restore_persisted_forwards has still to start
  doing,      \* the spec it is starting
  clock,      \* snapshots taken so far; the number of the one in the file
  pins,       \* history: what the operator has pinned
  failed,     \* history: pinned forwards the restore could not start
  stale,      \* history: forwards whose override outlived their handle
  unsaved,    \* history: stopped forwards pinned only by an override
  raced,      \* history: two snapshots were written in the wrong order, or two
              \* commands on one forward, or a command and the restore, overlapped
  starts, edits, restarts

memory == <<byId, overrides>>
restore == <<todo, doing>>
history == <<pins, failed, stale, unsaved, raced>>
bounds == <<starts, edits, restarts>>
vars == <<memory, file, live, cmd, restore, clock, history, bounds>>

Flag == {"none", "on", "off"}   \* no entry, or an entry with this pin
On(b) == IF b THEN "on" ELSE "off"
Idle == [pc |-> "idle", f |-> "none", pin |-> FALSE, snap |-> {}, at |-> 0]
Pcs == {"idle", "bind", "insert", "unpin", "set", "remove", "persist", "save"}

(* The effective pin, as persist_forwards and stop_cluster_forwards read it. *)
PinnedBySpec(f) == byId[f] = "on"
Pinned(f) ==
  /\ byId[f] # "none"
  /\ IF overrides[f] = "none" THEN byId[f] = "on" ELSE overrides[f] = "on"

Registered == {f \in Fwds : byId[f] # "none"}
Restoring == todo \cup ({doing} \ {"none"})
Overridden == {f \in Fwds : overrides[f] # "none"}

TypeOK ==
  /\ byId \in [Fwds -> Flag] /\ overrides \in [Fwds -> Flag]
  /\ file \subseteq Fwds /\ live \in BOOLEAN
  /\ \A c \in Cmds : cmd[c].pc \in Pcs /\ cmd[c].snap \subseteq Fwds
  /\ todo \subseteq Fwds /\ doing \in Fwds \cup {"none"}
  /\ clock.file <= clock.taken
  /\ pins \subseteq Fwds

Init ==
  /\ byId = [f \in Fwds |-> "none"] /\ overrides = [f \in Fwds |-> "none"]
  /\ file = {} /\ live = TRUE
  /\ cmd = [c \in Cmds |-> Idle] /\ todo = {} /\ doing = "none"
  /\ clock = [taken |-> 0, file |-> 0]
  /\ pins = {} /\ failed = {} /\ stale = {} /\ unsaved = {} /\ raced = FALSE
  /\ starts = 0 /\ edits = 0 /\ restarts = 0

Goto(c, pc) == cmd' = [cmd EXCEPT ![c].pc = pc]
Done(c) == cmd' = [cmd EXCEPT ![c] = Idle]
Begin(c, pc, f, p) ==
  /\ cmd[c].pc = "idle"
  /\ cmd' = [cmd EXCEPT ![c] = [Idle EXCEPT !.pc = pc, !.f = f, !.pin = p]]
  /\ raced' = (raced \/ f \in Restoring \/ \E d \in Cmds : f \in Fwds /\ cmd[d].f = f)
Edit == edits < MaxEdits /\ edits' = edits + 1 /\ UNCHANGED <<starts, restarts>>

-----------------------------------------------------------------------------
(* pf_start: a registered forward is returned as it is; otherwise the       *)
(* cluster is resolved and a listener bound, either of which may fail, and  *)
(* the handle takes the place of whatever is registered by then.            *)
Start(c, f, p) ==
  /\ byId[f] = "none" /\ live /\ Begin(c, "bind", f, p)
  /\ starts < MaxStarts /\ starts' = starts + 1
  /\ UNCHANGED <<memory, file, live, restore, clock, pins, failed, stale, unsaved, edits, restarts>>

StartBind(c) ==
  /\ cmd[c].pc = "bind" /\ (Goto(c, "insert") \/ Done(c))
  /\ UNCHANGED <<memory, file, live, restore, clock, history, bounds>>

Handled(f, p) == byId' = [byId EXCEPT ![f] = On(p)]

StartInsert(c) ==
  LET f == cmd[c].f
  IN  /\ cmd[c].pc = "insert" /\ Handled(f, cmd[c].pin)
      /\ IF cmd[c].pin THEN Goto(c, "persist") ELSE Done(c)
      /\ pins' = IF cmd[c].pin THEN pins \cup {f} ELSE pins
      /\ UNCHANGED <<overrides, file, live, restore, clock, failed, stale, unsaved, raced, bounds>>

(* pf_stop: the handle, then the override; the file only if the spec was    *)
(* pinned when the forward was started.                                     *)
Stop(c, f) ==
  /\ f \in Registered /\ Begin(c, "unpin", f, byId[f] = "on") /\ Edit
  /\ byId' = [byId EXCEPT ![f] = "none"]
  /\ pins' = pins \ {f}
  /\ unsaved' = IF byId[f] = "off" THEN unsaved \cup {f} ELSE unsaved
  /\ UNCHANGED <<overrides, file, live, restore, clock, failed, stale>>

Unpinned(f) == overrides' = [overrides EXCEPT ![f] = "none"]

StopUnpinUnsaved(c) ==
  /\ cmd[c].pc = "unpin" /\ Unpinned(cmd[c].f) /\ Done(c)
  /\ UNCHANGED <<byId, file, live, restore, clock, history, bounds>>

StopUnpin(c) ==
  /\ cmd[c].pc = "unpin" /\ Unpinned(cmd[c].f)
  /\ IF cmd[c].pin THEN Goto(c, "persist") ELSE Done(c)
  /\ UNCHANGED <<byId, file, live, restore, clock, history, bounds>>

(* pf_set_autostart: the check and the write hold different locks.          *)
SetAutostart(c, f, p) ==
  /\ f \in Registered /\ Begin(c, "set", f, p) /\ Edit
  /\ UNCHANGED <<memory, file, live, restore, clock, pins, failed, stale, unsaved>>

Overrode(f, p) == overrides' = [overrides EXCEPT ![f] = On(p)]

SetOverride(c) ==
  LET f == cmd[c].f
  IN  /\ cmd[c].pc = "set" /\ Goto(c, "persist") /\ Overrode(f, cmd[c].pin)
      /\ pins' = IF cmd[c].pin /\ f \in Registered THEN pins \cup {f} ELSE pins \ {f}
      /\ stale' = IF f \in Registered THEN stale ELSE stale \cup {f}
      /\ UNCHANGED <<byId, file, live, restore, clock, failed, unsaved, raced, bounds>>

(* stop_cluster_forwards, on a disconnect: both locks are held.             *)
EphemeralBySpec == {f \in Registered : byId[f] = "off"}
Ephemeral == {f \in Registered : ~Pinned(f)}

Disconnect ==
  /\ Edit /\ Ephemeral # {}
  /\ byId' = [f \in Fwds |-> IF f \in Ephemeral THEN "none" ELSE byId[f]]
  /\ overrides' = [f \in Fwds |-> IF f \in Ephemeral THEN "none" ELSE overrides[f]]
  /\ UNCHANGED <<file, live, cmd, restore, clock, history>>

(* A kubeconfig source goes, and the same command cleans up after it        *)
(* (cleanup_orphaned_forwards); or it comes back.                           *)
RemoveSource(c) ==
  /\ live /\ live' = FALSE /\ Edit
  /\ IF Registered = {} THEN cmd[c].pc = "idle" /\ UNCHANGED <<cmd, raced>>
     ELSE Begin(c, "remove", "none", FALSE)
  /\ UNCHANGED <<memory, file, restore, clock, pins, failed, stale, unsaved>>

AddSource ==
  /\ ~live /\ live' = TRUE
  /\ UNCHANGED <<memory, file, cmd, restore, clock, history, bounds>>

Removed(s) == byId' = [f \in Fwds |-> IF f \in s THEN "none" ELSE byId[f]]

CleanupRemove(c) ==
  /\ cmd[c].pc = "remove" /\ Goto(c, "persist") /\ Removed(Registered)
  /\ pins' = pins \ Registered
  /\ stale' = stale \cup (Registered \cap Overridden)
  /\ UNCHANGED <<overrides, file, live, restore, clock, failed, unsaved, raced, bounds>>

(* persist_forwards: the pinned set is read under both locks and written    *)
(* after they are released.                                                 *)
Snapshot == {f \in Fwds : Pinned(f)}

Persist(c) ==
  /\ cmd[c].pc = "persist"
  /\ clock' = [clock EXCEPT !.taken = @ + 1]
  /\ cmd' = [cmd EXCEPT ![c].pc = "save", ![c].snap = Snapshot, ![c].at = clock'.taken]
  /\ raced' = (raced \/ Restoring # {})
  /\ UNCHANGED <<memory, file, live, restore, pins, failed, stale, unsaved, bounds>>

Save(c) ==
  /\ cmd[c].pc = "save" /\ file' = cmd[c].snap /\ Done(c)
  /\ clock' = [clock EXCEPT !.file = cmd[c].at]
  /\ raced' = (raced \/ cmd[c].at < clock.file) /\ unsaved' = unsaved \cap cmd[c].snap
  /\ UNCHANGED <<memory, live, restore, pins, failed, stale, bounds>>

-----------------------------------------------------------------------------
(* The program exits or crashes: only the file is left (its write is        *)
(* atomic), and what it holds is what is pinned from then on.               *)
Restart ==
  /\ restarts < MaxRestarts /\ restarts' = restarts + 1
  /\ byId' = [f \in Fwds |-> "none"] /\ overrides' = [f \in Fwds |-> "none"]
  /\ cmd' = [c \in Cmds |-> Idle] /\ todo' = file /\ doing' = "none"
  /\ clock' = [taken |-> 0, file |-> 0]
  /\ pins' = file /\ failed' = {} /\ stale' = {} /\ unsaved' = {} /\ raced' = FALSE
  /\ UNCHANGED <<file, live, starts, edits>>

(* restore_persisted_forwards: the override first, then the listener.       *)
RestoreNext ==
  /\ doing = "none"
  /\ \E f \in todo : doing' = f /\ todo' = todo \ {f} /\ Overrode(f, TRUE)
  /\ UNCHANGED <<byId, file, live, cmd, clock, history, bounds>>

RestoreInsert ==
  /\ doing # "none" /\ live /\ doing' = "none" /\ Handled(doing, TRUE)
  /\ pins' = pins \cup {doing} /\ failed' = failed \ {doing}
  /\ UNCHANGED <<overrides, file, live, cmd, todo, clock, stale, unsaved, raced, bounds>>

(* The cluster is offline or gone, or the port is taken.                    *)
RestoreFails ==
  /\ doing # "none" /\ doing' = "none"
  /\ failed' = failed \cup {doing} /\ stale' = stale \cup {doing}
  /\ UNCHANGED <<memory, file, live, cmd, todo, clock, pins, unsaved, raced, bounds>>

-----------------------------------------------------------------------------
Command(c) ==
  \/ \E f \in Fwds, p \in BOOLEAN : Start(c, f, p) \/ SetAutostart(c, f, p)
  \/ \E f \in Fwds : Stop(c, f)
  \/ StartBind(c) \/ StartInsert(c) \/ StopUnpin(c) \/ SetOverride(c)
  \/ RemoveSource(c) \/ CleanupRemove(c) \/ Persist(c) \/ Save(c)

Next ==
  \/ \E c \in Cmds : Command(c)
  \/ Disconnect \/ AddSource \/ Restart \/ RestoreNext \/ RestoreInsert \/ RestoreFails

Spec == Init /\ [][Next]_vars

-----------------------------------------------------------------------------
(* Properties. *)
Quiet == todo = {} /\ doing = "none" /\ \A c \in Cmds : cmd[c].pc = "idle"

(* When nothing is under way the file holds what the operator has pinned:   *)
(* "Persist every currently-pinned forward to `portforwards.json`. Called   *)
(* after start/stop/pin transitions." (commands.rs, persist_forwards)       *)
FileIsThePins == Quiet => file = pins

(* A pin is in the file once its command has ended and so outlives a crash  *)
(* at any point, unless the restore failed to start it, an override of an   *)
(* earlier forward overrules it, or commands crossed each other or the      *)
(* restore.                                                                 *)
PinSurvives == Quiet /\ ~raced => pins \ (failed \cup stale) \subseteq file

(* Nothing else is in the file: what is stopped, unpinned or cleaned up     *)
(* does not come back with the next launch, with the same exceptions and    *)
(* that of a forward pinned after its start.                                *)
NoSpuriousPin == Quiet /\ ~raced => file \subseteq pins \cup failed \cup stale \cup unsaved

(* The state is typed, and the file holds nothing but pins.                 *)
FileIsSound == TypeOK /\ NoSpuriousPin

(* A pinned forward's listener outlives everything but a stop, the removal  *)
(* of its source and the end of the program: a disconnect in particular,    *)
(* whether the pin is in its spec or in an override.                        *)
PinnedKeepListening ==
  [][\A f \in pins \ (failed \cup stale) :
       byId[f] # "none" /\ byId'[f] = "none" =>
         raced \/ f \notin pins' \/ restarts' # restarts]_vars
=============================================================================
