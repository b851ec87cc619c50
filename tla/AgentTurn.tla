------------------------------ MODULE AgentTurn ------------------------------
(***************************************************************************)
(* One chat of the agent: the turn gate that keeps a single loop on the    *)
(* transcript, the loop itself (rounds, provider outcomes and their retry  *)
(* budgets, tools and approvals), compaction, the session log, and the     *)
(* commands of the operator that race it: send, cancel, approve, compact,  *)
(* close, a crash and the reopening.                                       *)
(*                                                                         *)
(* Everything between two awaits under the runtime lock is one action.     *)
(* A loop is named after the command that spawned it.                      *)
(***************************************************************************)
EXTENDS Transcript

CONSTANTS
  Sends,          \* the messages the operator sends
  Calls,          \* tool-call ids the provider may use
  MaxToolRounds,  \* MAX_TOOL_ROUNDS
  MaxEmpty,       \* MAX_EMPTY_RETRIES
  MaxTransient,   \* MAX_TRANSIENT_RETRIES
  MaxOverflow,    \* MAX_OVERFLOW_RECOVERIES
  TailKeep,       \* COMPACTION_TAIL_KEEP
  MaxRaces        \* bound: how often a turn is cancelled, compacted, closed or crashes

ASSUME AgentAssumption ==
  /\ "auto" \notin Sends
  /\ "nobody" \notin Sends
  /\ MaxToolRounds \in Nat \ {0}
  /\ MaxEmpty \in Nat /\ MaxTransient \in Nat /\ MaxOverflow \in Nat
  /\ TailKeep \in Nat \ {0}
  /\ MaxRaces \in Nat /\ IsFiniteSet(Calls)

\* "auto" is chat_compact, which continues an idle chat with a message of its own.
Owners == Sends \cup {"auto"}

VARIABLES
  msgs,      \* ChatRuntime.messages
  log,       \* the session's JSONL
  gate,      \* TurnGate: the loop whose handle is stored, and the claim
  cmd,       \* where each send (and chat_compact) is
  loop,      \* the turn loops
  compact,   \* compaction_in_flight and the head count it was started with
  calls,     \* what became of each tool call
  pending,   \* pending_approvals
  ui,        \* TurnState as last reported, and whether a bubble is open
  open,      \* the chat is in AgentState.chats
  hist       \* history: users a request carried, users whose turn was cut off, users
             \* queued behind a turn's last request; a claim that was taken away, a
             \* compaction that folded the transcript under a turn, a closed chat's
             \* leftovers that outlived its reopening

vars == <<msgs, log, gate, cmd, loop, compact, calls, pending, ui, open, hist>>

PCs == {"off", "begin", "top", "compact?", "compacting", "forced", "snap", "stream",
        "errpush", "stop", "giveup", "final", "tools", "persist", "end"}
IdleLoop == [pc |-> "off", pre |-> 0, round |-> 0, calls |-> <<>>,
             empty |-> 0, transient |-> 0, overflow |-> 0]
NoCompaction == [on |-> FALSE, cut |-> 0]

TypeOK ==
  /\ gate \in [handle : Owners \cup {"nobody"}, claimed : BOOLEAN]
  /\ cmd \in [Owners -> {"new", "resolved", "summing", "again", "queued", "owner",
                         "spawn", "stray", "done"}]
  /\ \A o \in Owners :
       /\ loop[o].pc \in PCs
       /\ loop[o].round \in 0..MaxToolRounds
       /\ loop[o].empty \in 0..MaxEmpty
       /\ loop[o].transient \in 0..MaxTransient
       /\ loop[o].overflow \in 0..MaxOverflow
       /\ Len(loop[o].calls) <= Cardinality(Calls)
  /\ compact.on \in BOOLEAN
  /\ calls \in [Calls -> {"free", "ready", "approval", "run", "done", "dead"}]
  /\ pending \subseteq Calls
  /\ ui \in [running : BOOLEAN, bubble : BOOLEAN]
  /\ open \in BOOLEAN

Init ==
  /\ msgs = <<>> /\ log = <<>>
  /\ gate = [handle |-> "nobody", claimed |-> FALSE]
  /\ cmd = [o \in Owners |-> "new"]
  /\ loop = [o \in Owners |-> IdleLoop]
  /\ compact = NoCompaction
  /\ calls = [c \in Calls |-> "free"]
  /\ pending = {}
  /\ ui = [running |-> FALSE, bubble |-> FALSE]
  /\ open = TRUE
  /\ hist = [asked |-> {}, dropped |-> {}, unheard |-> {}, stolen |-> FALSE,
             folded |-> FALSE, strayed |-> FALSE, races |-> 0]

-----------------------------------------------------------------------------
(* The turn gate *)

Busy == gate.handle # "nobody" \/ gate.claimed
Released == [handle |-> "nobody", claimed |-> FALSE]
\* A cancel, a close or a crash cuts off what no request carried yet.
GiveUp(us) == [hist EXCEPT !.dropped = @ \cup (us \ hist.asked)]
\* A turn that fails or hits the cap forgets what was queued behind its last request.
ForgetQueued(o) ==
  [hist EXCEPT !.unheard =
     @ \cup (Users(SubSeq(msgs, loop[o].pre + 1, Len(msgs))) \ hist.asked)]
MayRace == hist.races < MaxRaces
Raced(h) == [h EXCEPT !.races = @ + 1]
At(o, pc) == loop[o].pc = pc
Goto(o, pc) == loop' = [loop EXCEPT ![o].pc = pc]

\* TurnGate::abort: the loop behind the handle is dropped at its await.
Killed ==
  IF gate.handle = "nobody" THEN loop ELSE [loop EXCEPT ![gate.handle] = IdleLoop]
\* The tool futures of a dropped loop are dropped with it.
CallsWithout(o) ==
  [c \in Calls |-> IF o # "nobody" /\ c \in ToSet(loop[o].calls) THEN "dead" ELSE calls[c]]

(* Mutant: a send starts a turn whether or not one is running. *)
ClaimAlways == TRUE
\* TurnGate::claim: the caller owns the right to start a turn.
Claim == ~Busy
-----------------------------------------------------------------------------
(* chat_send_message *)

SendLookup(s) ==
  /\ open /\ cmd[s] = "new"
  /\ cmd' = [cmd EXCEPT ![s] = "resolved"]
  /\ UNCHANGED <<msgs, log, gate, loop, compact, calls, pending, ui, open, hist>>

\* The credential or the provider cannot be had: nothing was pushed.
SendFails(s) ==
  /\ s \in Sends /\ cmd[s] = "resolved"
  /\ cmd' = [cmd EXCEPT ![s] = "done"]
  /\ UNCHANGED <<msgs, log, gate, loop, compact, calls, pending, ui, open, hist>>

SendPush(s) ==
  /\ cmd[s] = "resolved"
  /\ msgs' = Append(msgs, User(s))
  /\ gate' = [gate EXCEPT !.claimed = @ \/ Claim]
  /\ cmd' = [cmd EXCEPT ![s] = IF Claim THEN "owner" ELSE "queued"]
  /\ UNCHANGED <<log, loop, compact, calls, pending, ui, open, hist>>

SendLog(o) ==
  /\ cmd[o] \in {"owner", "queued"}
  /\ log' = Append(log, User(o))
  /\ cmd' = [cmd EXCEPT ![o] = IF @ = "owner" THEN "spawn" ELSE "done"]
  /\ UNCHANGED <<msgs, gate, loop, compact, calls, pending, ui, open, hist>>

SpawnTurnLoop(o) ==
  /\ cmd[o] = "spawn"
  /\ loop' = [loop EXCEPT ![o] = [IdleLoop EXCEPT !.pc = "begin"]]
  /\ gate' = [handle |-> o, claimed |-> FALSE]
  /\ cmd' = [cmd EXCEPT ![o] = "done"]
  /\ UNCHANGED <<msgs, log, compact, calls, pending, ui, open, hist>>
-----------------------------------------------------------------------------
(* Compaction, by the loop (o) or by chat_compact ("auto") *)

HeadCount == CompactionCut(msgs, TailKeep)

WorthCompacting == ~compact.on /\ Len(msgs) > TailKeep + 2
MarkInFlight == compact' = [on |-> TRUE, cut |-> HeadCount]

(* Mutant: the cut is made anew when the summary arrives, inside a group. *)
FoldHeadAnew ==
  LET tail == SubSeq(msgs, Len(msgs) - TailKeep + 1, Len(msgs)) IN
  /\ msgs' = <<Checkpoint>> \o tail
  /\ log' = Append(log, Marker(tail))
  /\ compact' = NoCompaction
\* The head becomes a checkpoint; the marker logs the tail the chat goes on with.
FoldHead ==
  LET tail == SubSeq(msgs, compact.cut + 1, Len(msgs)) IN
  /\ msgs' = RepairToolPairs(<<Checkpoint>> \o tail)
  /\ log' = Append(log, Marker(tail))
  /\ compact' = NoCompaction

LoopCompactStart(o) ==
  /\ At(o, "compact?") /\ WorthCompacting
  /\ MarkInFlight
  /\ Goto(o, "compacting")
  /\ UNCHANGED <<msgs, log, gate, cmd, calls, pending, ui, open, hist>>

\* Below the trigger, too short, or one is in flight.
LoopCompactSkip(o) ==
  /\ At(o, "compact?")
  /\ Goto(o, "snap")
  /\ UNCHANGED <<msgs, log, gate, cmd, compact, calls, pending, ui, open, hist>>

\* A forced compaction is followed by a new round, a proactive one by its request.
LoopCompactEnd(o) ==
  /\ loop[o].pc \in {"compacting", "forced"}
  /\ \/ FoldHead
     \/ compact' = NoCompaction /\ UNCHANGED <<msgs, log>>
  /\ Goto(o, IF At(o, "forced") THEN "top" ELSE "snap")
  /\ UNCHANGED <<gate, cmd, calls, pending, ui, open, hist>>

CompactCommand ==
  /\ MayRace /\ open /\ cmd["auto"] = "new"
  /\ IF WorthCompacting
     THEN MarkInFlight /\ cmd' = [cmd EXCEPT !["auto"] = "summing"]
     ELSE compact' = compact /\ cmd' = [cmd EXCEPT !["auto"] = "again"]
  /\ hist' = Raced(hist)
  /\ UNCHANGED <<msgs, log, gate, loop, calls, pending, ui, open>>

CompactCommandEnd ==
  /\ cmd["auto"] = "summing"
  /\ \/ FoldHead /\ hist' = [hist EXCEPT !.folded = @ \/ Busy]
     \/ compact' = NoCompaction /\ UNCHANGED <<msgs, log, hist>>
  /\ cmd' = [cmd EXCEPT !["auto"] = "again"]
  /\ UNCHANGED <<gate, loop, calls, pending, ui, open>>

AutocontinueIfIdle ==
  /\ cmd["auto"] = "again"
  /\ IF ~Busy /\ msgs # <<>> /\ Last(msgs).role = "asst"
     THEN /\ msgs' = Append(msgs, User("auto"))
          /\ gate' = [gate EXCEPT !.claimed = TRUE]
          /\ cmd' = [cmd EXCEPT !["auto"] = "owner"]
     ELSE cmd' = [cmd EXCEPT !["auto"] = "done"] /\ UNCHANGED <<msgs, gate>>
  /\ UNCHANGED <<log, loop, compact, calls, pending, ui, open, hist>>
-----------------------------------------------------------------------------
(* run_turn_loop, run_turn_rounds, run_provider_round *)

LoopBegin(o) ==
  /\ At(o, "begin")
  /\ ui' = [ui EXCEPT !.running = TRUE]
  /\ Goto(o, "top")
  /\ UNCHANGED <<msgs, log, gate, cmd, compact, calls, pending, open, hist>>

RoundCap(o) ==
  /\ At(o, "top") /\ loop[o].round >= MaxToolRounds
  /\ gate' = Released
  /\ hist' = ForgetQueued(o)
  /\ Goto(o, "end")
  /\ UNCHANGED <<msgs, log, cmd, compact, calls, pending, ui, open>>

(* Mutant: the transcript goes into the round as the last turn left it. *)
RoundTopUnrepaired(o) ==
  /\ At(o, "top") /\ loop[o].round < MaxToolRounds
  /\ loop' = [loop EXCEPT ![o].pc = "compact?", ![o].round = @ + 1]
  /\ UNCHANGED <<msgs, log, gate, cmd, compact, calls, pending, ui, open, hist>>

\* repair_orphan_tool_calls: calls that were never run get a note for an answer.
RoundTop(o) ==
  /\ At(o, "top") /\ loop[o].round < MaxToolRounds
  /\ msgs' = RepairToolPairs(msgs)
  /\ loop' = [loop EXCEPT ![o].pc = "compact?", ![o].round = @ + 1]
  /\ UNCHANGED <<log, gate, cmd, compact, calls, pending, ui, open, hist>>

\* The request: the transcript as it is now, and its length.
Snapshot(o) ==
  /\ At(o, "snap")
  /\ loop' = [loop EXCEPT ![o].pc = "stream", ![o].pre = Len(msgs)]
  /\ hist' = [hist EXCEPT !.asked = @ \cup Users(msgs)]
  /\ ui' = [ui EXCEPT !.bubble = TRUE]
  /\ UNCHANGED <<msgs, log, gate, cmd, compact, calls, pending, open>>

\* Every way the provider's stream ends closes the bubble.
Ends(o) ==
  /\ At(o, "stream")
  /\ ui' = [ui EXCEPT !.bubble = FALSE]
  /\ UNCHANGED <<msgs, gate, cmd, compact, pending, open, hist>>

(* Mutant: a repeated attempt is not counted. *)
AgainUncounted(o, budget) ==
  loop' = [loop EXCEPT ![o].pc = "top", ![o].round = @ - 1]
\* A failed attempt is repeated without burning a round.
Again(o, budget) ==
  loop' = [loop EXCEPT ![o].pc = "top", ![o].round = @ - 1, ![o][budget] = @ + 1]
\* Out of attempts: the notice is logged, then pushed with the end of the turn.
Exhausted(o) == log' = Append(log, Asst(<<>>)) /\ Goto(o, "giveup")

(* Mutant: one attempt too many. *)
RetryOnceMore(o, budget, max) ==
  IF loop[o][budget] <= max THEN Again(o, budget) /\ log' = log ELSE Exhausted(o)

RetryOrGiveUp(o, budget, max) ==
  IF loop[o][budget] < max THEN Again(o, budget) /\ log' = log ELSE Exhausted(o)

EmptyTurn(o) == Ends(o) /\ RetryOrGiveUp(o, "empty", MaxEmpty) /\ calls' = calls
TransientFailure(o) ==
  Ends(o) /\ RetryOrGiveUp(o, "transient", MaxTransient) /\ calls' = calls

\* A request that did not fit: force a compaction and re-issue the round.
Overflow(o) ==
  /\ At(o, "stream")
  /\ ui' = [ui EXCEPT !.bubble = FALSE]
  /\ IF loop[o].overflow >= MaxOverflow
     THEN Exhausted(o) /\ compact' = compact
     ELSE /\ log' = log
          /\ IF WorthCompacting
             THEN /\ MarkInFlight
                  /\ loop' = [loop EXCEPT ![o].pc = "forced", ![o].round = @ - 1,
                                          ![o].overflow = @ + 1]
             ELSE Again(o, "overflow") /\ compact' = compact
  /\ UNCHANGED <<msgs, gate, cmd, calls, pending, open, hist>>

\* Usage limit, or an error no retry is for: logged, pushed, and the turn stops.
ProviderError(o) ==
  /\ Ends(o)
  /\ log' = Append(log, Asst(<<>>))
  /\ Goto(o, "errpush")
  /\ calls' = calls

ErrorPush(o) ==
  /\ At(o, "errpush")
  /\ msgs' = Append(msgs, Asst(<<>>))
  /\ Goto(o, "stop")
  /\ UNCHANGED <<log, gate, cmd, compact, calls, pending, ui, open, hist>>

LoopStop(o) ==
  /\ At(o, "stop")
  /\ gate' = Released
  /\ hist' = ForgetQueued(o)
  /\ Goto(o, "end")
  /\ UNCHANGED <<msgs, log, cmd, compact, calls, pending, ui, open>>

LoopGiveUp(o) ==
  /\ At(o, "giveup")
  /\ msgs' = Append(msgs, Asst(<<>>))
  /\ gate' = Released
  /\ hist' = ForgetQueued(o)
  /\ Goto(o, "end")
  /\ UNCHANGED <<log, cmd, compact, calls, pending, ui, open>>

\* A full answer resets the budgets of flakes.
Answered(o, cs, pc) ==
  loop' = [loop EXCEPT ![o].pc = pc, ![o].calls = cs, ![o].empty = 0, ![o].transient = 0]

\* The provider makes up an id for every call.
Fresh(cs) == IsInjective(cs) /\ \A c \in ToSet(cs) : calls[c] = "free"

(***************************************************************************)
(* An answer that ends the turn.  It may carry calls: a finish reason      *)
(* other than ToolCalls (an answer cut at max_tokens) ends the turn with   *)
(* them in the transcript, and none of them is run.                        *)
(***************************************************************************)
Text(o, cs) ==
  /\ Ends(o)
  /\ Fresh(cs)
  /\ log' = Append(log, Asst(cs))
  /\ Answered(o, cs, "final")
  /\ calls' = [c \in Calls |-> IF c \in ToSet(cs) THEN "dead" ELSE calls[c]]

\* The answer asks for tools; they run concurrently.
ToolRequest(o, cs) ==
  /\ Ends(o)
  /\ cs # <<>> /\ Fresh(cs)
  /\ log' = Append(log, Asst(cs))
  /\ Answered(o, cs, "tools")
  /\ calls' = [c \in Calls |-> IF c \in ToSet(cs) THEN "ready" ELSE calls[c]]

\* Did a send land during the round?
UserQueuedDuringRound(ms, pre) == Len(ms) > pre /\ Last(ms).role = "user"

(* Mutant: the turn ends without looking for queued messages. *)
FinalWithoutCheck(o) ==
  /\ At(o, "final")
  /\ msgs' = Append(msgs, Asst(loop[o].calls))
  /\ gate' = Released
  /\ loop' = [loop EXCEPT ![o].pc = "end", ![o].calls = <<>>]
  /\ UNCHANGED <<log, cmd, compact, calls, pending, ui, open, hist>>

\* End of turn, under one lock: go on with a queued message, or finish.
Final(o) ==
  /\ At(o, "final")
  /\ IF UserQueuedDuringRound(msgs, loop[o].pre)
     THEN /\ msgs' = InsertAt(msgs, TrailingUserRunStart(msgs), Asst(loop[o].calls))
          /\ loop' = [loop EXCEPT ![o].pc = "top", ![o].round = 0, ![o].calls = <<>>]
          /\ gate' = gate
     ELSE /\ msgs' = Append(msgs, Asst(loop[o].calls))
          /\ gate' = Released
          /\ loop' = [loop EXCEPT ![o].pc = "end", ![o].calls = <<>>]
  /\ UNCHANGED <<log, cmd, compact, calls, pending, ui, open, hist>>

(* Mutant: the closing report ignores a turn that was claimed meanwhile. *)
LoopEndUnconditional(o) ==
  /\ At(o, "end")
  /\ ui' = [ui EXCEPT !.running = FALSE]
  /\ loop' = [loop EXCEPT ![o] = IdleLoop]
  /\ UNCHANGED <<msgs, log, gate, cmd, compact, calls, pending, open, hist>>

\* run_turn_loop's closing report; a send may already own the next turn.
LoopEnd(o) ==
  /\ At(o, "end")
  /\ ui' = [ui EXCEPT !.running = @ /\ Busy]
  /\ loop' = [loop EXCEPT ![o] = IdleLoop]
  /\ UNCHANGED <<msgs, log, gate, cmd, compact, calls, pending, open, hist>>
-----------------------------------------------------------------------------
(* execute_tool_call and the approvals *)

Owner(c) == CHOOSE o \in Owners : c \in ToSet(loop[o].calls)

\* Bad arguments answer at once, a read runs, a write asks unless allowed.
ToolStart(c) ==
  /\ calls[c] = "ready"
  /\ \E st \in {"done", "run", "approval"} :
       /\ calls' = [calls EXCEPT ![c] = st]
       /\ pending' = IF st = "approval" THEN pending \cup {c} ELSE pending
  /\ UNCHANGED <<msgs, log, gate, cmd, loop, compact, ui, open, hist>>

ApproveToolCall(c) ==
  /\ open /\ c \in pending
  /\ pending' = pending \ {c}
  /\ \E st \in {"run", "done"} : calls' = [calls EXCEPT ![c] = st]
  /\ UNCHANGED <<msgs, log, gate, cmd, loop, compact, ui, open, hist>>

\* The tool answers, fails or runs into its timeout.
ToolEnd(c) ==
  /\ calls[c] = "run"
  /\ calls' = [calls EXCEPT ![c] = "done"]
  /\ UNCHANGED <<msgs, log, gate, cmd, loop, compact, pending, ui, open, hist>>

AllDone(cs) == \A c \in ToSet(cs) : calls[c] = "done"

Results(cs) ==
  LET done == Picked(cs, {c \in Calls : calls[c] = "done"})
  IN [k \in DOMAIN done |-> Tool(done[k])]

\* Assistant and results enter the transcript together.
ToolsPush(o) ==
  /\ At(o, "tools") /\ AllDone(loop[o].calls)
  /\ msgs' = msgs \o <<Asst(loop[o].calls)>> \o Results(loop[o].calls)
  /\ Goto(o, "persist")
  /\ UNCHANGED <<log, gate, cmd, compact, calls, pending, ui, open, hist>>

ToolPersist(o) ==
  /\ At(o, "persist")
  /\ log' = Append(log, Tool(Head(loop[o].calls)))
  /\ loop' = [loop EXCEPT ![o].calls = Tail(@),
                          ![o].pc = IF Len(loop[o].calls) = 1 THEN "top" ELSE "persist"]
  /\ UNCHANGED <<msgs, gate, cmd, compact, calls, pending, ui, open, hist>>
-----------------------------------------------------------------------------
(* The commands that race it *)

\* An abort that hits a claim takes it from a send that goes on to spawn.
Steal == [GiveUp(Users(msgs)) EXCEPT !.stolen = @ \/ gate.claimed]

(* Mutant: a cancel leaves the approvals of the aborted turn behind. *)
CancelKeepingApprovals ==
  /\ MayRace /\ open /\ Busy
  /\ gate' = Released /\ loop' = Killed /\ calls' = CallsWithout(gate.handle)
  /\ ui' = IF gate.handle = "nobody" THEN ui ELSE [running |-> FALSE, bubble |-> FALSE]
  /\ hist' = Raced(Steal)
  /\ UNCHANGED <<msgs, log, cmd, compact, pending, open>>

CancelStreaming ==
  /\ MayRace /\ open /\ Busy
  /\ gate' = Released /\ loop' = Killed /\ calls' = CallsWithout(gate.handle)
  /\ IF gate.handle = "nobody" THEN UNCHANGED <<ui, pending>>
     ELSE ui' = [running |-> FALSE, bubble |-> FALSE] /\ pending' = {}
  /\ hist' = Raced(Steal)
  /\ UNCHANGED <<msgs, log, cmd, compact, open>>

\* chat_close, or the sweep of a disconnect: close_chat_runtime.
ChatClose ==
  /\ MayRace /\ open
  /\ open' = FALSE
  /\ gate' = Released /\ loop' = Killed /\ calls' = CallsWithout(gate.handle)
  /\ pending' = {}
  /\ hist' = Raced(Steal)
  /\ UNCHANGED <<msgs, log, cmd, compact, ui>>

\* No call of an earlier runtime is run any more.
Forgotten == [c \in Calls |-> IF calls[c] = "free" THEN "free" ELSE "dead"]

\* The process dies, the webview with it: only the log is left.
Crash ==
  /\ MayRace /\ open
  /\ open' = FALSE
  /\ gate' = Released /\ loop' = [o \in Owners |-> IdleLoop]
  /\ cmd' = [o \in Owners |-> IF cmd[o] = "new" THEN "new" ELSE "done"]
  /\ calls' = Forgotten
  /\ pending' = {}
  /\ ui' = [running |-> FALSE, bubble |-> FALSE]
  /\ hist' = Raced(GiveUp(Users(msgs)))
  /\ UNCHANGED <<msgs, log, compact>>

LoopQuiet == \A o \in Owners : loop[o].pc = "off"
Quiet == LoopQuiet /\ \A o \in Owners : cmd[o] \in {"new", "done"}

Active(o) == loop[o].pc \notin {"off", "end"}
\* A send past its lookup keeps the closed runtime alive, and may spawn a loop on it.
Leftover(o) == cmd[o] \notin {"new", "done"} \/ Active(o)

\* chat_open: a new runtime with an id of its own, whatever still runs on the old one.
ChatOpen ==
  /\ ~open
  /\ open' = TRUE
  /\ msgs' = Reloaded(log)
  /\ compact' = NoCompaction
  /\ gate' = Released /\ loop' = [o \in Owners |-> IdleLoop]
  /\ cmd' = [o \in Owners |-> IF Leftover(o) THEN "stray" ELSE cmd[o]]
  /\ calls' = Forgotten /\ pending' = {}
  /\ ui' = [running |-> FALSE, bubble |-> FALSE]
  /\ hist' = [GiveUp(Users(Reloaded(log))) EXCEPT
                !.strayed = @ \/ \E o \in Owners : Leftover(o)]
  /\ log' = log

(***************************************************************************)
(* The old runtime shares nothing with the new one but the session's log:  *)
(* what a stray still does is append to it.  Its turn is abstracted to one *)
(* entry.                                                                  *)
(***************************************************************************)
Stray(o) ==
  /\ cmd[o] = "stray"
  /\ \/ log' = log
     \/ \E e \in {User(o), Asst(<<>>), Marker(<<>>)} : log' = Append(log, e)
  /\ cmd' = [cmd EXCEPT ![o] = "done"]
  /\ UNCHANGED <<msgs, gate, loop, compact, calls, pending, ui, open, hist>>

LoopStep(o) ==
  \/ LoopBegin(o) \/ RoundCap(o) \/ RoundTop(o)
  \/ LoopCompactStart(o) \/ LoopCompactSkip(o) \/ LoopCompactEnd(o)
  \/ Snapshot(o) \/ EmptyTurn(o) \/ TransientFailure(o) \/ Overflow(o)
  \/ ProviderError(o) \/ ErrorPush(o) \/ LoopStop(o) \/ LoopGiveUp(o)
  \/ Final(o) \/ LoopEnd(o) \/ ToolsPush(o) \/ ToolPersist(o)
  \/ \E cs \in BoundedSeq(Calls, Cardinality(Calls)) : Text(o, cs) \/ ToolRequest(o, cs)

CommandStep(o) ==
  \/ o \in Sends /\ SendPush(o)
  \/ SendFails(o) \/ SendLog(o) \/ SpawnTurnLoop(o) \/ Stray(o)

Next ==
  \/ \E s \in Sends : SendLookup(s)
  \/ \E o \in Owners : CommandStep(o) \/ LoopStep(o)
  \/ CompactCommand \/ CompactCommandEnd \/ AutocontinueIfIdle
  \/ \E c \in Calls : ToolStart(c) \/ ApproveToolCall(c) \/ ToolEnd(c)
  \/ CancelStreaming \/ ChatClose \/ Crash \/ ChatOpen

Spec == Init /\ [][Next]_vars

(***************************************************************************)
(* Fairness: tasks and commands in progress run on, providers answer or    *)
(* fail, tools end by their timeout.  Nothing is assumed of the operator.  *)
(***************************************************************************)
Fairness ==
  /\ \A o \in Owners : WF_vars(LoopStep(o)) /\ WF_vars(CommandStep(o))
  /\ WF_vars(CompactCommandEnd) /\ WF_vars(AutocontinueIfIdle)
  /\ \A c \in Calls : WF_vars(ToolStart(c)) /\ WF_vars(ToolEnd(c))
LiveSpec == Spec /\ Fairness
-----------------------------------------------------------------------------
\* No cancel hit a claim, no manual compaction a running turn, and no leftover of a
\* closed runtime is writing to the log of the one that took its place.
Undisturbed == ~hist.stolen /\ ~hist.folded /\ ~hist.strayed

(* The gate keeps two loops off one transcript: while no cancel has taken a
   claim away, at most one loop is between its start and the end of its turn
   (TurnGate, spawn_turn_loop). *)
OneLoopWhileClaimsHold ==
  ~hist.stolen => \A o, p \in Owners : Active(o) /\ Active(p) => o = p

(* TurnGate's promise without the exception: a second send arriving while a
   turn is being built queues its message instead of starting a second loop. *)
OneLoop == \A o, p \in Owners : Active(o) /\ Active(p) => o = p

(* A running loop of the open runtime can be stopped: its handle is in the gate
   and the UI shows the turn as running (run_turn_loop, "so the Stop button
   stays available").  Not promised after a cancel hit a claim, and not for a
   stray, which runs on a runtime no chat id leads to. *)
StopAvailable ==
  ~hist.stolen /\ open =>
    \A o \in Owners : Active(o) =>
      gate.handle = o /\ (~At(o, "begin") => ui.running)

(* Every transcript handed to the provider has each tool call answered at
   once and exactly once, also after an answer that was cut off with calls
   nobody ran (repair_orphan_tool_calls at the top of the round, ToolsPush in
   one lock hold, CompactionCut). *)
RequestWellFormed ==
  Undisturbed => \A o \in Owners : At(o, "snap") => WellFormed(msgs)

(* Whenever the process stops, reopening the session gives a transcript
   providers accept, whatever was logged half (chat_open). *)
ReloadWellFormed == Undisturbed => WellFormed(Reloaded(log))

(* Reopening loses no message of a chat at rest but the results a cancel kept
   from being logged, and no result that was logged turns into an
   "interrupted" note (Compaction.tail, repair_tool_pairs). *)
ReloadLosesNothing ==
  Undisturbed =>
    /\ open /\ Quiet => {m \in ToSet(msgs) : ~IsTool(m)} \subseteq ToSet(Reloaded(log))
    /\ \A c \in Calls : Note(c) \in ToSet(Reloaded(log)) => Tool(c) \notin ToSet(log)

(* The head a compaction is to fold is still there when its summary arrives,
   whatever became of the transcript while it was made (head_count). *)
CutInRange == compact.cut <= Len(msgs)

(* The log is enough to resume from: a well-formed transcript that has all
   there was, cut by a compaction only where it still has messages. *)
ReloadIsFaithful == CutInRange /\ ReloadWellFormed /\ ReloadLosesNothing

(* Nothing falls between two turns: when the chat is at rest every user message
   was part of a request, or its turn was cut off by a cancel, a close or a
   crash, or it came behind the last request of a turn that failed or hit the
   round cap; a turn that ends with an answer leaves none behind
   (user_queued_during_round in one critical section with the end of turn). *)
NoMessageAbandoned ==
  open /\ Quiet /\ Undisturbed =>
    Users(msgs) \subseteq hist.asked \cup hist.dropped \cup hist.unheard

(* What chat_send_message says of a message it queues: the running loop sees it
   at the top of its next round or at its end-of-turn check. *)
QueuedIsHeard ==
  open /\ Quiet /\ Undisturbed => Users(msgs) \subseteq hist.asked \cup hist.dropped

(* Nothing hangs on the screen: at rest there is no running turn, no open
   bubble and no approval card. *)
RestIsShown ==
  open /\ Quiet /\ ~hist.stolen => ~ui.running /\ ~ui.bubble /\ pending = {}

(* The panel of an open chat tracks its loop: a running one can be stopped, and
   one that has ended leaves nothing running on the screen. *)
PanelTracksLoop == TypeOK /\ StopAvailable /\ RestIsShown

(* What run_turn_loop's comment says of an aborted turn: close_chat_runtime sends
   its closing report, so a closed chat does not show a running turn. *)
ClosedIsShown == ~open /\ Quiet => ~ui.running

(* A turn ends or waits for the operator: whatever the provider answers, the
   round cap and the retry budgets are exhausted in the end. *)
TurnEnds == \A o \in Owners : Active(o) ~> (~Active(o) \/ pending # {})
=============================================================================
