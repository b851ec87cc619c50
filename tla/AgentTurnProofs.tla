--------------------------- MODULE AgentTurnProofs ---------------------------
(***************************************************************************)
(* Proofs about one chat, for any number of sends, tool calls, retries,    *)
(* cancels, compactions and crashes.                                       *)
(*                                                                         *)
(* First the turn gate and the panel, where the transcript plays no part   *)
(* (IInv): one loop at a time, which can be stopped, and a chat at rest    *)
(* that shows nothing as running.  Then the transcript functions for every *)
(* transcript: what the repair, the cut of a compaction and the fold of a  *)
(* marker return and keep.  Last the transcript and the log under the turn *)
(* loop (TInv): every request is one providers accept, the log is enough   *)
(* to resume from, and a turn that ends with an answer leaves no message   *)
(* behind.                                                                 *)
(***************************************************************************)
EXTENDS AgentTurn, NaturalsInduction, FiniteSetTheorems, TLAPS

-----------------------------------------------------------------------------
(* The types.  Fields that hold parts of the transcript are left untyped.  *)
LoopFields == {"pc", "pre", "round", "calls", "empty", "transient", "overflow"}

(* A loop inside a round has counted it, and one that runs tools has some. *)
LoopOK(l) ==
  /\ DOMAIN l = LoopFields
  /\ l.pc \in PCs /\ l.round \in 0..MaxToolRounds
  /\ l.empty \in 0..MaxEmpty /\ l.transient \in 0..MaxTransient /\ l.overflow \in 0..MaxOverflow
  /\ l.calls \in Seq(Calls) /\ Len(l.calls) <= Cardinality(Calls)
  /\ l.pc \in {"compact?", "compacting", "snap", "stream"} => l.round >= 1
  /\ l.pc \in {"begin", "forced"} => l.round < MaxToolRounds
  /\ l.pc \in {"tools", "persist"} => l.calls # <<>>

GateType == [handle : Owners \cup {"nobody"}, claimed : BOOLEAN]
CmdType == [Owners -> {"new", "resolved", "summing", "again", "queued", "owner", "spawn",
                       "stray", "done"}]
CallsType == [Calls -> {"free", "ready", "approval", "run", "done", "dead"}]
UiType == [running : BOOLEAN, bubble : BOOLEAN]
HistNames == {"asked", "dropped", "unheard", "stolen", "folded", "strayed", "races"}
HistOK == /\ DOMAIN hist = HistNames
          /\ hist.stolen \in BOOLEAN

Types ==
  /\ gate \in GateType /\ cmd \in CmdType
  /\ DOMAIN loop = Owners /\ \A o \in Owners : LoopOK(loop[o])
  /\ compact.on \in BOOLEAN /\ calls \in CallsType /\ pending \subseteq Calls
  /\ ui \in UiType /\ open \in BOOLEAN /\ HistOK

(* The command that holds the claim, and no other, will spawn a loop; the  *)
(* handle in the gate is that of the one active loop.                      *)
Claims(o) == cmd[o] \in {"owner", "spawn"}

Gated ==
  /\ \A o \in Owners : Claims(o) => gate.claimed
  /\ \A o, p \in Owners : Claims(o) /\ Claims(p) => o = p
  /\ gate.claimed => gate.handle = "nobody" /\ \E o \in Owners : Claims(o)
  /\ \A o \in Owners : Active(o) <=> gate.handle = o

(* What the panel shows is of a loop, or of a claim that will be one. *)
Screened ==
  /\ \A o \in Owners : Active(o) /\ ~At(o, "begin") => ui.running
  /\ open /\ ui.bubble => \E o \in Owners : At(o, "stream")
  /\ open /\ ui.running => gate.claimed \/ \E o \in Owners : ~At(o, "off")

(* A tool call that has not started or waits for approval is one of those  *)
(* a loop is waiting for.                                                  *)
Awaited(c) == \E o \in Owners : At(o, "tools") /\ c \in ToSet(loop[o].calls)

Asked ==
  /\ \A c \in Calls : calls[c] = "ready" \/ c \in pending => Awaited(c)
  /\ \A c \in pending : calls[c] = "approval"

IInv == Types /\ (~hist.stolen => Gated /\ Screened /\ Asked)

LEMMA Facts ==
  /\ "nobody" \notin Owners /\ "auto" \in Owners
  /\ IsFiniteSet(Calls) /\ Cardinality(Calls) \in Nat
  BY AgentAssumption, FS_CardinalityType DEF Owners

LEMMA TypesIsTypeOK == Types => TypeOK
  BY DEF Types, TypeOK, LoopOK, GateType, CmdType, CallsType, UiType

LEMMA IdleLoopOK == LoopOK(IdleLoop) /\ IdleLoop.pc = "off"
  BY Facts, AgentAssumption DEF LoopOK, IdleLoop, LoopFields, PCs

LEMMA InitIInv == Init => IInv
<1> SUFFICES ASSUME Init PROVE IInv
  OBVIOUS
<1>1. DOMAIN loop = Owners /\ \A o \in Owners : loop[o] = IdleLoop
  BY DEF Init
<1>2. Types
  BY <1>1, IdleLoopOK DEF Init, Types, GateType, CmdType, CallsType, UiType, HistOK, HistNames,
     NoCompaction
<1>3. \A o \in Owners : At(o, "off") /\ ~Active(o) /\ ~Claims(o)
  BY <1>1, IdleLoopOK DEF Init, At, Active, Claims
<1>4. Gated
  BY <1>3, Facts DEF Init, Gated
<1>5. Screened /\ Asked
  BY <1>3 DEF Init, Screened, Asked
<1> QED
  BY <1>2, <1>4, <1>5 DEF IInv

-----------------------------------------------------------------------------
(* The turn loop.  A step of a loop moves it alone. *)
Moves(o) ==
  /\ DOMAIN loop' = Owners /\ LoopOK(loop'[o])
  /\ \A p \in Owners \ {o} : loop'[p] = loop[p]

(* A step inside the turn keeps the gate, the last one releases it. *)
InsideTurn(o) == Active(o) /\ Active(o)' /\ gate' = gate
EndOfTurn(o) == Active(o) /\ At(o, "end")' /\ gate' = Released

(* The bubble is open only while the provider streams. *)
Shown(o) ==
  /\ ui' \in UiType
  /\ ui'.running = (ui.running \/ At(o, "begin"))
  /\ ui'.bubble => At(o, "stream")' \/ (ui.bubble /\ ~At(o, "stream"))

(* Only finished calls are taken off the loop, and new ones are its own. *)
Called(o) ==
  /\ calls' \in CallsType /\ pending' = pending
  /\ \A c \in Calls :
       /\ calls'[c] = "ready" =>
            (calls[c] = "ready" \/ (At(o, "tools")' /\ c \in ToSet(loop'[o].calls)))
       /\ calls[c] = "approval" => calls'[c] = "approval"
  /\ At(o, "tools") => AllDone(loop[o].calls)

Stepped(o) ==
  /\ Moves(o) /\ (InsideTurn(o) \/ EndOfTurn(o)) /\ Shown(o) /\ Called(o)
  /\ UNCHANGED <<cmd, open>> /\ compact'.on \in BOOLEAN
  /\ HistOK' /\ hist'.stolen = hist.stolen

LEMMA GotoFacts ==
  ASSUME Types, NEW o \in Owners, NEW pc \in PCs, loop' = [loop EXCEPT ![o].pc = pc],
         pc \notin {"begin", "forced"}, pc \in {"compact?", "compacting", "snap", "stream"} => loop[o].round >= 1,
         pc \in {"tools", "persist"} => loop[o].calls # <<>>
  PROVE  Moves(o) /\ loop'[o].pc = pc /\ loop'[o].calls = loop[o].calls
<1>1. LoopOK(loop[o]) /\ DOMAIN loop = Owners /\ DOMAIN loop[o] = LoopFields
  BY DEF Types, LoopOK
<1>2. /\ DOMAIN loop' = Owners /\ \A p \in Owners \ {o} : loop'[p] = loop[p]
      /\ loop'[o] = [loop[o] EXCEPT !.pc = pc]
  BY <1>1
<1>3. /\ DOMAIN loop'[o] = LoopFields /\ loop'[o].pc = pc
      /\ loop'[o].round = loop[o].round /\ loop'[o].calls = loop[o].calls
      /\ loop'[o].empty = loop[o].empty /\ loop'[o].transient = loop[o].transient
      /\ loop'[o].overflow = loop[o].overflow
  BY <1>1, <1>2 DEF LoopFields
<1> QED
  BY <1>1, <1>2, <1>3 DEF LoopOK, Moves

(* The fields of hist that matter are kept when others are set. *)
LEMMA HistFacts ==
  ASSUME HistOK, NEW us
  PROVE  LET a == [hist EXCEPT !.asked = @ \cup us]
             g == GiveUp(us)
             u == [hist EXCEPT !.unheard = @ \cup us]
         IN /\ DOMAIN a = DOMAIN hist /\ a.stolen = hist.stolen
            /\ DOMAIN g = DOMAIN hist /\ g.stolen = hist.stolen
            /\ DOMAIN u = DOMAIN hist /\ u.stolen = hist.stolen
  BY DEF HistOK, HistNames, GiveUp

LEMMA CompactFacts ==
  ASSUME Types, compact' = compact \/ MarkInFlight \/ compact' = NoCompaction
  PROVE  compact'.on \in BOOLEAN
<1>1. CASE compact' = compact
  BY <1>1 DEF Types
<1>2. CASE MarkInFlight
  BY <1>2 DEF MarkInFlight
<1>3. CASE compact' = NoCompaction
  BY <1>3 DEF NoCompaction
<1> QED
  BY <1>1, <1>2, <1>3

(* A step that leaves tools and panel alone. *)
LEMMA PlainMove ==
  ASSUME Types, NEW o \in Owners, Moves(o), InsideTurn(o) \/ EndOfTurn(o),
         UNCHANGED <<cmd, open, calls, pending>>, compact'.on \in BOOLEAN,
         HistOK', hist'.stolen = hist.stolen, Shown(o), ~At(o, "tools")
  PROVE  Stepped(o)
<1>1. Called(o)
  BY DEF Called, Types
<1> QED
  BY <1>1 DEF Stepped

LEMMA LoopBeginFacts ==
  ASSUME Types, NEW o \in Owners, LoopBegin(o)
  PROVE  Stepped(o)
<1>1. /\ At(o, "begin") /\ ui' = [ui EXCEPT !.running = TRUE]
      /\ loop' = [loop EXCEPT ![o].pc = "top"]
      /\ UNCHANGED <<gate, cmd, compact, calls, pending, open, hist>>
  BY DEF LoopBegin, Goto
<1>2. Moves(o) /\ loop'[o].pc = "top"
  BY <1>1, GotoFacts DEF PCs
<1>3. InsideTurn(o)
  BY <1>1, <1>2 DEF InsideTurn, Active, At
<1>4. Shown(o)
  BY <1>1 DEF Shown, Types, UiType, At
<1> QED
  BY <1>1, <1>2, <1>3, <1>4, PlainMove DEF Types, HistOK, At

(* RoundCap, LoopStop, LoopGiveUp: the turn is over. *)
LEMMA TurnOverFacts ==
  ASSUME Types, NEW o \in Owners, RoundCap(o) \/ LoopStop(o) \/ LoopGiveUp(o)
  PROVE  Stepped(o)
<1>1. /\ loop[o].pc \in {"top", "stop", "giveup"} /\ gate' = Released /\ hist' = ForgetQueued(o)
      /\ loop' = [loop EXCEPT ![o].pc = "end"]
      /\ UNCHANGED <<cmd, compact, calls, pending, ui, open>>
  BY DEF RoundCap, LoopStop, LoopGiveUp, At, Goto
<1>2. Moves(o) /\ loop'[o].pc = "end"
  BY <1>1, GotoFacts DEF PCs
<1>3. EndOfTurn(o)
  BY <1>1, <1>2 DEF EndOfTurn, Active, At
<1>4. Shown(o)
  BY <1>1 DEF Shown, Types, UiType, At
<1>5. HistOK' /\ hist'.stolen = hist.stolen
  BY <1>1, HistFacts DEF Types, HistOK, ForgetQueued
<1> QED
  BY <1>1, <1>2, <1>3, <1>4, <1>5, PlainMove DEF Types, At

(* Steps that go on inside the turn: the compaction, the notice of an error. *)
LEMMA GoOnFacts ==
  ASSUME Types, NEW o \in Owners,
         LoopCompactStart(o) \/ LoopCompactSkip(o) \/ LoopCompactEnd(o) \/ ErrorPush(o)
  PROVE  Stepped(o)
<1>1. /\ loop[o].pc \in {"compact?", "compacting", "forced", "errpush"}
      /\ UNCHANGED <<gate, cmd, calls, pending, ui, open, hist>>
  BY DEF LoopCompactStart, LoopCompactSkip, LoopCompactEnd, ErrorPush, At
<1>2. PICK pc \in {"compacting", "snap", "stop", "top"} :
        /\ loop' = [loop EXCEPT ![o].pc = pc]
        /\ pc \notin {"stop", "top"} => loop[o].pc \in {"compact?", "compacting"}
  BY DEF LoopCompactStart, LoopCompactSkip, LoopCompactEnd, ErrorPush, At, Goto
<1>3. loop[o].pc \in {"compact?", "compacting"} => loop[o].round >= 1
  BY DEF Types, LoopOK
<1>4. Moves(o) /\ loop'[o].pc = pc
  BY <1>2, <1>3, GotoFacts DEF PCs
<1>5. compact'.on \in BOOLEAN
  <2>1. compact' = compact \/ MarkInFlight \/ compact' = NoCompaction
    BY DEF LoopCompactStart, LoopCompactSkip, LoopCompactEnd, ErrorPush, FoldHead
  <2> QED
    BY <2>1, CompactFacts
<1>6. InsideTurn(o)
  BY <1>1, <1>2, <1>4 DEF InsideTurn, Active
<1>7. Shown(o)
  BY <1>1 DEF Shown, Types, UiType, At
<1> QED
  BY <1>1, <1>4, <1>5, <1>6, <1>7, PlainMove DEF Types, HistOK, At

(* The next round begins. *)
LEMMA RoundTopFacts ==
  ASSUME Types, NEW o \in Owners, RoundTop(o)
  PROVE  Stepped(o)
<1>1. /\ loop[o].pc = "top" /\ loop[o].round < MaxToolRounds
      /\ loop' = [loop EXCEPT ![o].pc = "compact?", ![o].round = @ + 1]
      /\ UNCHANGED <<gate, cmd, compact, calls, pending, ui, open, hist>>
  BY DEF RoundTop, At
<1>2. LoopOK(loop[o]) /\ DOMAIN loop = Owners /\ DOMAIN loop[o] = LoopFields
  BY DEF Types, LoopOK
<1>3. /\ DOMAIN loop' = Owners /\ \A p \in Owners \ {o} : loop'[p] = loop[p]
      /\ DOMAIN loop'[o] = LoopFields /\ loop'[o].pc = "compact?"
      /\ loop'[o].round = loop[o].round + 1 /\ loop'[o].calls = loop[o].calls
      /\ loop'[o].empty = loop[o].empty /\ loop'[o].transient = loop[o].transient
      /\ loop'[o].overflow = loop[o].overflow
  BY <1>1, <1>2 DEF LoopFields
<1>4. loop'[o].round \in 0..MaxToolRounds /\ loop'[o].round >= 1
  BY <1>1, <1>2, <1>3, AgentAssumption DEF LoopOK
<1>5. Moves(o)
  BY <1>2, <1>3, <1>4 DEF LoopOK, Moves, PCs
<1>6. InsideTurn(o)
  BY <1>1, <1>3 DEF InsideTurn, Active
<1>7. Shown(o)
  BY <1>1 DEF Shown, Types, UiType, At
<1> QED
  BY <1>1, <1>5, <1>6, <1>7, PlainMove DEF Types, HistOK, At

LEMMA SnapshotFacts ==
  ASSUME Types, NEW o \in Owners, Snapshot(o)
  PROVE  Stepped(o)
<1>1. /\ loop[o].pc = "snap"
      /\ loop' = [loop EXCEPT ![o].pc = "stream", ![o].pre = Len(msgs)]
      /\ hist' = [hist EXCEPT !.asked = @ \cup Users(msgs)]
      /\ ui' = [ui EXCEPT !.bubble = TRUE]
      /\ UNCHANGED <<gate, cmd, compact, calls, pending, open>>
  BY DEF Snapshot, At
<1>2. LoopOK(loop[o]) /\ DOMAIN loop = Owners /\ DOMAIN loop[o] = LoopFields
  BY DEF Types, LoopOK
<1>3. /\ DOMAIN loop' = Owners /\ \A p \in Owners \ {o} : loop'[p] = loop[p]
      /\ DOMAIN loop'[o] = LoopFields /\ loop'[o].pc = "stream"
      /\ loop'[o].round = loop[o].round /\ loop'[o].calls = loop[o].calls
      /\ loop'[o].empty = loop[o].empty /\ loop'[o].transient = loop[o].transient
      /\ loop'[o].overflow = loop[o].overflow
  BY <1>1, <1>2 DEF LoopFields
<1>4. Moves(o)
  BY <1>1, <1>2, <1>3 DEF LoopOK, Moves, PCs
<1>5. InsideTurn(o)
  BY <1>1, <1>3 DEF InsideTurn, Active
<1>6. Shown(o)
  BY <1>1, <1>3 DEF Shown, Types, UiType, At
<1>7. HistOK' /\ hist'.stolen = hist.stolen
  BY <1>1, HistFacts DEF Types, HistOK
<1> QED
  BY <1>1, <1>4, <1>5, <1>6, <1>7, PlainMove DEF Types, At

(* A failed attempt is repeated within its budget and gives its round      *)
(* back, or the turn is given up.                                          *)
LEMMA AgainFacts ==
  ASSUME Types, NEW o \in Owners, loop[o].pc = "stream",
         NEW budget \in {"empty", "transient", "overflow"}, Again(o, budget),
         \/ budget = "empty" /\ loop[o].empty < MaxEmpty
         \/ budget = "transient" /\ loop[o].transient < MaxTransient
         \/ budget = "overflow" /\ loop[o].overflow < MaxOverflow
  PROVE  Moves(o) /\ loop'[o].pc = "top"
<1>1. LoopOK(loop[o]) /\ DOMAIN loop = Owners /\ DOMAIN loop[o] = LoopFields
  BY DEF Types, LoopOK
<1>2. loop' = [loop EXCEPT ![o] =
                 [loop[o] EXCEPT !.pc = "top", !.round = @ - 1, ![budget] = @ + 1]]
  BY DEF Again
<1>3. /\ DOMAIN loop' = Owners /\ \A p \in Owners \ {o} : loop'[p] = loop[p]
      /\ DOMAIN loop'[o] = LoopFields /\ loop'[o].pc = "top"
      /\ loop'[o].round = loop[o].round - 1 /\ loop'[o].calls = loop[o].calls
      /\ loop'[o].empty = IF budget = "empty" THEN loop[o].empty + 1 ELSE loop[o].empty
      /\ loop'[o].transient =
           IF budget = "transient" THEN loop[o].transient + 1 ELSE loop[o].transient
      /\ loop'[o].overflow = IF budget = "overflow" THEN loop[o].overflow + 1 ELSE loop[o].overflow
  BY <1>1, <1>2 DEF LoopFields
<1>4. loop'[o].round \in 0..MaxToolRounds
  BY <1>1, <1>3, AgentAssumption DEF LoopOK
<1>5. /\ loop'[o].empty \in 0..MaxEmpty /\ loop'[o].transient \in 0..MaxTransient
      /\ loop'[o].overflow \in 0..MaxOverflow
  <2>1. /\ loop[o].empty \in 0..MaxEmpty /\ loop[o].transient \in 0..MaxTransient
        /\ loop[o].overflow \in 0..MaxOverflow
    BY <1>1 DEF LoopOK
  <2>2. CASE budget = "empty"
    BY <1>3, <2>1, <2>2, AgentAssumption
  <2>3. CASE budget = "transient"
    BY <1>3, <2>1, <2>3, AgentAssumption
  <2>4. CASE budget = "overflow"
    BY <1>3, <2>1, <2>4, AgentAssumption
  <2> QED
    BY <2>2, <2>3, <2>4
<1> QED
  BY <1>1, <1>3, <1>4, <1>5 DEF LoopOK, Moves, PCs

(* However the stream ends without an answer, the bubble is closed. *)
LEMMA StreamOver ==
  ASSUME Types, NEW o \in Owners, loop[o].pc = "stream", Moves(o), Active(o)',
         ui' = [ui EXCEPT !.bubble = FALSE], compact'.on \in BOOLEAN,
         UNCHANGED <<gate, cmd, calls, pending, open, hist>>
  PROVE  Stepped(o)
<1>1. InsideTurn(o)
  BY DEF InsideTurn, Active
<1>2. ui' \in UiType /\ ui'.running = ui.running /\ ~ui'.bubble
  BY DEF Types, UiType
<1>3. ui.running \in BOOLEAN /\ ~At(o, "begin")
  BY DEF Types, UiType, At
<1>4. Shown(o)
  BY <1>2, <1>3 DEF Shown
<1> QED
  BY <1>1, <1>4, PlainMove DEF Types, HistOK, At

LEMMA FailedAttemptFacts ==
  ASSUME Types, NEW o \in Owners,
         EmptyTurn(o) \/ TransientFailure(o) \/ Overflow(o) \/ ProviderError(o)
  PROVE  Stepped(o)
<1>1. /\ loop[o].pc = "stream" /\ ui' = [ui EXCEPT !.bubble = FALSE]
      /\ UNCHANGED <<gate, cmd, calls, pending, open, hist>>
  BY DEF EmptyTurn, TransientFailure, Overflow, ProviderError, Ends, At
<1>2. compact'.on \in BOOLEAN
  <2>1. compact' = compact \/ MarkInFlight
    BY DEF EmptyTurn, TransientFailure, Overflow, ProviderError, Ends
  <2> QED
    BY <2>1, CompactFacts
<1>3. LoopOK(loop[o]) /\ DOMAIN loop = Owners /\ DOMAIN loop[o] = LoopFields
  BY DEF Types, LoopOK
<1>4. CASE \E pc \in {"giveup", "errpush"} : Goto(o, pc)
  <2>1. PICK pc \in {"giveup", "errpush"} : loop' = [loop EXCEPT ![o].pc = pc]
    BY <1>4 DEF Goto
  <2>2. Moves(o) /\ loop'[o].pc = pc
    BY <2>1, GotoFacts DEF PCs
  <2> QED
    BY <1>1, <1>2, <2>1, <2>2, StreamOver DEF Active
<1>5. CASE \/ Again(o, "empty") /\ loop[o].empty < MaxEmpty
           \/ Again(o, "transient") /\ loop[o].transient < MaxTransient
           \/ Again(o, "overflow") /\ loop[o].overflow < MaxOverflow
  <2>1. Moves(o) /\ loop'[o].pc = "top"
    BY <1>1, <1>5, AgainFacts
  <2> QED
    BY <1>1, <1>2, <2>1, StreamOver DEF Active
<1>6. CASE /\ loop' = [loop EXCEPT ![o].pc = "forced", ![o].round = @ - 1, ![o].overflow = @ + 1]
           /\ loop[o].overflow < MaxOverflow
  <2>1. /\ DOMAIN loop' = Owners /\ \A p \in Owners \ {o} : loop'[p] = loop[p]
        /\ DOMAIN loop'[o] = LoopFields /\ loop'[o].pc = "forced"
        /\ loop'[o].round = loop[o].round - 1 /\ loop'[o].calls = loop[o].calls
        /\ loop'[o].empty = loop[o].empty /\ loop'[o].transient = loop[o].transient
        /\ loop'[o].overflow = loop[o].overflow + 1
    BY <1>3, <1>6 DEF LoopFields
  <2>2. loop'[o].overflow \in 0..MaxOverflow
    BY <1>3, <1>6, <2>1, AgentAssumption DEF LoopOK
  <2>3. loop'[o].round \in 0..MaxToolRounds /\ loop'[o].round < MaxToolRounds
    BY <1>1, <1>3, <2>1, AgentAssumption DEF LoopOK
  <2>4. Moves(o)
    BY <1>1, <1>3, <2>1, <2>2, <2>3 DEF LoopOK, Moves, PCs
  <2> QED
    BY <1>1, <1>2, <2>1, <2>4, StreamOver DEF Active
<1>7. loop[o].overflow \in 0..MaxOverflow
  BY <1>3 DEF LoopOK
<1>8. CASE EmptyTurn(o) \/ TransientFailure(o) \/ ProviderError(o)
  BY <1>4, <1>5, <1>8 DEF EmptyTurn, TransientFailure, ProviderError, RetryOrGiveUp, Exhausted
<1>9. CASE Overflow(o)
  BY <1>4, <1>5, <1>6, <1>7, <1>9, AgentAssumption DEF Overflow, Exhausted
<1> QED
  BY <1>8, <1>9

(* The answer: the loop's calls are those asked for. *)
LEMMA AnsweredFacts ==
  ASSUME Types, NEW o \in Owners, NEW pc \in {"final", "tools"}, NEW cs \in Seq(Calls),
         Len(cs) <= Cardinality(Calls), pc = "tools" => cs # <<>>, Answered(o, cs, pc)
  PROVE  Moves(o) /\ loop'[o].pc = pc /\ loop'[o].calls = cs
<1>1. LoopOK(loop[o]) /\ DOMAIN loop = Owners /\ DOMAIN loop[o] = LoopFields
  BY DEF Types, LoopOK
<1>2. /\ DOMAIN loop' = Owners /\ \A p \in Owners \ {o} : loop'[p] = loop[p]
      /\ DOMAIN loop'[o] = LoopFields /\ loop'[o].pc = pc
      /\ loop'[o].round = loop[o].round /\ loop'[o].calls = cs
      /\ loop'[o].empty = 0 /\ loop'[o].transient = 0
      /\ loop'[o].overflow = loop[o].overflow
  BY <1>1 DEF LoopFields, Answered
<1>3. 0 \in 0..MaxEmpty /\ 0 \in 0..MaxTransient
  BY AgentAssumption
<1> QED
  BY <1>1, <1>2, <1>3 DEF LoopOK, Moves, PCs

(* Calls the answer asks for are run; those of a last answer are not. *)
LEMMA ToolRequestFacts ==
  ASSUME Types, NEW o \in Owners, NEW cs \in BoundedSeq(Calls, Cardinality(Calls)),
         Text(o, cs) \/ ToolRequest(o, cs)
  PROVE  Stepped(o)
<1>1. PICK pc \in {"final", "tools"} :
      /\ loop[o].pc = "stream" /\ ui' = [ui EXCEPT !.bubble = FALSE]
      /\ UNCHANGED <<gate, cmd, compact, pending, open, hist>> /\ Answered(o, cs, pc)
      /\ pc = "tools" => cs # <<>>
      /\ \A c \in ToSet(cs) : calls[c] = "free"
      /\ calls' = [c \in Calls |->
                     IF c \in ToSet(cs) THEN (IF pc = "tools" THEN "ready" ELSE "dead") ELSE calls[c]]
  <2>1. CASE Text(o, cs)
    BY <2>1 DEF Text, Fresh, Ends, At
  <2>2. CASE ToolRequest(o, cs)
    BY <2>2 DEF ToolRequest, Fresh, Ends, At
  <2> QED
    BY <2>1, <2>2
<1>2. cs \in Seq(Calls) /\ Len(cs) <= Cardinality(Calls)
  BY Facts DEF BoundedSeq, SeqOf
<1>3. Moves(o) /\ loop'[o].pc = pc /\ loop'[o].calls = cs
  BY <1>1, <1>2, AnsweredFacts
<1>4. InsideTurn(o)
  BY <1>1, <1>3 DEF InsideTurn, Active
<1>5. ui' \in UiType /\ ui'.running = ui.running /\ ~ui'.bubble
  BY <1>1 DEF Types, UiType
<1>6. ui.running \in BOOLEAN /\ ~At(o, "begin")
  BY <1>1 DEF Types, UiType, At
<1>7. Shown(o)
  BY <1>5, <1>6 DEF Shown
<1>8. Called(o)
  BY <1>1, <1>3 DEF Called, Types, CallsType, At
<1> QED
  BY <1>1, <1>3, <1>4, <1>7, <1>8 DEF Stepped, Types, HistOK

(* The end of the turn: go on with what was queued, or finish. *)
LEMMA FinalFacts ==
  ASSUME Types, NEW o \in Owners, Final(o)
  PROVE  Stepped(o)
<1>1. loop[o].pc = "final" /\ UNCHANGED <<cmd, compact, calls, pending, ui, open, hist>>
  BY DEF Final, At
<1>2. LoopOK(loop[o]) /\ DOMAIN loop = Owners /\ DOMAIN loop[o] = LoopFields
  BY DEF Types, LoopOK
<1>5. <<>> \in Seq(Calls) /\ Len(<<>>) <= Cardinality(Calls)
  BY Facts
<1>3. Moves(o) /\ (InsideTurn(o) \/ EndOfTurn(o))
  <2>1. CASE UserQueuedDuringRound(msgs, loop[o].pre)
    <3>1. loop' = [loop EXCEPT ![o].pc = "top", ![o].round = 0, ![o].calls = <<>>] /\ gate' = gate
      BY <2>1 DEF Final
    <3>2. /\ DOMAIN loop' = Owners /\ \A p \in Owners \ {o} : loop'[p] = loop[p]
          /\ DOMAIN loop'[o] = LoopFields /\ loop'[o].pc = "top"
          /\ loop'[o].round = 0 /\ loop'[o].calls = <<>>
          /\ loop'[o].empty = loop[o].empty /\ loop'[o].transient = loop[o].transient
          /\ loop'[o].overflow = loop[o].overflow
      BY <1>2, <3>1 DEF LoopFields
    <3>3. 0 \in 0..MaxToolRounds
      BY AgentAssumption
    <3> QED
      BY <1>1, <1>2, <1>5, <3>1, <3>2, <3>3 DEF LoopOK, Moves, PCs, InsideTurn, Active
  <2>2. CASE ~UserQueuedDuringRound(msgs, loop[o].pre)
    <3>1. loop' = [loop EXCEPT ![o].pc = "end", ![o].calls = <<>>] /\ gate' = Released
      BY <2>2 DEF Final
    <3>2. /\ DOMAIN loop' = Owners /\ \A p \in Owners \ {o} : loop'[p] = loop[p]
          /\ DOMAIN loop'[o] = LoopFields /\ loop'[o].pc = "end"
          /\ loop'[o].round = loop[o].round /\ loop'[o].calls = <<>>
          /\ loop'[o].empty = loop[o].empty /\ loop'[o].transient = loop[o].transient
          /\ loop'[o].overflow = loop[o].overflow
      BY <1>2, <3>1 DEF LoopFields
    <3> QED
      BY <1>1, <1>2, <1>5, <3>1, <3>2 DEF LoopOK, Moves, PCs, EndOfTurn, Active, At
  <2> QED
    BY <2>1, <2>2
<1>4. Shown(o)
  BY <1>1 DEF Shown, Types, UiType, At
<1> QED
  BY <1>1, <1>3, <1>4, PlainMove DEF Types, HistOK, At

(* The results are in; they are logged one by one. *)
LEMMA ToolsFacts ==
  ASSUME Types, NEW o \in Owners, ToolsPush(o) \/ ToolPersist(o)
  PROVE  Stepped(o)
<1>1. /\ loop[o].pc \in {"tools", "persist"}
      /\ UNCHANGED <<gate, cmd, compact, calls, pending, ui, open, hist>>
      /\ loop[o].pc = "tools" => AllDone(loop[o].calls)
  BY DEF ToolsPush, ToolPersist, At
<1>2. LoopOK(loop[o]) /\ DOMAIN loop = Owners /\ DOMAIN loop[o] = LoopFields
  BY DEF Types, LoopOK
<1>3. Moves(o) /\ loop'[o].pc \in {"persist", "top"}
  <2>1. CASE ToolsPush(o)
    <3>1. loop' = [loop EXCEPT ![o].pc = "persist"] /\ loop[o].calls # <<>>
      BY <1>1, <1>2, <2>1 DEF ToolsPush, Goto, LoopOK
    <3> QED
      BY <3>1, GotoFacts DEF PCs
  <2>2. CASE ToolPersist(o)
    <3> DEFINE cs == loop[o].calls
               pc == IF Len(cs) = 1 THEN "top" ELSE "persist"
    <3>1. loop' = [loop EXCEPT ![o].calls = Tail(cs), ![o].pc = pc] /\ loop[o].pc = "persist"
      BY <2>2 DEF ToolPersist, At
    <3>2. cs \in Seq(Calls) /\ cs # <<>> /\ Len(cs) <= Cardinality(Calls)
      BY <1>2, <3>1 DEF LoopOK
    <3>3. Tail(cs) \in Seq(Calls) /\ Len(Tail(cs)) = Len(cs) - 1 /\ Len(cs) \in Nat
      BY <3>2
    <3>4. Len(Tail(cs)) <= Cardinality(Calls)
      BY <3>2, <3>3, Facts
    <3>5. Len(cs) # 1 => Tail(cs) # <<>>
      <4>1. Len(<<>>) = 0
        OBVIOUS
      <4>2. Len(cs) # 1 => Len(Tail(cs)) # 0
        BY <3>3
      <4> QED
        BY <4>1, <4>2, Zenon
    <3> HIDE DEF cs
    <3>6. /\ DOMAIN loop' = Owners /\ \A p \in Owners \ {o} : loop'[p] = loop[p]
          /\ DOMAIN loop'[o] = LoopFields /\ loop'[o].pc = pc
          /\ loop'[o].round = loop[o].round /\ loop'[o].calls = Tail(cs)
          /\ loop'[o].empty = loop[o].empty /\ loop'[o].transient = loop[o].transient
          /\ loop'[o].overflow = loop[o].overflow
      BY <1>2, <3>1 DEF LoopFields
    <3> QED
      BY <1>2, <3>3, <3>4, <3>5, <3>6 DEF LoopOK, Moves, PCs
  <2> QED
    BY <2>1, <2>2
<1>4. InsideTurn(o)
  BY <1>1, <1>3 DEF InsideTurn, Active
<1>5. Shown(o)
  BY <1>1 DEF Shown, Types, UiType, At
<1>6. Called(o)
  BY <1>1 DEF Called, Types, At
<1> QED
  BY <1>1, <1>3, <1>4, <1>5, <1>6 DEF Stepped, Types, HistOK

-----------------------------------------------------------------------------
(* Every such step keeps the invariant. *)
LEMMA SteppedStep ==
  ASSUME IInv, NEW o \in Owners, Stepped(o)
  PROVE  IInv'
<1>1. /\ Types /\ Moves(o) /\ (InsideTurn(o) \/ EndOfTurn(o)) /\ Shown(o) /\ Called(o)
      /\ UNCHANGED <<cmd, open>> /\ compact'.on \in BOOLEAN
      /\ HistOK' /\ hist'.stolen = hist.stolen
  BY DEF IInv, Stepped
<1>2. /\ DOMAIN loop' = Owners /\ LoopOK(loop'[o])
      /\ \A p \in Owners \ {o} : loop'[p] = loop[p]
  BY <1>1 DEF Moves
<1>3. \A p \in Owners \ {o} : (Active(p)' <=> Active(p)) /\ \A pc : At(p, pc)' <=> At(p, pc)
  BY <1>2 DEF Active, At
<1>4. Types'
  <2>1. \A p \in Owners : LoopOK(loop'[p])
    BY <1>1, <1>2 DEF Types
  <2>2. gate' \in GateType
    <3>1. Released \in GateType
      BY DEF GateType, Released
    <3> QED
      BY <1>1, <3>1 DEF Types, InsideTurn, EndOfTurn
  <2> QED
    BY <1>1, <1>2, <2>1, <2>2 DEF Types, Shown, Called
<1>5. ASSUME ~hist.stolen PROVE Gated' /\ Screened' /\ Asked'
  <2>1. Gated /\ Screened /\ Asked
    BY <1>5 DEF IInv
  <2>2. Active(o) /\ gate.handle = o /\ ~gate.claimed
    BY <1>1, <2>1, Facts DEF InsideTurn, EndOfTurn, Gated
  <2>3. \A p \in Owners \ {o} : ~Active(p)
    BY <2>1, <2>2 DEF Gated
  <2>4. Gated'
    <3>1. \A p \in Owners : ~Claims(p) /\ ~Claims(p)'
      BY <1>1, <2>1, <2>2 DEF Gated, Claims
    <3>2. CASE InsideTurn(o)
      BY <1>3, <2>2, <2>3, <3>1, <3>2 DEF InsideTurn, Gated
    <3>3. CASE EndOfTurn(o)
      BY <1>3, <2>3, <3>1, <3>3, Facts DEF EndOfTurn, Gated, Released, Active, At
    <3> QED
      BY <1>1, <3>2, <3>3
  <2>5. Screened'
    <3>1. \A p \in Owners : Active(p)' /\ ~At(p, "begin")' => ui'.running
      BY <1>1, <1>3, <2>1, <2>2, <2>3 DEF Screened, Shown
    <3>2. open /\ ui'.bubble => \E p \in Owners : At(p, "stream")'
      BY <1>1, <1>3, <2>1 DEF Screened, Shown
    <3>3. ~At(o, "off")'
      BY <1>1 DEF InsideTurn, EndOfTurn, Active, At
    <3> QED
      BY <1>1, <3>1, <3>2, <3>3 DEF Screened
  <2>6. Asked'
    <3>1. ASSUME NEW c \in Calls, calls[c] # "done", Awaited(c) PROVE Awaited(c)'
      <4>1. PICK p \in Owners : At(p, "tools") /\ c \in ToSet(loop[p].calls)
        BY <3>1 DEF Awaited
      <4>2. p # o
        BY <1>1, <3>1, <4>1 DEF Called, AllDone
      <4> QED
        BY <1>2, <1>3, <4>1, <4>2 DEF Awaited
    <3>2. ASSUME NEW c \in Calls, calls'[c] = "ready" \/ c \in pending' PROVE Awaited(c)'
      BY <1>1, <2>1, <3>1, <3>2 DEF Asked, Called, Awaited
    <3> QED
      BY <1>1, <2>1, <3>2 DEF Asked, Called, Types
  <2> QED
    BY <2>4, <2>5, <2>6
<1> QED
  BY <1>1, <1>4, <1>5 DEF IInv

(* The loop's closing report: what is claimed, or runs, keeps the panel.   *)
LEMMA LoopEndStep ==
  ASSUME IInv, NEW o \in Owners, LoopEnd(o)
  PROVE  IInv'
<1>1. /\ Types /\ loop[o].pc = "end" /\ ui' = [ui EXCEPT !.running = @ /\ Busy]
      /\ loop' = [loop EXCEPT ![o] = IdleLoop]
      /\ UNCHANGED <<gate, cmd, compact, calls, pending, open, hist>>
  BY DEF IInv, LoopEnd, At
<1>2. /\ DOMAIN loop' = Owners /\ loop'[o] = IdleLoop
      /\ \A p \in Owners \ {o} : loop'[p] = loop[p]
  BY <1>1 DEF Types
<1>3. /\ \A p \in Owners \ {o} : (Active(p)' <=> Active(p)) /\ \A pc : At(p, pc)' <=> At(p, pc)
      /\ ~Active(o) /\ ~Active(o)' /\ ~At(o, "stream") /\ ~At(o, "tools")
  BY <1>1, <1>2, IdleLoopOK DEF Active, At
<1>4. /\ ui' \in UiType /\ (ui'.running <=> ui.running /\ Busy) /\ (ui'.bubble <=> ui.bubble)
  <2>1. Busy \in BOOLEAN
    BY DEF Busy
  <2> QED
    BY <1>1, <2>1 DEF Types, UiType
<1>5. Types'
  BY <1>1, <1>2, <1>4, IdleLoopOK DEF Types, HistOK
<1>6. ASSUME ~hist.stolen PROVE Gated' /\ Screened' /\ Asked'
  <2>1. Gated /\ Screened /\ Asked
    BY <1>6 DEF IInv
  <2>2. Gated'
    <3>1. \A p \in Owners : (Active(p)' <=> Active(p)) /\ (Claims(p)' <=> Claims(p))
      BY <1>1, <1>3 DEF Claims
    <3> QED
      BY <1>1, <2>1, <3>1 DEF Gated
  <2>3. Screened'
    <3>1. \A p \in Owners : Active(p)' => Busy
      BY <1>3, <2>1, Facts DEF Gated, Busy
    <3>2. \A p \in Owners : Active(p)' /\ ~At(p, "begin")' => ui'.running
      BY <1>3, <1>4, <2>1, <3>1 DEF Screened
    <3>3. open /\ ui'.bubble => \E p \in Owners : At(p, "stream")'
      BY <1>3, <1>4, <2>1 DEF Screened
    <3>4. open /\ ui'.running => gate.claimed \/ \E p \in Owners : ~At(p, "off")'
      <4>1. SUFFICES ASSUME Busy, ~gate.claimed PROVE \E p \in Owners : ~At(p, "off")'
        BY <1>4
      <4>2. gate.handle \in Owners
        BY <1>1, <4>1 DEF Busy, Types, GateType
      <4>3. Active(gate.handle)
        BY <2>1, <4>2 DEF Gated
      <4>4. gate.handle # o /\ ~At(gate.handle, "off")
        BY <1>3, <4>3 DEF Active, At
      <4> QED
        BY <1>3, <4>2, <4>4
    <3> QED
      BY <1>1, <3>2, <3>3, <3>4 DEF Screened
  <2>4. Asked'
    BY <1>1, <1>2, <1>3, <2>1 DEF Asked, Awaited
  <2> QED
    BY <2>2, <2>3, <2>4
<1> QED
  BY <1>1, <1>5, <1>6 DEF IInv

-----------------------------------------------------------------------------
(* The commands. *)

(* A command moves without touching a claim. *)
LEMMA CommandMove ==
  ASSUME IInv, NEW o \in Owners, NEW st \in {"resolved", "summing", "again", "done", "queued"},
         cmd' = [cmd EXCEPT ![o] = st], cmd[o] \notin {"owner", "spawn"},
         UNCHANGED <<gate, loop, calls, pending, ui, open>>, compact'.on \in BOOLEAN,
         HistOK', hist'.stolen = hist.stolen
  PROVE  IInv'
<1>1. cmd' \in CmdType /\ \A p \in Owners : Claims(p)' <=> Claims(p)
  BY DEF IInv, Types, CmdType, Claims
<1>2. Types'
  BY <1>1 DEF IInv, Types
<1>3. Gated => Gated'
  BY <1>1 DEF Gated, Active
<1>4. (Screened => Screened') /\ (Asked => Asked')
  BY DEF Screened, Asked, Awaited, Active, At
<1> QED
  BY <1>2, <1>3, <1>4 DEF IInv

(* Nobody runs: the caller takes the claim. *)
LEMMA ClaimMove ==
  ASSUME IInv, NEW o \in Owners, cmd' = [cmd EXCEPT ![o] = "owner"], ~Busy,
         gate' = [gate EXCEPT !.claimed = TRUE], 
         UNCHANGED <<loop, compact, calls, pending, ui, open, hist>>
  PROVE  IInv'
<1>1. Types /\ gate.handle = "nobody" /\ ~gate.claimed
  BY DEF IInv, Busy
<1>2. /\ cmd' \in CmdType /\ Claims(o)' /\ \A p \in Owners \ {o} : Claims(p)' <=> Claims(p)
  BY <1>1 DEF Types, CmdType, Claims
<1>3. gate' \in GateType /\ gate'.handle = gate.handle /\ gate'.claimed
  BY <1>1 DEF Types, GateType
<1>4. Types'
  BY <1>1, <1>2, <1>3 DEF Types, HistOK
<1>5. Gated => Gated'
  <2> SUFFICES ASSUME Gated PROVE Gated'
    OBVIOUS
  <2>1. \A p \in Owners : ~Claims(p)
    BY <1>1 DEF Gated
  <2> QED
    BY <1>1, <1>2, <1>3, <2>1 DEF Gated, Active
<1>6. Screened => Screened'
  BY <1>3 DEF Screened, Active, At
<1>7. Asked => Asked'
  BY DEF Asked, Awaited, At
<1> QED
  BY <1>4, <1>5, <1>6, <1>7 DEF IInv

LEMMA SendStep ==
  ASSUME IInv, NEW s \in Owners, SendLookup(s) \/ SendFails(s) \/ SendPush(s)
  PROVE  IInv'
<1>1. Types /\ compact.on \in BOOLEAN /\ HistOK
  BY DEF IInv, Types
<1>2. UNCHANGED <<loop, compact, calls, pending, ui, open, hist>>
      /\ cmd[s] \notin {"owner", "spawn"}
  BY DEF SendLookup, SendFails, SendPush
<1>3. CASE SendLookup(s) \/ SendFails(s)
  <2>1. PICK st \in {"resolved", "done"} : cmd' = [cmd EXCEPT ![s] = st]
    BY <1>3 DEF SendLookup, SendFails
  <2>2. gate' = gate
    BY <1>3 DEF SendLookup, SendFails
  <2> QED
    BY <1>1, <1>2, <2>1, <2>2, CommandMove DEF HistOK
<1>4. CASE SendPush(s) /\ Claim
  <2>1. cmd' = [cmd EXCEPT ![s] = "owner"] /\ ~Busy
    BY <1>4 DEF SendPush, Claim
  <2>2. gate' = [gate EXCEPT !.claimed = TRUE]
    <3>1. gate' = [gate EXCEPT !.claimed = gate.claimed \/ Claim]
      BY <1>4 DEF SendPush
    <3>2. (gate.claimed \/ Claim) = TRUE
      BY <1>4
    <3> QED
      BY <3>1, <3>2
  <2> QED
    BY <1>2, <2>1, <2>2, ClaimMove
<1>5. CASE SendPush(s) /\ ~Claim
  <2>1. cmd' = [cmd EXCEPT ![s] = "queued"]
    BY <1>5 DEF SendPush
  <2>2. gate' = gate
    <3>1. gate' = [gate EXCEPT !.claimed = gate.claimed \/ Claim]
      BY <1>5 DEF SendPush
    <3>2. gate.claimed \in BOOLEAN /\ gate \in GateType
      BY <1>1 DEF Types, GateType
    <3>3. (gate.claimed \/ Claim) = gate.claimed
      BY <1>5, <3>2
    <3> QED
      BY <3>1, <3>2, <3>3 DEF GateType
  <2> QED
    BY <1>1, <1>2, <2>1, <2>2, CommandMove DEF HistOK
<1> QED
  BY <1>3, <1>4, <1>5

LEMMA SendLogStep ==
  ASSUME IInv, NEW o \in Owners, SendLog(o)
  PROVE  IInv'
<1>1. UNCHANGED <<gate, loop, compact, calls, pending, ui, open, hist>>
  BY DEF SendLog
<1>2. CASE cmd[o] = "queued"
  <2>1. cmd' = [cmd EXCEPT ![o] = "done"]
    BY <1>2 DEF SendLog, IInv, Types, CmdType
  <2> QED
    BY <1>1, <1>2, <2>1, CommandMove DEF IInv, Types, HistOK
<1>3. CASE cmd[o] = "owner"
  <2>1. cmd' = [cmd EXCEPT ![o] = "spawn"]
    BY <1>3 DEF SendLog, IInv, Types, CmdType
  <2>2. cmd' \in CmdType /\ \A p \in Owners : Claims(p)' <=> Claims(p)
    BY <1>3, <2>1 DEF IInv, Types, CmdType, Claims
  <2>3. Types'
    BY <1>1, <2>2 DEF IInv, Types, HistOK
  <2>4. Gated => Gated'
    BY <1>1, <2>2 DEF Gated, Active
  <2>5. (Screened => Screened') /\ (Asked => Asked')
    BY <1>1 DEF Screened, Asked, Awaited, Active, At
  <2> QED
    BY <1>1, <2>3, <2>4, <2>5 DEF IInv
<1> QED
  BY <1>2, <1>3 DEF SendLog

(* The claim becomes a loop, the only one. *)
LEMMA SpawnStep ==
  ASSUME IInv, NEW o \in Owners, SpawnTurnLoop(o)
  PROVE  IInv'
<1> DEFINE new == [IdleLoop EXCEPT !.pc = "begin"]
<1>1. /\ Types /\ cmd[o] = "spawn" /\ loop' = [loop EXCEPT ![o] = new]
      /\ gate' = [handle |-> o, claimed |-> FALSE] /\ cmd' = [cmd EXCEPT ![o] = "done"]
      /\ UNCHANGED <<compact, calls, pending, ui, open, hist>>
  BY DEF IInv, SpawnTurnLoop
<1>2. LoopOK(new) /\ new.pc = "begin"
  <2>1. /\ DOMAIN new = LoopFields /\ new.pc = "begin" /\ new.round = 0 /\ new.calls = <<>>
        /\ new.empty = 0 /\ new.transient = 0 /\ new.overflow = 0
    BY DEF IdleLoop, LoopFields
  <2> HIDE DEF new
  <2> QED
    BY <2>1, Facts, AgentAssumption DEF LoopOK, PCs
<1> HIDE DEF new
<1>3. /\ DOMAIN loop' = Owners /\ loop'[o] = new
      /\ \A p \in Owners \ {o} : loop'[p] = loop[p]
  BY <1>1 DEF Types
<1>4. /\ \A p \in Owners \ {o} : (Active(p)' <=> Active(p)) /\ \A pc : At(p, pc)' <=> At(p, pc)
      /\ Active(o)' /\ At(o, "begin")' /\ ~At(o, "off")'
  BY <1>2, <1>3 DEF Active, At
<1>5. cmd' \in CmdType /\ Claims(o) /\ ~Claims(o)' /\ \A p \in Owners \ {o} : Claims(p)' <=> Claims(p)
  BY <1>1 DEF Types, CmdType, Claims
<1>6. gate' \in GateType
  BY <1>1 DEF GateType
<1>7. Types'
  BY <1>1, <1>2, <1>3, <1>5, <1>6 DEF Types, HistOK
<1>8. ASSUME ~hist.stolen PROVE Gated' /\ Screened' /\ Asked'
  <2>1. Gated /\ Screened /\ Asked
    BY <1>8 DEF IInv
  <2>2. gate.claimed /\ gate.handle = "nobody" /\ \A p \in Owners : ~Active(p)
    BY <1>5, <2>1, Facts DEF Gated
  <2>3. Gated'
    BY <1>1, <1>4, <1>5, <2>1, <2>2 DEF Gated
  <2>4. Screened'
    <3>1. ~ui.bubble \/ ~open
      BY <2>1, <2>2 DEF Screened, Active, At
    <3> QED
      BY <1>1, <1>4, <2>1, <2>2, <3>1 DEF Screened
  <2>5. Asked'
    <3>1. \A c \in Calls : ~Awaited(c)
      BY <2>2 DEF Awaited, Active, At
    <3> QED
      BY <1>1, <2>1, <3>1 DEF Asked
  <2> QED
    BY <2>3, <2>4, <2>5
<1> QED
  BY <1>1, <1>7, <1>8 DEF IInv

LEMMA CompactCommandStep ==
  ASSUME IInv, CompactCommand \/ CompactCommandEnd \/ AutocontinueIfIdle
  PROVE  IInv'
<1>1. Types /\ HistOK /\ "auto" \in Owners
  BY Facts DEF IInv, Types
<1>2. CASE CompactCommand \/ CompactCommandEnd
  <2>1. PICK st \in {"summing", "again"} : cmd' = [cmd EXCEPT !["auto"] = st]
    BY <1>2 DEF CompactCommand, CompactCommandEnd
  <2>2. /\ cmd["auto"] \notin {"owner", "spawn"}
        /\ UNCHANGED <<gate, loop, calls, pending, ui, open>>
    BY <1>2 DEF CompactCommand, CompactCommandEnd
  <2>3. compact'.on \in BOOLEAN
    <3>1. compact' = compact \/ MarkInFlight \/ compact' = NoCompaction
      BY <1>2 DEF CompactCommand, CompactCommandEnd, FoldHead
    <3> QED
      BY <1>1, <3>1, CompactFacts
  <2>4. HistOK' /\ hist'.stolen = hist.stolen
    <3>1. \/ hist' = Raced(hist) \/ hist' = [hist EXCEPT !.folded = @ \/ Busy] \/ hist' = hist
      BY <1>2 DEF CompactCommand, CompactCommandEnd
    <3>2. CASE hist' = Raced(hist)
      BY <1>1, <3>2 DEF HistOK, HistNames, Raced
    <3>3. CASE hist' = [hist EXCEPT !.folded = @ \/ Busy]
      BY <1>1, <3>3 DEF HistOK, HistNames
    <3>4. CASE hist' = hist
      BY <1>1, <3>4 DEF HistOK
    <3> QED
      BY <3>1, <3>2, <3>3, <3>4
  <2> QED
    BY <1>1, <2>1, <2>2, <2>3, <2>4, CommandMove
<1>3. CASE AutocontinueIfIdle
  <2>1. UNCHANGED <<loop, compact, calls, pending, ui, open, hist>> /\ cmd["auto"] = "again"
    BY <1>3 DEF AutocontinueIfIdle
  <2>2. CASE ~Busy /\ msgs # <<>> /\ Last(msgs).role = "asst"
    BY <1>1, <1>3, <2>1, <2>2, ClaimMove DEF AutocontinueIfIdle
  <2>3. CASE ~(~Busy /\ msgs # <<>> /\ Last(msgs).role = "asst")
    <3>1. cmd' = [cmd EXCEPT !["auto"] = "done"] /\ gate' = gate
      BY <1>3, <2>3 DEF AutocontinueIfIdle
    <3> QED
      BY <1>1, <2>1, <3>1, CommandMove DEF Types, HistOK
  <2> QED
    BY <2>2, <2>3
<1> QED
  BY <1>2, <1>3

(* A tool call starts, is decided on or ends. *)
LEMMA ToolStep ==
  ASSUME IInv, NEW c \in Calls, ToolStart(c) \/ ApproveToolCall(c) \/ ToolEnd(c)
  PROVE  IInv'
<1>1. Types /\ UNCHANGED <<gate, cmd, loop, compact, ui, open, hist>>
  BY DEF IInv, ToolStart, ApproveToolCall, ToolEnd
<1>2. PICK st \in {"done", "run", "approval"} :
        /\ calls' = [calls EXCEPT ![c] = st]
        /\ st = "approval" => calls[c] = "ready" /\ pending' = pending \cup {c}
        /\ st # "approval" => c \notin pending' \/ calls[c] # "approval"
        /\ pending' \subseteq pending \cup {c}
        /\ st # "approval" => pending' \subseteq pending
  BY DEF ToolStart, ApproveToolCall, ToolEnd
<1>3. calls' \in CallsType /\ calls'[c] = st /\ \A d \in Calls \ {c} : calls'[d] = calls[d]
  BY <1>1, <1>2 DEF Types, CallsType
<1>4. Types'
  BY <1>1, <1>2, <1>3 DEF Types, HistOK
<1>5. (Gated => Gated') /\ (Screened => Screened')
  BY <1>1 DEF Gated, Claims, Active, Screened, At
<1>6. Asked => Asked'
  <2> SUFFICES ASSUME Asked PROVE Asked'
    OBVIOUS
  <2>1. \A d \in Calls : Awaited(d)' <=> Awaited(d)
    BY <1>1 DEF Awaited, At
  <2>2. ASSUME NEW d \in Calls, calls'[d] = "ready" \/ d \in pending' PROVE Awaited(d)
    BY <1>2, <1>3, <2>2 DEF Asked
  <2>3. ASSUME NEW d \in pending' PROVE calls'[d] = "approval"
    BY <1>1, <1>2, <1>3, <2>3 DEF Asked, Types
  <2> QED
    BY <2>1, <2>2, <2>3 DEF Asked
<1> QED
  BY <1>1, <1>4, <1>5, <1>6 DEF IInv

-----------------------------------------------------------------------------
(* The commands that race the turn. *)

(* TurnGate::abort: the loop behind the handle, which is the active one,   *)
(* is dropped, and its tools with it.                                      *)
LEMMA AbortFacts ==
  ASSUME IInv, loop' = Killed, calls' = CallsWithout(gate.handle), gate' = Released
  PROVE  /\ DOMAIN loop' = Owners /\ \A o \in Owners : LoopOK(loop'[o])
         /\ calls' \in CallsType /\ gate' \in GateType
         /\ ~hist.stolen => /\ \A o \in Owners : ~Active(o)'
                            /\ \A c \in Calls : calls'[c] # "ready"
<1>1. Types
  BY DEF IInv
<1>2. /\ DOMAIN loop' = Owners
      /\ \A o \in Owners : loop'[o] = IF o = gate.handle THEN IdleLoop ELSE loop[o]
  BY <1>1, Facts DEF Killed, Types
<1>3. \A o \in Owners : LoopOK(loop'[o])
  BY <1>1, <1>2, IdleLoopOK DEF Types
<1>4. calls' \in CallsType /\ gate' \in GateType
  BY <1>1 DEF Types, CallsType, CallsWithout, GateType, Released
<1>5. ASSUME ~hist.stolen, NEW o \in Owners PROVE ~Active(o)'
  <2>1. Active(o) => gate.handle = o
    BY <1>5 DEF IInv, Gated
  <2> QED
    BY <1>2, <2>1, IdleLoopOK DEF Active
<1>6. ASSUME ~hist.stolen, NEW c \in Calls PROVE calls'[c] # "ready"
  <2>1. calls'[c] = IF gate.handle # "nobody" /\ c \in ToSet(loop[gate.handle].calls)
                    THEN "dead" ELSE calls[c]
    BY DEF CallsWithout
  <2>2. SUFFICES ASSUME calls[c] = "ready"
                 PROVE  gate.handle # "nobody" /\ c \in ToSet(loop[gate.handle].calls)
    BY <2>1
  <2>3. PICK o \in Owners : At(o, "tools") /\ c \in ToSet(loop[o].calls)
    BY <1>6, <2>2 DEF IInv, Asked, Awaited
  <2>4. gate.handle = o
    BY <1>6, <2>3 DEF IInv, Gated, Active, At
  <2> QED
    BY <2>3, <2>4, Facts
<1> QED
  BY <1>2, <1>3, <1>4, <1>5, <1>6

LEMMA StealFacts ==
  ASSUME Types, hist' = Raced(Steal)
  PROVE  HistOK' /\ (~hist'.stolen => ~hist.stolen /\ ~gate.claimed)
<1> DEFINE g == GiveUp(Users(msgs))
           s == [g EXCEPT !.stolen = @ \/ gate.claimed]
<1>1. DOMAIN g = DOMAIN hist /\ g.stolen = hist.stolen /\ HistOK
  BY HistFacts DEF Types
<1> HIDE DEF g
<1>2. DOMAIN s = DOMAIN hist /\ s.stolen = (hist.stolen \/ gate.claimed)
  BY <1>1 DEF HistOK, HistNames
<1>3. hist' = [s EXCEPT !.races = @ + 1]
  BY DEF Raced, Steal, g
<1> HIDE DEF s
<1>4. DOMAIN hist' = DOMAIN hist /\ hist'.stolen = s.stolen
  BY <1>1, <1>2, <1>3 DEF HistOK, HistNames
<1>5. hist'.stolen = (hist.stolen \/ gate.claimed) /\ hist.stolen \in BOOLEAN
  BY <1>1, <1>2, <1>4 DEF HistOK
<1> QED
  BY <1>1, <1>4, <1>5 DEF HistOK

(* What is left when no loop is active and nobody holds a claim. *)
LEMMA AtRest ==
  ASSUME \A o \in Owners : ~Active(o)', \A o \in Owners : ~Claims(o)', gate' = Released,
         \A c \in Calls : calls'[c] # "ready", pending' = {},
         open' => ui' = [running |-> FALSE, bubble |-> FALSE]
  PROVE  Gated' /\ Screened' /\ Asked'
<1>1. Gated'
  BY Facts DEF Gated, Released
<1>2. Screened'
  BY DEF Screened
<1>3. Asked'
  BY DEF Asked
<1> QED
  BY <1>1, <1>2, <1>3

LEMMA CancelStep ==
  ASSUME IInv, CancelStreaming \/ ChatClose
  PROVE  IInv'
<1>1. /\ Types /\ loop' = Killed /\ calls' = CallsWithout(gate.handle) /\ gate' = Released
      /\ hist' = Raced(Steal) /\ UNCHANGED <<cmd, compact>>
  BY DEF IInv, CancelStreaming, ChatClose
<1>2. HistOK' /\ (~hist'.stolen => ~hist.stolen /\ ~gate.claimed)
  BY <1>1, StealFacts
<1>3. /\ DOMAIN loop' = Owners /\ \A o \in Owners : LoopOK(loop'[o])
      /\ calls' \in CallsType /\ gate' \in GateType
      /\ ~hist.stolen => /\ \A o \in Owners : ~Active(o)'
                         /\ \A c \in Calls : calls'[c] # "ready"
  BY <1>1, AbortFacts
<1>4. open' \in BOOLEAN /\ pending' \subseteq Calls /\ ui' \in UiType
  <2>1. [running |-> FALSE, bubble |-> FALSE] \in UiType
    BY DEF UiType
  <2>2. CASE CancelStreaming
    BY <1>1, <2>1, <2>2 DEF Types, CancelStreaming
  <2>3. CASE ChatClose
    BY <1>1, <2>3 DEF Types, ChatClose
  <2> QED
    BY <2>2, <2>3
<1>5. Types'
  BY <1>1, <1>2, <1>3, <1>4 DEF Types
<1>6. ASSUME ~hist'.stolen PROVE Gated' /\ Screened' /\ Asked'
  <2>1. ~hist.stolen /\ ~gate.claimed /\ Gated
    BY <1>2, <1>6 DEF IInv
  <2>2. \A o \in Owners : ~Claims(o)'
    BY <1>1, <2>1 DEF Gated, Claims
  <2>3. pending' = {} /\ (open' => ui' = [running |-> FALSE, bubble |-> FALSE])
    BY <2>1 DEF CancelStreaming, ChatClose, Busy
  <2> QED
    BY <1>1, <1>3, <2>1, <2>2, <2>3, AtRest
<1> QED
  BY <1>5, <1>6 DEF IInv

LEMMA CrashStep == IInv /\ Crash => IInv'
<1> SUFFICES ASSUME IInv, Crash PROVE IInv'
  OBVIOUS
<1>1. /\ Types /\ open' = FALSE /\ gate' = Released /\ loop' = [o \in Owners |-> IdleLoop]
      /\ cmd' = [o \in Owners |-> IF cmd[o] = "new" THEN "new" ELSE "done"]
      /\ calls' = [c \in Calls |-> IF calls[c] = "free" THEN "free" ELSE "dead"]
      /\ pending' = {} /\ compact' = compact /\ ui' = [running |-> FALSE, bubble |-> FALSE]
      /\ hist' = Raced(GiveUp(Users(msgs)))
  BY DEF IInv, Crash, Forgotten
<1>2. HistOK' /\ hist'.stolen = hist.stolen
  <2> DEFINE g == GiveUp(Users(msgs))
  <2>1. DOMAIN g = DOMAIN hist /\ g.stolen = hist.stolen /\ HistOK
    BY <1>1, HistFacts DEF Types
  <2>2. hist' = [g EXCEPT !.races = @ + 1]
    BY <1>1 DEF Raced
  <2> HIDE DEF g
  <2> QED
    BY <2>1, <2>2 DEF HistOK, HistNames
<1>3. \A o \in Owners : LoopOK(loop'[o]) /\ ~Active(o)' /\ ~Claims(o)'
  BY <1>1, IdleLoopOK DEF Active, Claims
<1>4. cmd' \in CmdType /\ calls' \in CallsType /\ gate' \in GateType /\ ui' \in UiType
      /\ \A c \in Calls : calls'[c] # "ready"
  BY <1>1 DEF CmdType, CallsType, GateType, Released, UiType
<1>5. Types'
  BY <1>1, <1>2, <1>3, <1>4 DEF Types
<1>6. Gated' /\ Screened' /\ Asked'
  BY <1>1, <1>3, <1>4, AtRest
<1> QED
  BY <1>5, <1>6 DEF IInv

(* A new runtime: what still runs on the old one is a stray, which holds   *)
(* no claim on this one and is none of its loops.                          *)
LEMMA ChatOpenStep == IInv /\ ChatOpen => IInv'
<1> SUFFICES ASSUME IInv, ChatOpen PROVE IInv'
  OBVIOUS
<1>1. /\ Types /\ open' = TRUE /\ compact' = NoCompaction /\ gate' = Released
      /\ loop' = [o \in Owners |-> IdleLoop]
      /\ cmd' = [o \in Owners |-> IF Leftover(o) THEN "stray" ELSE cmd[o]]
      /\ calls' = [c \in Calls |-> IF calls[c] = "free" THEN "free" ELSE "dead"]
      /\ pending' = {} /\ ui' = [running |-> FALSE, bubble |-> FALSE]
      /\ hist' = [GiveUp(Users(Reloaded(log))) EXCEPT
                    !.strayed = @ \/ \E o \in Owners : Leftover(o)]
  BY DEF IInv, ChatOpen, Forgotten
<1>2. HistOK' /\ hist'.stolen = hist.stolen
  <2> DEFINE g == GiveUp(Users(Reloaded(log)))
             left == \E o \in Owners : Leftover(o)
  <2>1. DOMAIN g = DOMAIN hist /\ g.stolen = hist.stolen /\ HistOK
    BY <1>1, HistFacts DEF Types
  <2>2. hist' = [g EXCEPT !.strayed = g.strayed \/ left]
    BY <1>1
  <2> HIDE DEF g, left
  <2> QED
    BY <2>1, <2>2 DEF HistOK, HistNames
<1>3. compact'.on \in BOOLEAN /\ gate' \in GateType /\ ui' \in UiType
  BY <1>1 DEF NoCompaction, GateType, Released, UiType
<1>4. \A o \in Owners : LoopOK(loop'[o]) /\ ~Active(o)' /\ ~Claims(o)'
  BY <1>1, IdleLoopOK DEF Active, Claims, Leftover
<1>5. cmd' \in CmdType /\ calls' \in CallsType /\ \A c \in Calls : calls'[c] # "ready"
  BY <1>1 DEF Types, CmdType, CallsType
<1>6. Types'
  BY <1>1, <1>2, <1>3, <1>4, <1>5 DEF Types
<1>7. Gated' /\ Screened' /\ Asked'
  BY <1>1, <1>4, <1>5, AtRest
<1> QED
  BY <1>6, <1>7 DEF IInv

LEMMA StrayStep ==
  ASSUME IInv, NEW o \in Owners, Stray(o)
  PROVE  IInv'
<1>1. /\ cmd[o] = "stray" /\ cmd' = [cmd EXCEPT ![o] = "done"]
      /\ UNCHANGED <<gate, loop, compact, calls, pending, ui, open, hist>>
  BY DEF Stray
<1> QED
  BY <1>1, CommandMove DEF IInv, Types, HistOK

LEMMA NextIInv == IInv /\ [Next]_vars => IInv'
<1> SUFFICES ASSUME IInv, [Next]_vars PROVE IInv'
  OBVIOUS
<1>1. Types
  BY DEF IInv
<1>2. ASSUME NEW o \in Owners, LoopStep(o) PROVE IInv'
  <2>1. CASE LoopEnd(o)
    BY <2>1, LoopEndStep
  <2>2. CASE ~LoopEnd(o)
    <3>1. Stepped(o)
      BY <1>1, <1>2, <2>2, LoopBeginFacts, TurnOverFacts, GoOnFacts, RoundTopFacts,
         SnapshotFacts, FailedAttemptFacts, ToolRequestFacts, FinalFacts,
         ToolsFacts DEF LoopStep
    <3> QED
      BY <3>1, SteppedStep
  <2> QED
    BY <2>1, <2>2
<1>3. ASSUME NEW o \in Owners, CommandStep(o) PROVE IInv'
  BY <1>3, SendStep, SendLogStep, SpawnStep, StrayStep DEF CommandStep
<1>4. ASSUME NEW s \in Sends, SendLookup(s) PROVE IInv'
  BY <1>4, SendStep DEF Owners
<1>5. CASE UNCHANGED vars
  BY <1>5 DEF vars, IInv, Types, HistOK, Gated, Claims, Screened, Asked, Awaited, Active, At
<1> QED
  BY <1>2, <1>3, <1>4, <1>5, CompactCommandStep, ToolStep, CancelStep, CrashStep, ChatOpenStep
     DEF Next

LEMMA Invariance == Spec => []IInv
  BY InitIInv, NextIInv, PTL DEF Spec

-----------------------------------------------------------------------------
(* The turn gate keeps two loops off one transcript, however sends,        *)
(* compactions, closings and crashes interleave, as long as no cancel has  *)
(* taken a claim away (TurnGate::claim, spawn_turn_loop).                  *)
THEOREM SingleLoop == Spec => []OneLoopWhileClaimsHold
<1>1. IInv => OneLoopWhileClaimsHold
  BY DEF IInv, Gated, OneLoopWhileClaimsHold
<1> QED
  BY <1>1, Invariance, PTL

(* The panel of an open chat tracks the loops of its own runtime: the      *)
(* counters stay within their budgets, a running loop can be stopped, and  *)
(* a chat at rest shows no running turn, no open bubble and no approval    *)
(* card (run_turn_loop's closing report, chat_cancel_streaming).  Except   *)
(* after a cancel hit a claim; a closed chat's panel and a stray loop on a *)
(* closed runtime are not covered.                                         *)
THEOREM PanelIsTrue == Spec => []PanelTracksLoop
<1>1. IInv => PanelTracksLoop
  <2> SUFFICES ASSUME IInv PROVE PanelTracksLoop
    OBVIOUS
  <2>1. TypeOK
    BY TypesIsTypeOK DEF IInv
  <2>2. StopAvailable
    BY DEF IInv, StopAvailable, Gated, Screened
  <2>3. RestIsShown
    <3> SUFFICES ASSUME open, Quiet, ~hist.stolen
                 PROVE  ~ui.running /\ ~ui.bubble /\ pending = {}
      BY DEF RestIsShown
    <3>1. Types /\ Gated /\ Screened /\ Asked
      BY DEF IInv
    <3>2. \A o \in Owners : At(o, "off") /\ ~Claims(o)
      BY DEF Quiet, LoopQuiet, At, Claims
    <3>3. ~gate.claimed
      BY <3>1, <3>2 DEF Gated
    <3>4. ~ui.running /\ ~ui.bubble
      BY <3>1, <3>2, <3>3 DEF Screened, At
    <3>5. pending = {}
      BY <3>1, <3>2 DEF Asked, Awaited, At, Types
    <3> QED
      BY <3>4, <3>5
  <2> QED
    BY <2>1, <2>2, <2>3 DEF PanelTracksLoop
<1> QED
  BY <1>1, Invariance, PTL

-----------------------------------------------------------------------------
(* Sequences: concatenation, membership, and what Picked keeps.             *)
LEMMA LeastNatural ==
  ASSUME NEW T \in SUBSET Nat, T # {}
  PROVE  \E n \in T : \A m \in T : n <= m
<1>1. PICK n \in T : \A m \in T : ~(<<m, n>> \in OpToRel(<, Nat))
  BY NatLessThanWellFounded, WFMin
<1>2. \A m \in T : ~(m < n)
  BY <1>1 DEF OpToRel
<1> QED
  BY <1>2

\* F is the running concatenation of ss.
Running(ss, F) == F[1] = ss[1] /\ \A i \in 2..Len(ss) : F[i] = F[i - 1] \o ss[i]

LEMMA RunningExists ==
  ASSUME NEW S, NEW ss \in Seq(Seq(S)), ss # <<>>
  PROVE  \E F \in [1..Len(ss) -> Seq(S)] : Running(ss, F)
<1> DEFINE N == Len(ss)
           Ok(n, F) == F[1] = ss[1] /\ \A i \in 2..n : F[i] = F[i - 1] \o ss[i]
           Has(n) == \E F \in [1..n -> Seq(S)] : Ok(n, F)
           T == {n \in 1..N : ~Has(n)}
<1>1. N \in Nat /\ N >= 1 /\ \A i \in 1..N : ss[i] \in Seq(S)
  OBVIOUS
<1>2. SUFFICES ASSUME ~Has(N) PROVE FALSE
  BY DEF Running
<1>a. T # {}
  <2> HIDE DEF Has
  <2>1. N \in 1..N
    BY <1>1
  <2> QED
    BY <1>2, <2>1
<1>0. T \in SUBSET Nat
  <2> HIDE DEF Has
  <2> QED
    BY <1>1
<1>3. PICK n \in T : \A m \in T : n <= m
  <2> HIDE DEF T
  <2> QED
    BY <1>0, <1>a, LeastNatural
<1>4. n \in 1..N
  OBVIOUS
<1>5. CASE n = 1
  <2> DEFINE F == [i \in 1..1 |-> ss[1]]
  <2>1. F \in [1..1 -> Seq(S)]
    BY <1>1
  <2>2. Ok(1, F)
    OBVIOUS
  <2> QED
    <3>1. \E H \in [1..n -> Seq(S)] : Ok(n, H)
      BY <1>5, <2>1, <2>2
    <3> QED
      BY <3>1
<1>6. CASE n > 1
  <2>0. n - 1 \in 1..N /\ ~(n <= n - 1)
    BY <1>1, <1>4, <1>6
  <2>1. n - 1 \in 1..N /\ n - 1 \notin T
    <3> HIDE DEF T
    <3> QED
      BY <1>3, <2>0
  <2>2. PICK G \in [1..(n - 1) -> Seq(S)] : Ok(n - 1, G)
    BY <2>1
  <2> DEFINE F == [i \in 1..n |-> IF i = n THEN G[n - 1] \o ss[n] ELSE G[i]]
  <2>3. G[n - 1] \o ss[n] \in Seq(S)
    BY <1>1, <1>4, <1>6, <2>1
  <2>4. \A i \in 1..n : i # n => G[i] \in Seq(S)
    BY <1>1, <1>4
  <2>5. F \in [1..n -> Seq(S)]
    BY <2>3, <2>4
  <2>6. F[1] = ss[1]
    <3>1. 1 \in 1..n /\ 1 # n
      BY <1>4, <1>6
    <3> QED
      BY <2>2, <3>1
  <2>7. ASSUME NEW i \in 2..n PROVE F[i] = F[i - 1] \o ss[i]
    <3>1. i \in 1..n /\ i - 1 \in 1..n /\ i - 1 # n
      BY <1>1, <1>4
    <3>2. CASE i = n
      BY <3>1, <3>2
    <3>3. CASE i # n
      <4>1. i \in 2..(n - 1)
        BY <1>1, <1>4, <3>3
      <4> QED
        BY <2>2, <3>1, <3>3, <4>1
    <3> QED
      BY <3>2, <3>3
  <2>8. Ok(n, F)
    BY <2>6, <2>7
  <2> HIDE DEF F
  <2>9. \E H \in [1..n -> Seq(S)] : Ok(n, H)
    BY <2>5, <2>8
  <2> QED
    BY <2>9
<1> QED
  BY <1>1, <1>4, <1>5, <1>6

LEMMA FlattenRuns ==
  ASSUME NEW S, NEW ss \in Seq(Seq(S)), ss # <<>>, NEW F \in [1..Len(ss) -> Seq(S)], Running(ss, F)
  PROVE  FlattenSeq(ss) = F[Len(ss)]
<1> DEFINE N == Len(ss)
           f == CHOOSE g : g = [i \in 1..N |-> IF i = 1 THEN ss[i] ELSE g[i - 1] \o ss[i]]
<1>1. N \in Nat /\ N >= 1 /\ \A i \in 1..N : ss[i] \in Seq(S)
  OBVIOUS
<1>2. FlattenSeq(ss) = f[N]
  BY <1>1 DEF FlattenSeq
<1>3. F = [i \in 1..N |-> IF i = 1 THEN ss[i] ELSE F[i - 1] \o ss[i]]
  <2>1. \A i \in 1..N : i # 1 => i \in 2..N
    BY <1>1
  <2> QED
    BY <1>1, <2>1 DEF Running
<1>4. f = [i \in 1..N |-> IF i = 1 THEN ss[i] ELSE f[i - 1] \o ss[i]]
  BY <1>3
<1> HIDE DEF f
<1> DEFINE T == {i \in 1..N : f[i] # F[i]}
<1>5. T = {}
  <2> SUFFICES ASSUME T # {} PROVE FALSE
    OBVIOUS
  <2>0. T \in SUBSET Nat /\ T # {}
    BY <1>1
  <2>1. PICK n \in T : \A m \in T : n <= m
    <3> HIDE DEF T
    <3> QED
      BY <2>0, LeastNatural
  <2>2. n \in 1..N /\ f[n] # F[n]
    OBVIOUS
  <2>3. n # 1
    BY <1>1, <1>4, <2>2 DEF Running
  <2>4. n - 1 \in 1..N /\ n - 1 \notin T /\ n \in 2..N
    BY <1>1, <2>1, <2>2, <2>3
  <2>5. f[n - 1] = F[n - 1]
    BY <2>4
  <2>6. f[n] = f[n - 1] \o ss[n]
    BY <1>4, <2>2, <2>3
  <2> QED
    BY <2>2, <2>4, <2>5, <2>6 DEF Running
<1>6. N \in 1..N
  BY <1>1
<1>7. f[N] = F[N]
  BY <1>5, <1>6
<1> QED
  BY <1>2, <1>7

(* Induction over an interval, for a set of indices. *)
LEMMA IntervalInduction ==
  ASSUME NEW N \in Nat, NEW G, 0 \in G, \A k \in 1..N : k - 1 \in G => k \in G
  PROVE  \A k \in 0..N : k \in G
<1> DEFINE T == {k \in 0..N : k \notin G}
<1> SUFFICES ASSUME T # {} PROVE FALSE
  OBVIOUS
<1>1. T \in SUBSET Nat
  OBVIOUS
<1>2. PICK n \in T : \A m \in T : n <= m
  <2> HIDE DEF T
  <2> QED
    BY <1>1, LeastNatural
<1>3. n \in 1..N
  OBVIOUS
<1>4. n - 1 \in 0..N /\ n - 1 \notin T
  BY <1>2, <1>3
<1> QED
  BY <1>3, <1>4

(* F is how far the concatenation of ss has come. *)
Concatenates(ss, F) ==
  /\ F[0] = <<>> /\ F[Len(ss)] = FlattenSeq(ss)
  /\ \A k \in 1..Len(ss) : F[k] = F[k - 1] \o ss[k]

LEMMA FlattenSteps ==
  ASSUME NEW S, NEW ss \in Seq(Seq(S))
  PROVE  \E F \in [0..Len(ss) -> Seq(S)] : Concatenates(ss, F)
<1> DEFINE N == Len(ss)
<1>1. N \in Nat /\ \A i \in 1..N : ss[i] \in Seq(S)
  OBVIOUS
<1>2. CASE N = 0
  <2> DEFINE F == [k \in 0..N |-> <<>>]
  <2>1. F \in [0..N -> Seq(S)] /\ F[0] = <<>> /\ F[N] = <<>>
    BY <1>2
  <2>2. FlattenSeq(ss) = <<>>
    BY <1>2 DEF FlattenSeq
  <2> HIDE DEF F
  <2> QED
    BY <1>2, <2>1, <2>2 DEF Concatenates
<1>3. CASE N # 0
  <2>1. ss # <<>>
    BY <1>3
  <2>2. PICK G \in [1..N -> Seq(S)] : Running(ss, G)
    BY <2>1, RunningExists
  <2>3. FlattenSeq(ss) = G[N]
    BY <2>1, <2>2, FlattenRuns
  <2> DEFINE F == [k \in 0..N |-> IF k = 0 THEN <<>> ELSE G[k]]
  <2>4. \A k \in 0..N : k # 0 => G[k] \in Seq(S)
    <3>1. \A k \in 0..N : k # 0 => k \in 1..N
      BY <1>1
    <3> QED
      BY <2>2, <3>1
  <2>5. F \in [0..N -> Seq(S)] /\ F[0] = <<>> /\ F[N] = G[N]
    BY <1>1, <1>3, <2>4
  <2>6. ASSUME NEW k \in 1..N PROVE F[k] = F[k - 1] \o ss[k]
    <3>1. k \in 0..N /\ k - 1 \in 0..N /\ F[k] = G[k]
      BY <1>1
    <3>2. CASE k = 1
      <4>1. F[0] \o ss[1] = ss[1]
        BY <1>1, <1>3, <2>5
      <4> QED
        BY <2>2, <3>1, <3>2, <4>1 DEF Running
    <3>3. CASE k # 1
      <4>1. k \in 2..N /\ F[k - 1] = G[k - 1]
        BY <1>1, <3>1, <3>3
      <4> QED
        BY <2>2, <3>1, <4>1 DEF Running
    <3> QED
      BY <3>2, <3>3
  <2> HIDE DEF F
  <2> QED
    BY <2>3, <2>5, <2>6 DEF Concatenates
<1> QED
  BY <1>2, <1>3

(* The same, for functions on an interval. *)
LEMMA StepsIn ==
  ASSUME NEW S, NEW N \in Nat, NEW g \in [1..N -> Seq(S)], NEW F \in [0..N -> Seq(S)],
         F[0] = <<>>, \A k \in 1..N : F[k] = F[k - 1] \o g[k],
         NEW G, <<>> \in G, \A s, t \in G : s \o t \in G, \A k \in 1..N : g[k] \in G
  PROVE  F[N] \in G
<1> DEFINE K == {k \in 0..N : F[k] \in G}
<1>1. 0 \in K
  OBVIOUS
<1>2. ASSUME NEW k \in 1..N, k - 1 \in K PROVE k \in K
  <2>1. F[k - 1] \in G
    BY <1>2
  <2>2. g[k] \in G /\ F[k] = F[k - 1] \o g[k]
    BY Zenon
  <2>4. k \in 0..N
    OBVIOUS
  <2>3. F[k - 1] \o g[k] \in G
    BY <2>1, <2>2
  <2> QED
    BY <2>2, <2>3, <2>4
<1>3. N \in K
  <2> HIDE DEF K
  <2>1. \A k \in 0..N : k \in K
    BY <1>1, <1>2, IntervalInduction
  <2> QED
    BY <2>1
<1> QED
  BY <1>3

LEMMA ConcatNone ==
  ASSUME NEW S, NEW a \in Seq(S)
  PROVE  a \o <<>> = a /\ <<>> \o a = a
  OBVIOUS

(* t is a part of s. *)
Within(t, s, S) == \E a, b \in Seq(S) : s = (a \o t) \o b

LEMMA StepsSplit ==
  ASSUME NEW S, NEW N \in Nat, NEW g \in [1..N -> Seq(S)], NEW F \in [0..N -> Seq(S)],
         \A k \in 1..N : F[k] = F[k - 1] \o g[k], NEW i \in 1..N
  PROVE  Within(g[i], F[N], S)
<1>1. i - 1 \in 0..N /\ i \in 0..N
  OBVIOUS
<1>2. F[i - 1] \in Seq(S) /\ F[i] = F[i - 1] \o g[i] /\ F[i] \in Seq(S)
  BY <1>1
<1> DEFINE Goes(k) == \E b \in Seq(S) : F[k] = F[i] \o b
           K == {k \in 0..N : k >= i => Goes(k)}
<1>3. 0 \in K
  OBVIOUS
<1>4. ASSUME NEW k \in 1..N, k - 1 \in K PROVE k \in K
  <2>1. ASSUME k >= i PROVE Goes(k)
    <3>1. CASE k = i
      <4>1. F[i] = F[i] \o <<>> /\ <<>> \in Seq(S)
        BY <1>2, ConcatNone
      <4> QED
        BY <3>1, <4>1
    <3>2. CASE k # i
      <4>1. k - 1 >= i
        BY <2>1, <3>2
      <4>2. Goes(k - 1)
        <5> HIDE DEF Goes
        <5> QED
          BY <1>4, <4>1
      <4>3. PICK b \in Seq(S) : F[k - 1] = F[i] \o b
        BY <4>2
      <4>4. g[k] \in Seq(S) /\ F[k] = F[k - 1] \o g[k]
        BY Zenon
      <4>b. (F[i] \o b) \o g[k] = F[i] \o (b \o g[k])
        <5> DEFINE u == F[i]
                   w == g[k]
        <5>1. u \in Seq(S) /\ w \in Seq(S)
          BY <1>2, <4>4, Zenon
        <5> HIDE DEF u, w
        <5>2. (u \o b) \o w = u \o (b \o w)
          BY <5>1, SMTT(30)
        <5> QED
          BY <5>2 DEF u, w
      <4>5. F[k] = F[i] \o (b \o g[k])
        BY <4>3, <4>4, <4>b
      <4>6. b \o g[k] \in Seq(S)
        BY <4>4
      <4> QED
        BY <4>5, <4>6
    <3> QED
      BY <3>1, <3>2
  <2> HIDE DEF Goes
  <2> QED
    BY <2>1
<1>5. N \in K
  <2> HIDE DEF K
  <2>1. \A k \in 0..N : k \in K
    BY <1>3, <1>4, IntervalInduction
  <2> QED
    BY <2>1
<1>6. Goes(N)
  <2> HIDE DEF Goes
  <2> QED
    BY <1>5
<1>7. PICK b \in Seq(S) : F[N] = F[i] \o b
  BY <1>6
<1>8. F[N] = (F[i - 1] \o g[i]) \o b
  BY <1>2, <1>7
<1> QED
  BY <1>2, <1>8 DEF Within

(* What is closed under concatenation holds of the whole, and each part is *)
(* somewhere in it.                                                        *)
LEMMA FlattenIn ==
  ASSUME NEW S, NEW ss \in Seq(Seq(S)), NEW G, <<>> \in G, \A s, t \in G : s \o t \in G,
         \A k \in 1..Len(ss) : ss[k] \in G
  PROVE  FlattenSeq(ss) \in G
<1>1. PICK F \in [0..Len(ss) -> Seq(S)] : Concatenates(ss, F)
  BY FlattenSteps
<1>2. Len(ss) \in Nat /\ ss \in [1..Len(ss) -> Seq(S)]
  OBVIOUS
<1>3. F[Len(ss)] \in G
  BY <1>1, <1>2, StepsIn DEF Concatenates
<1> QED
  BY <1>1, <1>3 DEF Concatenates

LEMMA FlattenSplit ==
  ASSUME NEW S, NEW ss \in Seq(Seq(S)), NEW i \in 1..Len(ss)
  PROVE  \E a, b \in Seq(S) : FlattenSeq(ss) = (a \o ss[i]) \o b
<1>1. PICK F \in [0..Len(ss) -> Seq(S)] : Concatenates(ss, F)
  BY FlattenSteps
<1>2. Len(ss) \in Nat /\ ss \in [1..Len(ss) -> Seq(S)]
  OBVIOUS
<1>a. \A k \in 1..Len(ss) : F[k] = F[k - 1] \o ss[k]
  BY <1>1 DEF Concatenates
<1>3. Within(ss[i], F[Len(ss)], S)
  BY <1>2, <1>a, StepsSplit
<1> QED
  BY <1>1, <1>3 DEF Concatenates, Within

(* Membership in a sequence and in a concatenation. *)
LEMMA InSeq ==
  ASSUME NEW S, NEW s \in Seq(S)
  PROVE  /\ ToSet(s) \subseteq S
         /\ \A x : x \in ToSet(s) <=> \E k \in 1..Len(s) : s[k] = x
  BY DEF ToSet

LEMMA InConcat ==
  ASSUME NEW S, NEW s \in Seq(S), NEW t \in Seq(S)
  PROVE  ToSet(s \o t) = ToSet(s) \cup ToSet(t)
<1>1. s \o t \in Seq(S) /\ Len(s \o t) = Len(s) + Len(t)
  OBVIOUS
<1>2. ASSUME NEW x \in ToSet(s \o t) PROVE x \in ToSet(s) \cup ToSet(t)
  <2>1. PICK k \in 1..Len(s \o t) : (s \o t)[k] = x
    BY <1>1, InSeq
  <2>2. CASE k <= Len(s)
    <3>1. k \in 1..Len(s) /\ s[k] = x
      BY <1>1, <2>1, <2>2
    <3> QED
      BY <3>1, InSeq
  <2>3. CASE k > Len(s)
    <3>1. k - Len(s) \in 1..Len(t) /\ t[k - Len(s)] = x
      BY <1>1, <2>1, <2>3
    <3> QED
      BY <3>1, InSeq
  <2> QED
    BY <1>1, <2>2, <2>3
<1>3. ASSUME NEW x \in ToSet(s) PROVE x \in ToSet(s \o t)
  <2>1. PICK k \in 1..Len(s) : s[k] = x
    BY InSeq
  <2>2. k \in 1..Len(s \o t) /\ (s \o t)[k] = x
    BY <1>1, <2>1
  <2> QED
    BY <1>1, <2>2, InSeq
<1>4. ASSUME NEW x \in ToSet(t) PROVE x \in ToSet(s \o t)
  <2>1. PICK k \in 1..Len(t) : t[k] = x
    BY InSeq
  <2>2. Len(s) + k \in 1..Len(s \o t) /\ (s \o t)[Len(s) + k] = x
    BY <1>1, <2>1
  <2> QED
    BY <1>1, <2>2, InSeq
<1> QED
  BY <1>2, <1>3, <1>4

LEMMA InAppend ==
  ASSUME NEW S, NEW s \in Seq(S), NEW x \in S
  PROVE  /\ Append(s, x) \in Seq(S) /\ ToSet(Append(s, x)) = ToSet(s) \cup {x}
         /\ Append(s, x) = s \o <<x>>
<1> DEFINE y == <<x>>
<1>1. Append(s, x) = s \o y /\ y \in Seq(S) /\ Append(s, x) \in Seq(S)
  OBVIOUS
<1>2. ToSet(y) = {x}
  BY DEF ToSet
<1> HIDE DEF y
<1>3. ToSet(s \o y) = ToSet(s) \cup ToSet(y)
  BY <1>1, InConcat
<1> QED
  BY <1>1, <1>2, <1>3 DEF y

LEMMA InCons ==
  ASSUME NEW S, NEW x \in S, NEW s \in Seq(S)
  PROVE  <<x>> \o s \in Seq(S) /\ ToSet(<<x>> \o s) = {x} \cup ToSet(s)
<1> DEFINE y == <<x>>
<1>1. y \in Seq(S) /\ y \o s \in Seq(S) /\ ToSet(y) = {x}
  BY DEF ToSet
<1> HIDE DEF y
<1>2. ToSet(y \o s) = ToSet(y) \cup ToSet(s)
  BY <1>1, InConcat
<1> QED
  BY <1>1, <1>2 DEF y

LEMMA FlattenElements ==
  ASSUME NEW S, NEW ss \in Seq(Seq(S))
  PROVE  /\ FlattenSeq(ss) \in Seq(S)
         /\ \A x : x \in ToSet(FlattenSeq(ss)) <=> \E i \in 1..Len(ss) : x \in ToSet(ss[i])
<1> DEFINE fl == FlattenSeq(ss)
           U == {x \in S : \E i \in 1..Len(ss) : x \in ToSet(ss[i])}
           G == {s \in Seq(S) : ToSet(s) \subseteq U}
<1>0. \A i \in 1..Len(ss) : ss[i] \in Seq(S)
  OBVIOUS
<1>1. <<>> \in G
  BY DEF ToSet
<1>2. ASSUME NEW s \in G, NEW t \in G PROVE s \o t \in G
  <2> HIDE DEF U
  <2>1. s \in Seq(S) /\ t \in Seq(S) /\ s \o t \in Seq(S)
    OBVIOUS
  <2> QED
    BY <2>1, InConcat
<1>3. ASSUME NEW i \in 1..Len(ss) PROVE ss[i] \in G
  <2>1. ToSet(ss[i]) \subseteq S
    BY <1>0, InSeq
  <2> QED
    BY <1>0, <2>1
<1>4. fl \in G
  <2> HIDE DEF G
  <2> QED
    BY <1>1, <1>2, <1>3, FlattenIn
<1>5. fl \in Seq(S) /\ ToSet(fl) \subseteq U
  <2> HIDE DEF U, fl
  <2> QED
    BY <1>4
<1>6. ASSUME NEW i \in 1..Len(ss), NEW x \in ToSet(ss[i]) PROVE x \in ToSet(fl)
  <2>1. PICK a, b \in Seq(S) : fl = (a \o ss[i]) \o b
    BY FlattenSplit
  <2> HIDE DEF fl
  <2> DEFINE p == a \o ss[i]
  <2>2. ss[i] \in Seq(S) /\ p \in Seq(S)
    BY <1>0
  <2>3. ToSet(p) = ToSet(a) \cup ToSet(ss[i])
    BY <2>2, InConcat
  <2> HIDE DEF p
  <2>4. ToSet(p \o b) = ToSet(p) \cup ToSet(b)
    BY <2>2, InConcat
  <2> QED
    BY <2>1, <2>3, <2>4 DEF p
<1>7. \A x \in ToSet(fl) : \E i \in 1..Len(ss) : x \in ToSet(ss[i])
  <2> HIDE DEF fl
  <2> QED
    BY <1>5
<1> QED
  BY <1>5, <1>6, <1>7, Zenon

(* What Picked keeps. *)
LEMMA PickedParts ==
  ASSUME NEW S, NEW s \in Seq(S), NEW P, NEW ss,
         ss = [k \in DOMAIN s |-> IF s[k] \in P THEN <<s[k]>> ELSE <<>>]
  PROVE  /\ ss \in Seq(Seq(S)) /\ Len(ss) = Len(s)
         /\ \A k \in 1..Len(s) : /\ s[k] \in P => ss[k] = <<s[k]>>
                                 /\ s[k] \notin P => ss[k] = <<>>
<1>1. DOMAIN s = 1..Len(s) /\ Len(s) \in Nat /\ \A k \in 1..Len(s) : s[k] \in S
  OBVIOUS
<1>2. \A k \in 1..Len(s) : <<s[k]>> \in Seq(S) /\ <<>> \in Seq(S)
  BY <1>1
<1>3. ss \in [1..Len(s) -> Seq(S)]
  BY <1>1, <1>2
<1>4. ss \in Seq(Seq(S)) /\ Len(ss) = Len(s)
  BY <1>1, <1>3
<1> QED
  BY <1>1, <1>4

LEMMA PickedFacts ==
  ASSUME NEW S, NEW s \in Seq(S), NEW P
  PROVE  Picked(s, P) \in Seq(S) /\ ToSet(Picked(s, P)) = ToSet(s) \cap P
<1> DEFINE ss == [k \in DOMAIN s |-> IF s[k] \in P THEN <<s[k]>> ELSE <<>>]
<1>1. /\ ss \in Seq(Seq(S)) /\ Len(ss) = Len(s)
      /\ \A k \in 1..Len(s) : /\ s[k] \in P => ss[k] = <<s[k]>>
                              /\ s[k] \notin P => ss[k] = <<>>
  <2> HIDE DEF ss
  <2> QED
    BY PickedParts DEF ss
<1>2. Picked(s, P) = FlattenSeq(ss)
  BY DEF Picked
<1> HIDE DEF ss
<1>3. /\ FlattenSeq(ss) \in Seq(S)
      /\ \A x : x \in ToSet(FlattenSeq(ss)) <=> \E i \in 1..Len(ss) : x \in ToSet(ss[i])
  BY <1>1, FlattenElements
<1>4. ASSUME NEW i \in 1..Len(s), NEW x PROVE x \in ToSet(ss[i]) <=> x = s[i] /\ x \in P
  <2>1. ToSet(<<s[i]>>) = {s[i]} /\ ToSet(<<>>) = {}
    BY DEF ToSet
  <2>2. CASE s[i] \in P
    <3>1. ToSet(ss[i]) = {s[i]}
      BY <1>1, <2>1, <2>2
    <3> QED
      BY <2>2, <3>1
  <2>3. CASE s[i] \notin P
    <3>1. ToSet(ss[i]) = {}
      BY <1>1, <2>1, <2>3
    <3> QED
      BY <2>3, <3>1
  <2> QED
    BY <2>2, <2>3
<1>5. \A x : x \in ToSet(s) <=> \E i \in 1..Len(s) : x = s[i]
  BY InSeq
<1> QED
  BY <1>1, <1>2, <1>3, <1>4, <1>5

LEMMA PickedAll ==
  ASSUME NEW S, NEW s \in Seq(S), NEW P, ToSet(s) \subseteq P
  PROVE  Picked(s, P) = s
<1> DEFINE ss == [k \in DOMAIN s |-> IF s[k] \in P THEN <<s[k]>> ELSE <<>>]
           N == Len(s)
<1>0. \A k \in 1..N : s[k] \in P
  BY InSeq
<1>1. /\ ss \in Seq(Seq(S)) /\ Len(ss) = N /\ \A k \in 1..N : ss[k] = <<s[k]>>
  <2> HIDE DEF ss
  <2> QED
    BY <1>0, PickedParts DEF ss
<1>2. Picked(s, P) = FlattenSeq(ss)
  BY DEF Picked
<1> HIDE DEF ss
<1>3. PICK F \in [0..N -> Seq(S)] : Concatenates(ss, F)
  BY <1>1, FlattenSteps
<1> DEFINE K == {k \in 0..N : F[k] = SubSeq(s, 1, k)}
<1>4. N \in Nat /\ F[0] = <<>> /\ SubSeq(s, 1, 0) = <<>>
  BY <1>3 DEF Concatenates
<1>5. 0 \in K
  BY <1>4
<1>6. ASSUME NEW k \in 1..N, k - 1 \in K PROVE k \in K
  <2>1. F[k] = SubSeq(s, 1, k - 1) \o <<s[k]>>
    BY <1>1, <1>3, <1>6 DEF Concatenates
  <2>2. SubSeq(s, 1, k) = SubSeq(s, 1, k - 1) \o <<s[k]>>
    OBVIOUS
  <2> QED
    BY <2>1, <2>2
<1>7. N \in K
  <2> HIDE DEF K, N
  <2>1. \A k \in 0..N : k \in K
    BY <1>4, <1>5, <1>6, IntervalInduction
  <2> QED
    BY <1>4, <2>1
<1>8. F[N] = SubSeq(s, 1, N)
  BY <1>7
<1>9. SubSeq(s, 1, N) = s
  OBVIOUS
<1> QED
  BY <1>1, <1>2, <1>3, <1>8, <1>9 DEF Concatenates

LEMMA PickedInjective ==
  ASSUME NEW S, NEW s \in Seq(S), NEW P, IsInjective(s)
  PROVE  IsInjective(Picked(s, P))
<1> DEFINE ss == [k \in DOMAIN s |-> IF s[k] \in P THEN <<s[k]>> ELSE <<>>]
           N == Len(s)
<1>1. /\ ss \in Seq(Seq(S)) /\ Len(ss) = N
      /\ \A k \in 1..N : ss[k] = <<s[k]>> \/ ss[k] = <<>>
  <2> HIDE DEF ss
  <2> QED
    BY PickedParts DEF ss
<1>2. Picked(s, P) = FlattenSeq(ss)
  BY DEF Picked
<1> HIDE DEF ss
<1>3. PICK F \in [0..N -> Seq(S)] : Concatenates(ss, F)
  BY <1>1, FlattenSteps
<1>4. N \in Nat /\ F[0] = <<>> /\ \A k \in 0..N : F[k] \in Seq(S)
  BY <1>3 DEF Concatenates
<1> DEFINE Early(k) == \A p \in 1..Len(F[k]) : \E j \in 1..k : F[k][p] = s[j]
           Apart(k) == \A p, q \in 1..Len(F[k]) : F[k][p] = F[k][q] => p = q
           K == {k \in 0..N : Early(k) /\ Apart(k)}
<1>5. 0 \in K
  BY <1>4
<1>6. ASSUME NEW k \in 1..N, k - 1 \in K PROVE k \in K
  <2>a. \A j \in 1..N : F[j] = F[j - 1] \o ss[j]
    BY <1>1, <1>3 DEF Concatenates
  <2>b. k \in 0..N /\ k - 1 \in 0..N
    BY <1>4
  <2>1. k \in 0..N /\ k - 1 \in 0..N /\ F[k] = F[k - 1] \o ss[k]
    BY <2>a, <2>b, Zenon
  <2>2. Early(k - 1) /\ Apart(k - 1)
    BY <1>6
  <2>3. F[k - 1] \in Seq(S) /\ s[k] \in S
    BY <1>4, <2>1
  <2>4. CASE ss[k] = <<>>
    <3>1. F[k] = F[k - 1]
      BY <2>1, <2>3, <2>4
    <3> QED
      BY <2>1, <2>2, <3>1
  <2>5. CASE ss[k] = <<s[k]>>
    <3> DEFINE n == Len(F[k - 1])
    <3>1. /\ n \in Nat /\ Len(F[k]) = n + 1 /\ F[k][n + 1] = s[k]
          /\ \A p \in 1..n : F[k][p] = F[k - 1][p]
      BY <2>1, <2>3, <2>5
    <3>2. \A p \in 1..n : F[k][p] # s[k]
      <4>1. \A j \in 1..(k - 1) : s[j] # s[k]
        BY DEF IsInjective
      <4> QED
        BY <2>2, <3>1, <4>1
    <3>3. Early(k)
      <4>1. \A p \in 1..Len(F[k]) : p \in 1..n \/ p = n + 1
        BY <3>1
      <4>2. \A j \in 1..(k - 1) : j \in 1..k
        OBVIOUS
      <4>3. k \in 1..k /\ F[k][n + 1] = s[k]
        BY <3>1
      <4>4. \A p \in 1..n : \E j \in 1..(k - 1) : F[k - 1][p] = s[j]
        BY <2>2
      <4>5. \A p \in 1..n : \E j \in 1..k : F[k][p] = s[j]
        BY <3>1, <4>2, <4>4
      <4> HIDE DEF n
      <4> QED
        BY <4>1, <4>3, <4>5
    <3>4. Apart(k)
      <4>1. \A p \in 1..Len(F[k]) : p \in 1..n \/ p = n + 1
        BY <3>1
      <4> QED
        BY <2>2, <3>1, <3>2, <4>1
    <3> QED
      BY <2>1, <3>3, <3>4
  <2> QED
    BY <1>1, <2>4, <2>5
<1>7. N \in K
  <2> HIDE DEF K, N
  <2>1. \A k \in 0..N : k \in K
    BY <1>4, <1>5, <1>6, IntervalInduction
  <2> QED
    BY <1>4, <2>1
<1>8. \A p, q \in 1..Len(F[N]) : F[N][p] = F[N][q] => p = q
  BY <1>7
<1>a. F[N] \in Seq(S)
  BY <1>4
<1>9. IsInjective(F[N])
  <2>1. DOMAIN F[N] = 1..Len(F[N])
    BY <1>a
  <2> QED
    BY <1>8, <2>1, Zenon DEF IsInjective
<1> QED
  BY <1>1, <1>2, <1>3, <1>9 DEF Concatenates

-----------------------------------------------------------------------------
(* Transcripts. *)
Ids == Owners \cup Calls \cup {"none", "checkpoint"}
Msgs == [role : {"user", "asst", "tool", "note"}, id : Ids, calls : Seq(Calls)]

LEMMA MessageTypes ==
  /\ \A o \in Owners : User(o) \in Msgs
  /\ \A cs \in Seq(Calls) : Asst(cs) \in Msgs
  /\ \A c \in Calls : Tool(c) \in Msgs /\ Note(c) \in Msgs
  /\ Checkpoint \in Msgs
<1>1. <<>> \in Seq(Calls)
  OBVIOUS
<1> QED
  BY <1>1 DEF User, Asst, Tool, Note, Checkpoint, Message, Msgs, Ids

(* The elements of a concatenation by position. *)
Joins(u, s, t) ==
  /\ Len(s) \in Nat /\ Len(t) \in Nat /\ Len(u) = Len(s) + Len(t)
  /\ \A p \in 1..Len(s) : p \in 1..Len(u) /\ u[p] = s[p]
  /\ \A p \in 1..Len(t) : Len(s) + p \in 1..Len(u) /\ u[Len(s) + p] = t[p]
  /\ \A p \in 1..Len(u) : p \in 1..Len(s) \/ (\E q \in 1..Len(t) : p = Len(s) + q)

LEMMA ConcatAt ==
  ASSUME NEW S, NEW s \in Seq(S), NEW t \in Seq(S)
  PROVE  Joins(s \o t, s, t) /\ s \o t \in Seq(S)
<1> DEFINE u == s \o t
<1>1. /\ u \in Seq(S) /\ Len(s) \in Nat /\ Len(t) \in Nat /\ Len(u) = Len(s) + Len(t)
  OBVIOUS
<1>2. /\ \A p \in 1..Len(s) : p \in 1..Len(u) /\ u[p] = s[p]
      /\ \A p \in 1..Len(t) : Len(s) + p \in 1..Len(u) /\ u[Len(s) + p] = t[p]
  OBVIOUS
<1>3. ASSUME NEW p \in 1..Len(u) PROVE p \in 1..Len(s) \/ (\E q \in 1..Len(t) : p = Len(s) + q)
  <2>1. CASE p <= Len(s)
    BY <1>1, <2>1
  <2>2. CASE p > Len(s)
    <3>1. p - Len(s) \in 1..Len(t) /\ p = Len(s) + (p - Len(s))
      BY <1>1, <2>2
    <3> QED
      BY <3>1
  <2> QED
    BY <1>1, <2>1, <2>2
<1> QED
  BY <1>1, <1>2, <1>3 DEF Joins

(* Where the run of tool messages behind position i ends. *)
LEMMA RunEndFacts ==
  ASSUME NEW S, NEW ms \in Seq(S), NEW i \in 0..Len(ms)
  PROVE  /\ RunEnd(ms, i) \in i..Len(ms)
         /\ \A j \in (i + 1)..RunEnd(ms, i) : IsTool(ms[j])
         /\ RunEnd(ms, i) < Len(ms) => ~IsTool(ms[RunEnd(ms, i) + 1])
<1> DEFINE Stops(e) == e < Len(ms) => ~IsTool(ms[e + 1])
           T == {e \in i..Len(ms) : Stops(e)}
           Ends1(e) == (\A j \in (i + 1)..e : IsTool(ms[j])) /\ Stops(e)
<1>1. Len(ms) \in Nat
  OBVIOUS
<1>2. T \in SUBSET Nat /\ Len(ms) \in T
  BY <1>1
<1>3. PICK n \in T : \A m \in T : n <= m
  <2> HIDE DEF T
  <2> QED
    BY <1>2, LeastNatural
<1>4. n \in i..Len(ms) /\ Stops(n)
  <2> HIDE DEF Stops
  <2> QED
    OBVIOUS
<1>5. ASSUME NEW j \in (i + 1)..n PROVE IsTool(ms[j])
  <2>1. j - 1 \in i..Len(ms) /\ ~(n <= j - 1) /\ j - 1 + 1 = j
    BY <1>1, <1>4
  <2>2. j - 1 \notin T
    <3> HIDE DEF T
    <3> QED
      BY <1>3, <2>1
  <2>3. ~Stops(j - 1)
    <3> HIDE DEF Stops
    <3> QED
      BY <2>1, <2>2
  <2> QED
    BY <2>1, <2>3
<1>6. \E e \in i..Len(ms) : Ends1(e)
  <2> HIDE DEF Stops
  <2> QED
    BY <1>4, <1>5
<1>7. RunEnd(ms, i) = CHOOSE e \in i..Len(ms) : Ends1(e)
  BY DEF RunEnd
<1>8. RunEnd(ms, i) \in i..Len(ms) /\ Ends1(RunEnd(ms, i))
  <2> HIDE DEF Ends1
  <2> QED
    BY <1>6, <1>7
<1> QED
  BY <1>8

LEMMA RunEndUnique ==
  ASSUME NEW S, NEW ms \in Seq(S), NEW i \in 0..Len(ms), NEW e \in i..Len(ms),
         \A j \in (i + 1)..e : IsTool(ms[j]), e < Len(ms) => ~IsTool(ms[e + 1])
  PROVE  RunEnd(ms, i) = e
<1> DEFINE r == RunEnd(ms, i)
<1>1. /\ r \in i..Len(ms) /\ \A j \in (i + 1)..r : IsTool(ms[j])
      /\ r < Len(ms) => ~IsTool(ms[r + 1])
  BY RunEndFacts
<1> HIDE DEF r
<1>2. CASE r < e
  <2>1. r + 1 \in (i + 1)..e /\ r < Len(ms)
    BY <1>1, <1>2
  <2> QED
    BY <1>1, <2>1
<1>3. CASE e < r
  <2>1. e + 1 \in (i + 1)..r /\ e < Len(ms)
    BY <1>1, <1>3
  <2> QED
    BY <1>1, <2>1
<1> QED
  BY <1>1, <1>2, <1>3 DEF r

(* Every tool message is in the run behind the call it answers, and every  *)
(* call has one.                                                           *)
InRun(ms, i, j) == i < j /\ \A k \in (i + 1)..j : IsTool(ms[k])

AnswersOne(ms, j) ==
  \E i \in 1..Len(ms) : ms[i].role = "asst" /\ InRun(ms, i, j) /\ ms[j].id \in ToSet(ms[i].calls)
HasAnswer(ms, i) ==
  \A c \in ToSet(ms[i].calls) : \E j \in 1..Len(ms) : InRun(ms, i, j) /\ ms[j].id = c

Owned(ms) == \A j \in 1..Len(ms) : IsTool(ms[j]) => AnswersOne(ms, j)
Paired(ms) ==
  /\ Owned(ms)
  /\ \A i \in 1..Len(ms) : ms[i].role = "asst" => HasAnswer(ms, i)

LEMMA OwnedConcat ==
  ASSUME NEW S, NEW s \in Seq(S), NEW t \in Seq(S), Owned(s), Owned(t)
  PROVE  Owned(s \o t)
<1> DEFINE u == s \o t
           n == Len(s)
<1>0. Joins(u, s, t)
  BY ConcatAt
<1> HIDE DEF u
<1>1. /\ n \in Nat /\ Len(t) \in Nat /\ Len(u) = n + Len(t)
      /\ \A p \in 1..n : p \in 1..Len(u) /\ u[p] = s[p]
      /\ \A p \in 1..Len(t) : n + p \in 1..Len(u) /\ u[n + p] = t[p]
      /\ \A p \in 1..Len(u) : p \in 1..n \/ (\E q \in 1..Len(t) : p = n + q)
  BY <1>0 DEF Joins
<1> HIDE DEF n
<1>2. ASSUME NEW i \in 1..n, NEW j \in 1..n, InRun(s, i, j) PROVE InRun(u, i, j)
  <2>1. \A k \in (i + 1)..j : k \in 1..n
    BY <1>1
  <2> QED
    BY <1>1, <1>2, <2>1 DEF InRun
<1>3. ASSUME NEW i \in 1..Len(t), NEW j \in 1..Len(t), InRun(t, i, j)
      PROVE  InRun(u, n + i, n + j)
  <2>1. ASSUME NEW k \in (n + i + 1)..(n + j) PROVE IsTool(u[k])
    <3>1. k - n \in (i + 1)..j /\ k - n \in 1..Len(t) /\ n + (k - n) = k
      BY <1>1
    <3>2. IsTool(t[k - n]) /\ u[n + (k - n)] = t[k - n]
      BY <1>1, <1>3, <3>1 DEF InRun
    <3> QED
      BY <3>1, <3>2
  <2>2. n + i < n + j
    BY <1>1, <1>3 DEF InRun
  <2> QED
    BY <2>1, <2>2 DEF InRun
<1>4. ASSUME NEW p \in 1..Len(u), IsTool(u[p]) PROVE AnswersOne(u, p)
  <2>1. CASE p \in 1..n
    <3>1. u[p] = s[p]
      BY <1>1, <2>1
    <3>2. PICK i \in 1..n : s[i].role = "asst" /\ InRun(s, i, p) /\ s[p].id \in ToSet(s[i].calls)
      BY <1>4, <2>1, <3>1 DEF Owned, AnswersOne, n
    <3> QED
      BY <1>1, <1>2, <2>1, <3>1, <3>2 DEF AnswersOne
  <2>2. ASSUME NEW q \in 1..Len(t), p = n + q PROVE AnswersOne(u, p)
    <3>1. u[p] = t[q]
      BY <1>1, <2>2
    <3>2. PICK i \in 1..Len(t) : t[i].role = "asst" /\ InRun(t, i, q) /\ t[q].id \in ToSet(t[i].calls)
      BY <1>4, <2>2, <3>1 DEF Owned, AnswersOne
    <3>3. n + i \in 1..Len(u) /\ u[n + i] = t[i] /\ InRun(u, n + i, p)
      BY <1>1, <1>3, <2>2, <3>2
    <3> QED
      BY <3>1, <3>2, <3>3 DEF AnswersOne
  <2> QED
    BY <1>1, <2>1, <2>2
<1>5. Owned(u)
  BY <1>4 DEF Owned
<1> QED
  BY <1>5 DEF u

LEMMA PairedConcat ==
  ASSUME NEW S, NEW s \in Seq(S), NEW t \in Seq(S), Paired(s), Paired(t)
  PROVE  Paired(s \o t)
<1> DEFINE u == s \o t
           n == Len(s)
<1>0. Joins(u, s, t)
  BY ConcatAt
<1> HIDE DEF u
<1>1. /\ n \in Nat /\ Len(t) \in Nat /\ Len(u) = n + Len(t)
      /\ \A p \in 1..n : p \in 1..Len(u) /\ u[p] = s[p]
      /\ \A p \in 1..Len(t) : n + p \in 1..Len(u) /\ u[n + p] = t[p]
      /\ \A p \in 1..Len(u) : p \in 1..n \/ (\E q \in 1..Len(t) : p = n + q)
  BY <1>0 DEF Joins
<1> HIDE DEF n
<1>2. ASSUME NEW i \in 1..n, NEW j \in 1..n, InRun(s, i, j) PROVE InRun(u, i, j)
  <2>1. \A k \in (i + 1)..j : k \in 1..n
    BY <1>1
  <2> QED
    BY <1>1, <1>2, <2>1 DEF InRun
<1>3. ASSUME NEW i \in 1..Len(t), NEW j \in 1..Len(t), InRun(t, i, j)
      PROVE  InRun(u, n + i, n + j)
  <2>1. ASSUME NEW k \in (n + i + 1)..(n + j) PROVE IsTool(u[k])
    <3>1. k - n \in (i + 1)..j /\ k - n \in 1..Len(t) /\ n + (k - n) = k
      BY <1>1
    <3>2. IsTool(t[k - n]) /\ u[n + (k - n)] = t[k - n]
      BY <1>1, <1>3, <3>1 DEF InRun
    <3> QED
      BY <3>1, <3>2
  <2>2. n + i < n + j
    BY <1>1, <1>3 DEF InRun
  <2> QED
    BY <2>1, <2>2 DEF InRun
<1>4. Owned(u)
  BY OwnedConcat DEF Paired, u
<1>5. ASSUME NEW p \in 1..Len(u), u[p].role = "asst" PROVE HasAnswer(u, p)
  <2>1. CASE p \in 1..n
    <3>1. u[p] = s[p]
      BY <1>1, <2>1
    <3>2. ASSUME NEW c \in ToSet(s[p].calls)
          PROVE  \E j \in 1..Len(u) : InRun(u, p, j) /\ u[j].id = c
      <4>1. PICK j \in 1..n : InRun(s, p, j) /\ s[j].id = c
        BY <1>5, <2>1, <3>1, <3>2 DEF Paired, Owned, HasAnswer, n
      <4>2. j \in 1..Len(u) /\ u[j] = s[j] /\ InRun(u, p, j)
        BY <1>1, <1>2, <2>1, <4>1
      <4> QED
        BY <4>1, <4>2
    <3> QED
      BY <3>1, <3>2 DEF HasAnswer
  <2>2. ASSUME NEW q \in 1..Len(t), p = n + q PROVE HasAnswer(u, p)
    <3>1. u[p] = t[q]
      BY <1>1, <2>2
    <3>2. ASSUME NEW c \in ToSet(t[q].calls)
          PROVE  \E j \in 1..Len(u) : InRun(u, p, j) /\ u[j].id = c
      <4>1. PICK j \in 1..Len(t) : InRun(t, q, j) /\ t[j].id = c
        BY <1>5, <2>2, <3>1, <3>2 DEF Paired, Owned, HasAnswer
      <4>2. n + j \in 1..Len(u) /\ u[n + j] = t[j] /\ InRun(u, p, n + j)
        BY <1>1, <1>3, <2>2, <4>1
      <4> QED
        BY <4>1, <4>2
    <3> QED
      BY <3>1, <3>2 DEF HasAnswer
  <2> QED
    BY <1>1, <2>1, <2>2
<1>6. Paired(u)
  BY <1>4, <1>5 DEF Paired
<1> QED
  BY <1>6 DEF u

(* The parts of Answers: the run, what of it answers, the calls it leaves  *)
(* open, and what is found for one of those.                               *)
RunOf(ms, i) == SubSeq(ms, i + 1, RunEnd(ms, i))
MineOf(ms, i) ==
  Picked(RunOf(ms, i), {m \in ToSet(RunOf(ms, i)) : m.id \in ToSet(ms[i].calls)})
LostOf(ms, i) ==
  Picked(ms[i].calls, {c \in ToSet(ms[i].calls) : \A m \in ToSet(RunOf(ms, i)) : m.id # c})
LaterOf(ms, i, c) == {k \in (RunEnd(ms, i) + 1)..Len(ms) : IsTool(ms[k]) /\ ms[k].id = c}
FoundOf(ms, i, c) ==
  IF LaterOf(ms, i, c) = {} THEN Note(c)
  ELSE ms[CHOOSE k \in LaterOf(ms, i, c) : \A l \in LaterOf(ms, i, c) : k <= l]
FoundFor(ms, i) == [k \in DOMAIN LostOf(ms, i) |-> FoundOf(ms, i, LostOf(ms, i)[k])]

LEMMA AnswersParts ==
  ASSUME NEW ms, NEW i
  PROVE  Answers(ms, i) = MineOf(ms, i) \o FoundFor(ms, i)
  BY DEF Answers, MineOf, LostOf, FoundFor, FoundOf, LaterOf, RunOf

(* A tool message of ms behind position i for call c. *)
Behind(ms, i, c) == \E k \in (i + 1)..Len(ms) : IsTool(ms[k]) /\ ms[k].id = c

LEMMA RunFacts ==
  ASSUME NEW ms \in Seq(Msgs), NEW i \in 1..Len(ms)
  PROVE  /\ RunOf(ms, i) \in Seq(Msgs) /\ Len(RunOf(ms, i)) = RunEnd(ms, i) - i
         /\ \A k \in 1..Len(RunOf(ms, i)) :
              /\ i + k \in (i + 1)..RunEnd(ms, i) /\ i + k \in 1..Len(ms)
              /\ RunOf(ms, i)[k] = ms[i + k] /\ IsTool(ms[i + k])
<1> DEFINE e == RunEnd(ms, i)
           run == RunOf(ms, i)
<1>1. i \in 0..Len(ms) /\ Len(ms) \in Nat
  OBVIOUS
<1>2. e \in i..Len(ms) /\ \A j \in (i + 1)..e : IsTool(ms[j])
  BY <1>1, RunEndFacts
<1>3. run = SubSeq(ms, i + 1, e)
  BY DEF RunOf
<1> HIDE DEF e, run
<1>4. e \in Int /\ i <= e /\ e <= Len(ms) /\ i \in Nat /\ i >= 1
  BY <1>1, <1>2
<1>5. run \in Seq(Msgs) /\ Len(run) = e - i /\ \A k \in 1..(e - i) : run[k] = ms[i + k]
  BY <1>1, <1>3, <1>4
<1>6. ASSUME NEW k \in 1..Len(run)
      PROVE  /\ i + k \in (i + 1)..e /\ i + k \in 1..Len(ms)
             /\ run[k] = ms[i + k] /\ IsTool(ms[i + k])
  <2>1. k \in 1..(e - i)
    BY <1>5
  <2>2. i + k \in (i + 1)..e /\ i + k \in 1..Len(ms)
    BY <1>1, <1>4, <2>1
  <2> QED
    BY <1>2, <1>5, <2>1, <2>2
<1> QED
  BY <1>5, <1>6 DEF e, run

LEMMA FoundFacts ==
  ASSUME NEW ms \in Seq(Msgs), NEW i \in 1..Len(ms), NEW c \in Calls
  PROVE  /\ FoundOf(ms, i, c) \in Msgs /\ IsTool(FoundOf(ms, i, c)) /\ FoundOf(ms, i, c).id = c
         /\ \/ FoundOf(ms, i, c) \in ToSet(ms)
            \/ FoundOf(ms, i, c) = Note(c) /\ LaterOf(ms, i, c) = {}
<1> DEFINE L == LaterOf(ms, i, c)
           f == FoundOf(ms, i, c)
<1>1. Note(c) \in Msgs /\ IsTool(Note(c)) /\ Note(c).id = c
  BY MessageTypes DEF Note, Message, IsTool
<1>2. CASE L = {}
  <2>1. f = Note(c)
    BY <1>2 DEF FoundOf
  <2> QED
    BY <1>1, <1>2, <2>1
<1>3. CASE L # {}
  <2>1. f = ms[CHOOSE k \in L : \A l \in L : k <= l]
    BY <1>3 DEF FoundOf
  <2>2. RunEnd(ms, i) \in Nat
    <3>1. i \in 0..Len(ms) /\ Len(ms) \in Nat
      OBVIOUS
    <3>2. RunEnd(ms, i) \in i..Len(ms)
      BY <3>1, RunEndFacts
    <3> QED
      BY <3>1, <3>2
  <2>3. L \in SUBSET Nat /\ \A k \in L : k \in 1..Len(ms) /\ IsTool(ms[k]) /\ ms[k].id = c
    BY <2>2 DEF LaterOf
  <2> HIDE DEF L, f
  <2>4. \E k \in L : \A l \in L : k <= l
    BY <1>3, <2>3, LeastNatural
  <2>5. PICK k \in L : f = ms[k]
    BY <2>1, <2>4
  <2>6. k \in 1..Len(ms) /\ IsTool(f) /\ f.id = c /\ f = ms[k]
    BY <2>3, <2>5
  <2>7. f \in Msgs /\ f \in ToSet(ms)
    BY <2>6, InSeq
  <2> QED
    BY <2>6, <2>7 DEF f
<1> QED
  BY <1>2, <1>3

LEMMA MineFacts ==
  ASSUME NEW ms \in Seq(Msgs), NEW i \in 1..Len(ms)
  PROVE  /\ MineOf(ms, i) \in Seq(Msgs)
         /\ \A m : m \in ToSet(MineOf(ms, i)) <=>
                     m \in ToSet(RunOf(ms, i)) /\ m.id \in ToSet(ms[i].calls)
         /\ \A m \in ToSet(RunOf(ms, i)) : IsTool(m) /\ m \in ToSet(ms)
<1> DEFINE run == RunOf(ms, i)
           P == {m \in ToSet(run) : m.id \in ToSet(ms[i].calls)}
<1>1. /\ run \in Seq(Msgs)
      /\ \A k \in 1..Len(run) : /\ i + k \in 1..Len(ms) /\ run[k] = ms[i + k]
                                /\ IsTool(ms[i + k])
  BY RunFacts
<1>2. MineOf(ms, i) = Picked(run, P)
  BY DEF MineOf
<1> HIDE DEF run
<1>3. Picked(run, P) \in Seq(Msgs) /\ ToSet(Picked(run, P)) = ToSet(run) \cap P
  BY <1>1, PickedFacts
<1>4. ASSUME NEW m \in ToSet(run) PROVE IsTool(m) /\ m \in ToSet(ms)
  <2>1. PICK k \in 1..Len(run) : run[k] = m
    BY <1>1, InSeq
  <2> QED
    BY <1>1, <2>1, InSeq
<1> QED
  BY <1>2, <1>3, <1>4 DEF run

LEMMA LostFacts ==
  ASSUME NEW ms \in Seq(Msgs), NEW i \in 1..Len(ms)
  PROVE  /\ ms[i].calls \in Seq(Calls) /\ LostOf(ms, i) \in Seq(Calls)
         /\ ToSet(ms[i].calls) \subseteq Calls
         /\ \A c : c \in ToSet(LostOf(ms, i)) <=>
                     c \in ToSet(ms[i].calls) /\ \A m \in ToSet(RunOf(ms, i)) : m.id # c
<1> DEFINE cs == ms[i].calls
           Q == {c \in ToSet(cs) : \A m \in ToSet(RunOf(ms, i)) : m.id # c}
<1>1. ms[i] \in Msgs
  OBVIOUS
<1>2. cs \in Seq(Calls)
  BY <1>1 DEF Msgs
<1>3. LostOf(ms, i) = Picked(cs, Q)
  BY DEF LostOf
<1> HIDE DEF cs
<1>4. Picked(cs, Q) \in Seq(Calls) /\ ToSet(Picked(cs, Q)) = ToSet(cs) \cap Q
  BY <1>2, PickedFacts
<1>5. ToSet(cs) \subseteq Calls
  BY <1>2, InSeq
<1> QED
  BY <1>2, <1>3, <1>4, <1>5 DEF cs

(* What stands behind an assistant message after the repair: results of    *)
(* its calls and of each of them one; a note only where there was none.    *)
LEMMA AnswersFacts ==
  ASSUME NEW ms \in Seq(Msgs), NEW i \in 1..Len(ms)
  PROVE  /\ Answers(ms, i) \in Seq(Msgs)
         /\ \A m \in ToSet(Answers(ms, i)) :
              /\ IsTool(m) /\ m.id \in ToSet(ms[i].calls)
              /\ m \in ToSet(ms) \/ (m = Note(m.id) /\ ~Behind(ms, i, m.id))
         /\ \A c \in ToSet(ms[i].calls) : \E m \in ToSet(Answers(ms, i)) : m.id = c
<1> DEFINE mine == MineOf(ms, i)
           lost == LostOf(ms, i)
           found == FoundFor(ms, i)
<1>1. Answers(ms, i) = mine \o found
  BY AnswersParts
<1>2. /\ mine \in Seq(Msgs)
      /\ \A m : m \in ToSet(mine) <=> m \in ToSet(RunOf(ms, i)) /\ m.id \in ToSet(ms[i].calls)
      /\ \A m \in ToSet(RunOf(ms, i)) : IsTool(m) /\ m \in ToSet(ms)
  BY MineFacts
<1>3. /\ lost \in Seq(Calls) /\ ToSet(ms[i].calls) \subseteq Calls
      /\ \A c : c \in ToSet(lost) <=>
                  c \in ToSet(ms[i].calls) /\ \A m \in ToSet(RunOf(ms, i)) : m.id # c
  BY LostFacts
<1>4. found = [k \in DOMAIN lost |-> FoundOf(ms, i, lost[k])]
  BY DEF FoundFor
<1> HIDE DEF mine, lost, found
<1>5. \A c \in Calls :
        /\ FoundOf(ms, i, c) \in Msgs /\ IsTool(FoundOf(ms, i, c)) /\ FoundOf(ms, i, c).id = c
        /\ \/ FoundOf(ms, i, c) \in ToSet(ms)
           \/ FoundOf(ms, i, c) = Note(c) /\ LaterOf(ms, i, c) = {}
  BY FoundFacts
<1>6. DOMAIN lost = 1..Len(lost) /\ Len(lost) \in Nat /\ \A k \in 1..Len(lost) : lost[k] \in Calls
  BY <1>3
<1>7. found \in Seq(Msgs) /\ Len(found) = Len(lost)
      /\ \A k \in 1..Len(lost) : found[k] = FoundOf(ms, i, lost[k])
  <2>1. found \in [1..Len(lost) -> Msgs]
    BY <1>4, <1>5, <1>6
  <2> QED
    BY <1>4, <1>6, <2>1
<1>8. ToSet(mine \o found) = ToSet(mine) \cup ToSet(found) /\ mine \o found \in Seq(Msgs)
  <2>1. mine \o found \in Seq(Msgs)
    BY <1>2, <1>7
  <2> QED
    BY <1>2, <1>7, <2>1, InConcat
<1>9. ASSUME NEW c \in ToSet(lost), LaterOf(ms, i, c) = {} PROVE ~Behind(ms, i, c)
  <2>1. SUFFICES ASSUME NEW k \in (i + 1)..Len(ms), IsTool(ms[k]), ms[k].id = c PROVE FALSE
    BY DEF Behind
  <2>2. i \in 0..Len(ms) /\ Len(ms) \in Nat
    OBVIOUS
  <2>3. RunEnd(ms, i) \in i..Len(ms)
    BY <2>2, RunEndFacts
  <2>4. CASE k > RunEnd(ms, i)
    <3>1. k \in (RunEnd(ms, i) + 1)..Len(ms)
      BY <2>2, <2>3, <2>4
    <3> QED
      BY <1>9, <2>1, <3>1 DEF LaterOf
  <2>5. CASE k <= RunEnd(ms, i)
    <3>1. RunOf(ms, i) \in Seq(Msgs) /\ Len(RunOf(ms, i)) = RunEnd(ms, i) - i
      BY RunFacts
    <3>2. k - i \in 1..Len(RunOf(ms, i)) /\ i + (k - i) = k
      BY <2>2, <2>3, <2>5, <3>1
    <3>3. RunOf(ms, i)[k - i] = ms[i + (k - i)]
      BY <3>2, RunFacts
    <3>4. ms[k] \in ToSet(RunOf(ms, i))
      BY <3>1, <3>2, <3>3, InSeq
    <3> QED
      BY <1>3, <1>9, <2>1, <3>4
  <2> QED
    BY <2>2, <2>3, <2>4, <2>5
<1>10. ASSUME NEW m \in ToSet(found)
       PROVE  /\ IsTool(m) /\ m.id \in ToSet(lost)
              /\ m \in ToSet(ms) \/ (m = Note(m.id) /\ ~Behind(ms, i, m.id))
  <2>1. PICK k \in 1..Len(lost) : m = FoundOf(ms, i, lost[k])
    BY <1>7, InSeq
  <2>2. lost[k] \in Calls /\ lost[k] \in ToSet(lost)
    BY <1>3, <1>6, InSeq
  <2>3. m.id = lost[k] /\ IsTool(m)
    BY <1>5, <2>1, <2>2
  <2>4. m \in ToSet(ms) \/ (m = Note(m.id) /\ LaterOf(ms, i, m.id) = {})
    BY <1>5, <2>1, <2>2, <2>3
  <2> QED
    BY <1>9, <2>2, <2>3, <2>4
<1>11. ASSUME NEW c \in ToSet(lost) PROVE \E m \in ToSet(found) : m.id = c
  <2>1. PICK k \in 1..Len(lost) : lost[k] = c
    BY <1>3, InSeq
  <2>2. found[k] \in ToSet(found) /\ found[k].id = c
    BY <1>5, <1>6, <1>7, <2>1, InSeq
  <2> QED
    BY <2>2
<1>12. \A m \in ToSet(mine \o found) :
         /\ IsTool(m) /\ m.id \in ToSet(ms[i].calls)
         /\ m \in ToSet(ms) \/ (m = Note(m.id) /\ ~Behind(ms, i, m.id))
  BY <1>2, <1>3, <1>8, <1>10
<1>13. ASSUME NEW c \in ToSet(ms[i].calls) PROVE \E m \in ToSet(mine \o found) : m.id = c
  <2>1. CASE c \in ToSet(lost)
    BY <1>8, <1>11, <2>1
  <2>2. CASE c \notin ToSet(lost)
    BY <1>2, <1>3, <1>8, <2>2
  <2> QED
    BY <2>1, <2>2
<1> QED
  BY <1>1, <1>8, <1>12, <1>13

(* What the repair makes of the message at position i. *)
GroupOf(ms, i) ==
  IF IsTool(ms[i]) THEN <<>>
  ELSE IF ms[i].role = "asst" THEN <<ms[i]>> \o Answers(ms, i) ELSE <<ms[i]>>
GroupsOf(ms) == [i \in DOMAIN ms |-> GroupOf(ms, i)]

LEMMA RoleFacts ==
  ASSUME NEW m
  PROVE  /\ m.role = "asst" => ~IsTool(m) /\ m.role # "user"
         /\ m.role = "user" => ~IsTool(m)
  BY DEF IsTool

LEMMA GroupTypes ==
  ASSUME NEW ms \in Seq(Msgs)
  PROVE  /\ GroupsOf(ms) \in Seq(Seq(Msgs)) /\ Len(GroupsOf(ms)) = Len(ms)
         /\ \A i \in 1..Len(ms) : GroupsOf(ms)[i] = GroupOf(ms, i) /\ GroupOf(ms, i) \in Seq(Msgs)
         /\ RepairToolPairs(ms) = FlattenSeq(GroupsOf(ms)) /\ RepairToolPairs(ms) \in Seq(Msgs)
<1>1. DOMAIN ms = 1..Len(ms) /\ Len(ms) \in Nat /\ \A i \in 1..Len(ms) : ms[i] \in Msgs
  OBVIOUS
<1>2. ASSUME NEW i \in 1..Len(ms) PROVE GroupOf(ms, i) \in Seq(Msgs)
  <2>1. Answers(ms, i) \in Seq(Msgs) /\ <<ms[i]>> \in Seq(Msgs)
    BY <1>1, AnswersFacts
  <2>2. <<ms[i]>> \o Answers(ms, i) \in Seq(Msgs) /\ <<>> \in Seq(Msgs)
    BY <2>1
  <2> QED
    BY <2>1, <2>2 DEF GroupOf
<1>3. GroupsOf(ms) \in [1..Len(ms) -> Seq(Msgs)]
  BY <1>1, <1>2 DEF GroupsOf
<1>4. GroupsOf(ms) \in Seq(Seq(Msgs)) /\ Len(GroupsOf(ms)) = Len(ms)
  BY <1>1, <1>3
<1>5. RepairToolPairs(ms) = FlattenSeq(GroupsOf(ms))
  BY DEF RepairToolPairs, GroupsOf, GroupOf
<1>6. FlattenSeq(GroupsOf(ms)) \in Seq(Msgs)
  BY <1>4, FlattenElements
<1> QED
  BY <1>1, <1>2, <1>4, <1>5, <1>6 DEF GroupsOf

(* An assistant message and its answers. *)
LEMMA GroupPaired ==
  ASSUME NEW x \in Msgs, x.role = "asst", NEW a \in Seq(Msgs),
         \A m \in ToSet(a) : IsTool(m) /\ m.id \in ToSet(x.calls),
         \A c \in ToSet(x.calls) : \E m \in ToSet(a) : m.id = c
  PROVE  Paired(<<x>> \o a)
<1> DEFINE g == <<x>> \o a
<1>1. /\ Len(a) \in Nat /\ Len(g) = Len(a) + 1 /\ g[1] = x
      /\ \A k \in 1..Len(a) : g[k + 1] = a[k]
  OBVIOUS
<1> HIDE DEF g
<1>2. ASSUME NEW k \in 2..Len(g) PROVE IsTool(g[k]) /\ g[k].id \in ToSet(x.calls)
  <2>1. k - 1 \in 1..Len(a) /\ (k - 1) + 1 = k
    BY <1>1
  <2>2. g[k] = a[k - 1] /\ a[k - 1] \in ToSet(a)
    BY <1>1, <2>1, InSeq
  <2> QED
    BY <2>2
<1>3. ASSUME NEW j \in 1..Len(g), IsTool(g[j]) PROVE AnswersOne(g, j)
  <2>1. j \in 2..Len(g) /\ 1 \in 1..Len(g)
    BY <1>1, <1>3, RoleFacts
  <2>2. InRun(g, 1, j)
    BY <1>1, <1>2, <2>1 DEF InRun
  <2> QED
    BY <1>1, <1>2, <2>1, <2>2 DEF AnswersOne
<1>4. ASSUME NEW i \in 1..Len(g), g[i].role = "asst" PROVE HasAnswer(g, i)
  <2>1. i = 1
    BY <1>1, <1>2, <1>4, RoleFacts
  <2>2. ASSUME NEW c \in ToSet(x.calls) PROVE \E j \in 1..Len(g) : InRun(g, 1, j) /\ g[j].id = c
    <3>1. PICK m \in ToSet(a) : m.id = c
      OBVIOUS
    <3>2. PICK k \in 1..Len(a) : a[k] = m
      BY InSeq
    <3>3. k + 1 \in 1..Len(g) /\ 1 < k + 1 /\ \A l \in 2..(k + 1) : l \in 2..Len(g)
      BY <1>1
    <3>4. InRun(g, 1, k + 1)
      BY <1>2, <3>3 DEF InRun
    <3> QED
      BY <1>1, <3>1, <3>2, <3>3, <3>4
  <2> QED
    BY <1>1, <2>1, <2>2 DEF HasAnswer
<1>5. Paired(g)
  BY <1>3, <1>4 DEF Paired, Owned
<1> QED
  BY <1>5 DEF g

LEMMA PlainPaired ==
  /\ Paired(<<>>)
  /\ \A x : x.role # "asst" /\ ~IsTool(x) => Paired(<<x>>)
<1>1. Paired(<<>>)
  BY DEF Paired, Owned
<1>2. ASSUME NEW x, x.role # "asst", ~IsTool(x) PROVE Paired(<<x>>)
  <2>1. Len(<<x>>) = 1 /\ <<x>>[1] = x /\ \A k \in 1..Len(<<x>>) : k = 1
    OBVIOUS
  <2> QED
    BY <1>2, <2>1 DEF Paired, Owned
<1> QED
  BY <1>1, <1>2

(* The repair pairs whatever it is given. *)
LEMMA RepairPairs ==
  ASSUME NEW ms \in Seq(Msgs)
  PROVE  Paired(RepairToolPairs(ms))
<1> DEFINE gs == GroupsOf(ms)
           G == {s \in Seq(Msgs) : Paired(s)}
<1>1. /\ gs \in Seq(Seq(Msgs)) /\ Len(gs) = Len(ms) /\ RepairToolPairs(ms) = FlattenSeq(gs)
      /\ \A i \in 1..Len(ms) : gs[i] = GroupOf(ms, i) /\ GroupOf(ms, i) \in Seq(Msgs)
  BY GroupTypes
<1> HIDE DEF gs
<1>2. ASSUME NEW i \in 1..Len(ms) PROVE Paired(GroupOf(ms, i))
  <2>1. ms[i] \in Msgs
    OBVIOUS
  <2>2. CASE ms[i].role = "asst"
    <3> DEFINE a == Answers(ms, i)
    <3>1. /\ a \in Seq(Msgs) /\ \A m \in ToSet(a) : IsTool(m) /\ m.id \in ToSet(ms[i].calls)
          /\ \A c \in ToSet(ms[i].calls) : \E m \in ToSet(a) : m.id = c
      BY AnswersFacts
    <3>2. GroupOf(ms, i) = <<ms[i]>> \o a
      BY <2>2, RoleFacts DEF GroupOf
    <3> HIDE DEF a
    <3> QED
      BY <2>1, <2>2, <3>1, <3>2, GroupPaired
  <2>3. CASE ms[i].role # "asst"
    BY <2>3, PlainPaired DEF GroupOf
  <2> QED
    BY <2>2, <2>3
<1>3. <<>> \in G
  BY PlainPaired
<1>4. ASSUME NEW s \in G, NEW t \in G PROVE s \o t \in G
  <2>1. s \in Seq(Msgs) /\ t \in Seq(Msgs) /\ Paired(s) /\ Paired(t)
    OBVIOUS
  <2>2. s \o t \in Seq(Msgs) /\ Paired(s \o t)
    BY <2>1, PairedConcat, ConcatAt
  <2> QED
    BY <2>2
<1>5. \A k \in 1..Len(gs) : gs[k] \in G
  BY <1>1, <1>2
<1>6. FlattenSeq(gs) \in G
  <2> HIDE DEF G
  <2> QED
    BY <1>1, <1>3, <1>4, <1>5, FlattenIn
<1> QED
  BY <1>1, <1>6

(* Where no result is astray, a run behind an assistant message is all its *)
(* own, and no other message is followed by one.                           *)
LEMMA RunOwner ==
  ASSUME NEW ms \in Seq(Msgs), Owned(ms), NEW i \in 1..Len(ms), NEW j \in 1..Len(ms),
         InRun(ms, i, j), ~IsTool(ms[i])
  PROVE  ms[i].role = "asst" /\ ms[j].id \in ToSet(ms[i].calls)
<1>1. IsTool(ms[j]) /\ i < j /\ j \in (i + 1)..j
  BY DEF InRun
<1>2. PICK h \in 1..Len(ms) :
        ms[h].role = "asst" /\ InRun(ms, h, j) /\ ms[j].id \in ToSet(ms[h].calls)
  BY <1>1 DEF Owned, AnswersOne
<1>3. ~IsTool(ms[h]) /\ h < j
  BY <1>2, RoleFacts DEF InRun
<1>4. ~(h < i)
  <2>1. h < i => i \in (h + 1)..j
    BY <1>1
  <2> QED
    BY <1>2, <2>1 DEF InRun
<1>5. ~(i < h)
  <2>1. i < h => h \in (i + 1)..j
    BY <1>3
  <2> QED
    BY <1>3, <2>1 DEF InRun
<1>6. h = i
  BY <1>4, <1>5
<1> QED
  BY <1>2, <1>6

LEMMA OwnedMine ==
  ASSUME NEW ms \in Seq(Msgs), Owned(ms), NEW i \in 1..Len(ms), ms[i].role = "asst"
  PROVE  MineOf(ms, i) = RunOf(ms, i)
<1> DEFINE run == RunOf(ms, i)
           e == RunEnd(ms, i)
           P == {m \in ToSet(run) : m.id \in ToSet(ms[i].calls)}
<1>1. /\ run \in Seq(Msgs) /\ Len(run) = e - i
      /\ \A k \in 1..Len(run) :
           /\ i + k \in (i + 1)..e /\ i + k \in 1..Len(ms)
           /\ run[k] = ms[i + k] /\ IsTool(ms[i + k])
  BY RunFacts
<1>2. i \in 0..Len(ms) /\ Len(ms) \in Nat
  OBVIOUS
<1>3. /\ e \in i..Len(ms) /\ \A j \in (i + 1)..e : IsTool(ms[j])
      /\ e < Len(ms) => ~IsTool(ms[e + 1])
  BY <1>2, RunEndFacts
<1>4. MineOf(ms, i) = Picked(run, P)
  BY DEF MineOf
<1> HIDE DEF run, e
<1>5. ASSUME NEW m \in ToSet(run) PROVE m.id \in ToSet(ms[i].calls)
  <2>1. PICK k \in 1..Len(run) : run[k] = m
    BY <1>1, InSeq
  <2>2. i + k \in 1..Len(ms) /\ ms[i + k] = m /\ i + k \in (i + 1)..e
    BY <1>1, <2>1
  <2>3. \A l \in (i + 1)..(i + k) : l \in (i + 1)..e
    BY <1>3, <2>2
  <2>4. InRun(ms, i, i + k)
    BY <1>3, <2>2, <2>3 DEF InRun
  <2>5. ms[i + k].id \in ToSet(ms[i].calls)
    BY <2>2, <2>4, RunOwner, RoleFacts
  <2> QED
    BY <2>2, <2>5
<1>6. MineOf(ms, i) = run
  <2>1. ToSet(run) \subseteq P
    BY <1>5
  <2> HIDE DEF P
  <2> QED
    BY <1>1, <1>4, <2>1, PickedAll
<1> QED
  BY <1>6 DEF run

LEMMA PairedAnswers ==
  ASSUME NEW ms \in Seq(Msgs), Paired(ms), NEW i \in 1..Len(ms), ms[i].role = "asst"
  PROVE  Answers(ms, i) = RunOf(ms, i)
<1> DEFINE run == RunOf(ms, i)
           e == RunEnd(ms, i)
<1>1. /\ run \in Seq(Msgs) /\ Len(run) = e - i
      /\ \A k \in 1..Len(run) :
           /\ i + k \in (i + 1)..e /\ i + k \in 1..Len(ms)
           /\ run[k] = ms[i + k] /\ IsTool(ms[i + k])
  BY RunFacts
<1>2. i \in 0..Len(ms) /\ Len(ms) \in Nat
  OBVIOUS
<1>3. /\ e \in i..Len(ms) /\ \A j \in (i + 1)..e : IsTool(ms[j])
      /\ e < Len(ms) => ~IsTool(ms[e + 1])
  BY <1>2, RunEndFacts
<1>4. MineOf(ms, i) = run
  BY OwnedMine DEF Paired
<1> HIDE DEF run, e
<1>7. ASSUME NEW c \in ToSet(ms[i].calls) PROVE \E m \in ToSet(run) : m.id = c
  <2>1. PICK j \in 1..Len(ms) : InRun(ms, i, j) /\ ms[j].id = c
    BY DEF Paired, Owned, HasAnswer
  <2>2. j <= e
    <3>1. j > e => e + 1 \in (i + 1)..j /\ e < Len(ms)
      BY <1>2, <1>3
    <3> QED
      BY <1>2, <1>3, <2>1, <3>1 DEF InRun
  <2>3. j - i \in 1..Len(run) /\ i + (j - i) = j
    BY <1>1, <1>2, <1>3, <2>1, <2>2 DEF InRun
  <2>4. run[j - i] = ms[j] /\ run[j - i] \in ToSet(run)
    BY <1>1, <2>3, InSeq
  <2> QED
    BY <2>1, <2>4
<1>8. LostOf(ms, i) = <<>>
  <2>1. LostOf(ms, i) \in Seq(Calls) /\ \A c : c \notin ToSet(LostOf(ms, i))
    <3>1. /\ LostOf(ms, i) \in Seq(Calls)
          /\ \A c : c \in ToSet(LostOf(ms, i)) <=>
                      c \in ToSet(ms[i].calls) /\ \A m \in ToSet(run) : m.id # c
      BY LostFacts DEF run
    <3> QED
      BY <1>7, <3>1
  <2>2. Len(LostOf(ms, i)) = 0
    <3> DEFINE l == LostOf(ms, i)
    <3> HIDE DEF l
    <3>1. l \in Seq(Calls) /\ \A c : c \notin ToSet(l)
      BY <2>1 DEF l
    <3>2. Len(l) \in Nat /\ (Len(l) # 0 => 1 \in 1..Len(l))
      BY <3>1
    <3>3. \A x : x \in ToSet(l) <=> \E k \in 1..Len(l) : l[k] = x
      BY <3>1, InSeq
    <3>4. Len(l) = 0
      BY <3>1, <3>2, <3>3
    <3> QED
      BY <3>4 DEF l
  <2> QED
    BY <2>1, <2>2
<1>9. FoundFor(ms, i) = <<>>
  BY <1>8 DEF FoundFor
<1>10. Answers(ms, i) = run \o <<>>
  BY <1>4, <1>9, AnswersParts
<1>11. run \o <<>> = run
  BY <1>1, ConcatNone
<1> QED
  BY <1>10, <1>11 DEF run

LEMMA SubSeqJoin ==
  ASSUME NEW S, NEW s \in Seq(S), NEW k \in 1..Len(s), NEW e \in Nat, k <= e, e <= Len(s)
  PROVE  SubSeq(s, 1, k - 1) \o (<<s[k]>> \o SubSeq(s, k + 1, e)) = SubSeq(s, 1, e)
<1> DEFINE a == SubSeq(s, 1, k - 1)
           b == <<s[k]>>
           c == SubSeq(s, k + 1, e)
           d == SubSeq(s, 1, e)
           bc == b \o c
<1>1. /\ Len(s) \in Nat /\ k \in Nat /\ k >= 1
      /\ a \in Seq(S) /\ Len(a) = k - 1 /\ \A p \in 1..(k - 1) : a[p] = s[p]
  OBVIOUS
<1>2. b \in Seq(S) /\ Len(b) = 1 /\ b[1] = s[k]
  OBVIOUS
<1>3. c \in Seq(S) /\ Len(c) = e - k /\ \A p \in 1..(e - k) : c[p] = s[k + p]
  OBVIOUS
<1>4. d \in Seq(S) /\ Len(d) = e /\ \A p \in 1..e : d[p] = s[p]
  OBVIOUS
<1> HIDE DEF a, b, c, d
<1>5. bc \in Seq(S) /\ Joins(bc, b, c)
  BY <1>2, <1>3, ConcatAt
<1> HIDE DEF bc
<1> DEFINE u == a \o bc
<1>6. u \in Seq(S) /\ Joins(u, a, bc)
  BY <1>1, <1>5, ConcatAt
<1> HIDE DEF u
<1>7. Len(bc) = e - k + 1 /\ Len(u) = e
  BY <1>1, <1>2, <1>3, <1>5, <1>6 DEF Joins
<1>8. ASSUME NEW p \in 1..e PROVE u[p] = s[p]
  <2>1. CASE p < k
    <3>1. p \in 1..(k - 1) /\ p \in 1..Len(a)
      BY <1>1, <2>1
    <3> QED
      BY <1>1, <1>6, <3>1 DEF Joins
  <2>2. CASE p = k
    <3>1. 1 \in 1..Len(bc) /\ 1 \in 1..Len(b) /\ Len(a) + 1 = p
      BY <1>1, <1>2, <1>7, <2>2
    <3>2. u[Len(a) + 1] = bc[1] /\ bc[1] = b[1]
      BY <1>5, <1>6, <3>1 DEF Joins
    <3> QED
      BY <1>2, <2>2, <3>1, <3>2
  <2>3. CASE p > k
    <3> DEFINE q == p - k
    <3>1. q \in 1..(e - k) /\ q \in 1..Len(c) /\ k + q = p
      BY <1>1, <1>3, <2>3
    <3>2. Len(b) + q \in 1..Len(bc) /\ Len(a) + (Len(b) + q) = p
      BY <1>1, <1>2, <1>3, <1>7, <3>1
    <3> HIDE DEF q
    <3>3. bc[Len(b) + q] = c[q] /\ u[Len(a) + (Len(b) + q)] = bc[Len(b) + q]
      BY <1>5, <1>6, <3>1, <3>2 DEF Joins
    <3> QED
      BY <1>3, <3>1, <3>2, <3>3
  <2>4. p < k \/ p = k \/ p > k
    BY <1>1
  <2> QED
    BY <2>1, <2>2, <2>3, <2>4, Zenon
<1>9. u = d
  BY <1>4, <1>6, <1>7, <1>8
<1> QED
  BY <1>9 DEF a, b, c, d, bc, u

(* Where the runs end when no result is astray. *)
Runs(ms) ==
  /\ RunEnd(ms, 0) = 0 /\ RunEnd(ms, Len(ms)) = Len(ms)
  /\ \A k \in 1..Len(ms) :
       /\ RunEnd(ms, k) \in k..Len(ms)
       /\ IsTool(ms[k]) => RunEnd(ms, k - 1) = RunEnd(ms, k)
       /\ ~IsTool(ms[k]) => RunEnd(ms, k - 1) = k - 1
       /\ ~IsTool(ms[k]) /\ ms[k].role # "asst" => RunEnd(ms, k) = k

LEMMA OwnedRuns ==
  ASSUME NEW ms \in Seq(Msgs), Owned(ms)
  PROVE  Runs(ms)
<1> DEFINE N == Len(ms)
           E(k) == RunEnd(ms, k)
<1>3. N \in Nat
  OBVIOUS
<1>4. \A k \in 0..N : /\ E(k) \in k..N /\ \A j \in (k + 1)..E(k) : IsTool(ms[j])
                      /\ E(k) < N => ~IsTool(ms[E(k) + 1])
  BY RunEndFacts
<1>5. ASSUME NEW k \in 1..N, ~IsTool(ms[k]), ms[k].role # "asst" PROVE E(k) = k
  <2>1. k < N => ~IsTool(ms[k + 1])
    <3>1. ASSUME k < N, IsTool(ms[k + 1]) PROVE FALSE
      <4>1. k + 1 \in 1..N /\ InRun(ms, k, k + 1)
        BY <1>3, <3>1 DEF InRun
      <4> QED
        BY <1>5, <4>1, RunOwner
    <3> QED
      BY <3>1
  <2>2. k \in 0..N /\ k \in k..N /\ (k + 1)..k = {}
    BY <1>3
  <2> QED
    BY <2>1, <2>2, RunEndUnique
<1>6. ASSUME NEW k \in 1..N, ~IsTool(ms[k]) PROVE E(k - 1) = k - 1
  <2>1. k - 1 \in 0..N /\ k - 1 \in (k - 1)..N /\ (k - 1) + 1 = k /\ k..(k - 1) = {}
    BY <1>3
  <2> QED
    BY <1>6, <2>1, RunEndUnique
<1>7. ASSUME NEW k \in 1..N, IsTool(ms[k]) PROVE E(k - 1) = E(k)
  <2>1. k - 1 \in 0..N /\ k \in 0..N /\ (k - 1) + 1 = k
    BY <1>3
  <2>2. /\ E(k) \in k..N /\ \A j \in (k + 1)..E(k) : IsTool(ms[j])
        /\ E(k) < N => ~IsTool(ms[E(k) + 1])
    BY <1>4, <2>1
  <2> HIDE DEF E
  <2>3. E(k) \in (k - 1)..N
    BY <1>3, <2>2
  <2>4. \A j \in k..E(k) : IsTool(ms[j])
    <3>1. \A j \in k..E(k) : j = k \/ j \in (k + 1)..E(k)
      BY <1>3, <2>2
    <3> QED
      BY <1>7, <2>2, <3>1
  <2>5. RunEnd(ms, k - 1) = E(k)
    BY <2>1, <2>2, <2>3, <2>4, RunEndUnique
  <2> QED
    BY <2>5 DEF E
<1>8. E(0) = 0
  <2>1. 0 < N => ~IsTool(ms[1])
    <3>1. ASSUME 0 < N, IsTool(ms[1]) PROVE FALSE
      <4>1. 1 \in 1..N
        BY <1>3, <3>1
      <4>2. PICK h \in 1..N : InRun(ms, h, 1)
        BY <3>1, <4>1 DEF Owned, AnswersOne
      <4> QED
        BY <4>2 DEF InRun
    <3> QED
      BY <3>1
  <2>2. 0 \in 0..N /\ (0 + 1)..0 = {} /\ 0 + 1 = 1
    BY <1>3
  <2> QED
    BY <2>1, <2>2, RunEndUnique
<1>9. E(N) = N
  BY <1>3, <1>4
<1>10. \A k \in 1..N : k \in 0..N
  BY <1>3
<1> QED
  BY <1>4, <1>5, <1>6, <1>7, <1>8, <1>9, <1>10 DEF Runs

(* The repair goes group by group. *)
LEMMA RepairSteps ==
  ASSUME NEW ms \in Seq(Msgs)
  PROVE  \E F \in [0..Len(ms) -> Seq(Msgs)] :
           /\ F[0] = <<>> /\ F[Len(ms)] = RepairToolPairs(ms)
           /\ \A k \in 1..Len(ms) : F[k] = F[k - 1] \o GroupOf(ms, k)
<1> DEFINE gs == GroupsOf(ms)
           N == Len(ms)
<1>1. /\ gs \in Seq(Seq(Msgs)) /\ Len(gs) = N /\ RepairToolPairs(ms) = FlattenSeq(gs)
      /\ \A i \in 1..N : gs[i] = GroupOf(ms, i)
  BY GroupTypes
<1> HIDE DEF gs
<1>2. PICK F \in [0..N -> Seq(Msgs)] : Concatenates(gs, F)
  BY <1>1, FlattenSteps
<1>3. F[0] = <<>> /\ F[N] = FlattenSeq(gs) /\ \A k \in 1..N : F[k] = F[k - 1] \o gs[k]
  BY <1>1, <1>2 DEF Concatenates
<1> HIDE DEF N
<1>4. ASSUME NEW k \in 1..N PROVE F[k] = F[k - 1] \o GroupOf(ms, k)
  <2>1. gs[k] = GroupOf(ms, k)
    BY <1>1
  <2>2. F[k] = F[k - 1] \o gs[k]
    BY <1>3
  <2> QED
    BY <2>1, <2>2
<1> QED
  BY <1>1, <1>3, <1>4 DEF N

(* The repair leaves a paired transcript as it is. *)
LEMMA RepairIdentity ==
  ASSUME NEW ms \in Seq(Msgs), Paired(ms)
  PROVE  RepairToolPairs(ms) = ms
<1> DEFINE N == Len(ms)
           E(k) == RunEnd(ms, k)
<1>1. PICK F \in [0..N -> Seq(Msgs)] :
        /\ F[0] = <<>> /\ F[N] = RepairToolPairs(ms)
        /\ \A k \in 1..N : F[k] = F[k - 1] \o GroupOf(ms, k)
  BY RepairSteps
<1>3. N \in Nat /\ F[0] = <<>> /\ F[N] = RepairToolPairs(ms)
      /\ \A k \in 1..N : F[k] = F[k - 1] \o GroupOf(ms, k)
  BY <1>1
<1>4. Runs(ms)
  BY OwnedRuns DEF Paired
<1>5. \A k \in 1..N : ~IsTool(ms[k]) /\ ms[k].role # "asst" => E(k) = k
  BY <1>4 DEF Runs
<1>6. \A k \in 1..N : E(k) \in k..N /\ (~IsTool(ms[k]) => E(k - 1) = k - 1)
  BY <1>4 DEF Runs
<1>7. \A k \in 1..N : IsTool(ms[k]) => E(k - 1) = E(k)
  BY <1>4 DEF Runs
<1> DEFINE K == {k \in 0..N : F[k] = SubSeq(ms, 1, E(k))}
<1>8. 0 \in K
  <2>1. E(0) = 0
    BY <1>4 DEF Runs
  <2> HIDE DEF E
  <2>2. SubSeq(ms, 1, 0) = <<>>
    OBVIOUS
  <2> QED
    BY <1>3, <2>1, <2>2
<1>9. ASSUME NEW k \in 1..N, k - 1 \in K PROVE k \in K
  <2>0. k \in 0..N /\ k - 1 \in 0..N /\ ms[k] \in Msgs
    BY <1>3
  <2>1. F[k] = SubSeq(ms, 1, E(k - 1)) \o GroupOf(ms, k)
    <3> HIDE DEF E
    <3> QED
      BY <1>3, <1>9
  <2>2. CASE IsTool(ms[k])
    <3>1. E(k - 1) = E(k) /\ GroupOf(ms, k) = <<>> /\ E(k) \in k..N
      BY <1>6, <1>7, <2>0, <2>2 DEF GroupOf
    <3> HIDE DEF E
    <3>2. SubSeq(ms, 1, E(k)) \in Seq(Msgs)
      BY <1>3, <3>1
    <3>3. F[k] = SubSeq(ms, 1, E(k))
      BY <2>1, <3>1, <3>2, ConcatNone
    <3> QED
      BY <2>0, <3>3
  <2>3. CASE ~IsTool(ms[k]) /\ ms[k].role # "asst"
    <3>1. E(k - 1) = k - 1 /\ E(k) = k /\ GroupOf(ms, k) = <<ms[k]>>
      BY <1>5, <1>6, <2>3 DEF GroupOf
    <3> HIDE DEF E
    <3>2. SubSeq(ms, 1, k - 1) \o <<ms[k]>> = SubSeq(ms, 1, k)
      OBVIOUS
    <3> QED
      BY <2>0, <2>1, <3>1, <3>2
  <2>4. CASE ms[k].role = "asst"
    <3>0. ~IsTool(ms[k])
      BY <2>4, RoleFacts
    <3>1. E(k - 1) = k - 1 /\ E(k) \in k..N
      BY <1>6, <2>0, <3>0
    <3>2. GroupOf(ms, k) = <<ms[k]>> \o SubSeq(ms, k + 1, E(k))
      BY <2>4, <3>0, PairedAnswers DEF GroupOf, RunOf
    <3> HIDE DEF E
    <3>3. SubSeq(ms, 1, k - 1) \o (<<ms[k]>> \o SubSeq(ms, k + 1, E(k))) = SubSeq(ms, 1, E(k))
      <4> DEFINE e == E(k)
      <4>1. e \in Nat /\ k <= e /\ e <= N
        BY <1>3, <3>1
      <4> HIDE DEF e
      <4>2. SubSeq(ms, 1, k - 1) \o (<<ms[k]>> \o SubSeq(ms, k + 1, e)) = SubSeq(ms, 1, e)
        BY <1>3, <4>1, SubSeqJoin
      <4> QED
        BY <4>2 DEF e
    <3> QED
      BY <2>0, <2>1, <3>1, <3>2, <3>3
  <2> QED
    BY <2>2, <2>3, <2>4
<1>10. N \in K
  <2> HIDE DEF K, N
  <2>1. \A k \in 0..N : k \in K
    BY <1>3, <1>8, <1>9, IntervalInduction
  <2> QED
    BY <1>3, <2>1
<1>11. F[N] = SubSeq(ms, 1, E(N))
  <2> HIDE DEF E
  <2> QED
    BY <1>10
<1>12. E(N) = N
  BY <1>4 DEF Runs
<1>13. SubSeq(ms, 1, N) = ms
  OBVIOUS
<1> QED
  BY <1>3, <1>11, <1>12, <1>13

(* The repair takes nothing away where no result is astray. *)
LEMMA RepairGrows ==
  ASSUME NEW ms \in Seq(Msgs), Owned(ms)
  PROVE  Len(RepairToolPairs(ms)) \in Nat /\ Len(ms) <= Len(RepairToolPairs(ms))
<1> DEFINE N == Len(ms)
           E(k) == RunEnd(ms, k)
<1>1. PICK F \in [0..N -> Seq(Msgs)] :
        /\ F[0] = <<>> /\ F[N] = RepairToolPairs(ms)
        /\ \A k \in 1..N : F[k] = F[k - 1] \o GroupOf(ms, k)
  BY RepairSteps
<1>2. Runs(ms) /\ N \in Nat
  BY OwnedRuns
<1>3. /\ E(0) = 0 /\ E(N) = N
      /\ \A k \in 1..N : E(k) \in k..N
      /\ \A k \in 1..N : IsTool(ms[k]) => E(k - 1) = E(k)
      /\ \A k \in 1..N : ~IsTool(ms[k]) => E(k - 1) = k - 1
      /\ \A k \in 1..N : ~IsTool(ms[k]) /\ ms[k].role # "asst" => E(k) = k
  BY <1>2 DEF Runs
<1>4. ASSUME NEW k \in 1..N, ms[k].role = "asst"
      PROVE  Len(Answers(ms, k)) \in Nat /\ Len(Answers(ms, k)) >= E(k) - k
  <2> DEFINE r == RunOf(ms, k)
             f == FoundFor(ms, k)
  <2>1. r \in Seq(Msgs) /\ Len(r) = E(k) - k
    BY RunFacts
  <2>2. Answers(ms, k) = r \o f
    BY <1>4, AnswersParts, OwnedMine
  <2>3. f \in Seq(Msgs)
    <3> DEFINE l == LostOf(ms, k)
    <3>1. l \in Seq(Calls)
      BY LostFacts
    <3> HIDE DEF l
    <3>2. Len(l) \in Nat /\ DOMAIN l = 1..Len(l) /\ \A j \in 1..Len(l) : l[j] \in Calls
      BY <3>1
    <3>3. \A j \in 1..Len(l) : FoundOf(ms, k, l[j]) \in Msgs
      BY <3>2, FoundFacts
    <3>4. f = [j \in 1..Len(l) |-> FoundOf(ms, k, l[j])]
      BY <3>2 DEF FoundFor, l
    <3> HIDE DEF f
    <3> QED
      BY <3>2, <3>3, <3>4
  <2>0. r \in Seq(Msgs)
    BY <2>1
  <2> HIDE DEF r, f, E
  <2>4. Len(r \o f) = Len(r) + Len(f) /\ Len(f) \in Nat /\ Len(r) \in Nat
    BY <2>0, <2>3
  <2> QED
    BY <2>1, <2>2, <2>4
<1> HIDE DEF E
<1> DEFINE K == {k \in 0..N : Len(F[k]) >= E(k)}
<1>5. 0 \in K
  BY <1>1, <1>2, <1>3
<1>6. ASSUME NEW k \in 1..N, k - 1 \in K PROVE k \in K
  <2>0. k \in 0..N /\ k - 1 \in 0..N /\ ms[k] \in Msgs
    BY <1>2
  <2>1. /\ F[k - 1] \in Seq(Msgs) /\ Len(F[k - 1]) \in Nat /\ Len(F[k - 1]) >= E(k - 1)
        /\ GroupOf(ms, k) \in Seq(Msgs) /\ F[k] = F[k - 1] \o GroupOf(ms, k)
    <3>1. F[k - 1] \in Seq(Msgs) /\ Len(F[k - 1]) >= E(k - 1)
      BY <1>6, <2>0
    <3>2. GroupOf(ms, k) \in Seq(Msgs)
      BY GroupTypes
    <3> QED
      BY <1>1, <3>1, <3>2
  <2>2. Len(F[k]) = Len(F[k - 1]) + Len(GroupOf(ms, k)) /\ Len(GroupOf(ms, k)) \in Nat
    BY <2>1
  <2>3. E(k) \in Nat /\ E(k) >= k
    BY <1>2, <1>3
  <2>4. CASE IsTool(ms[k])
    <3>1. E(k - 1) = E(k)
      BY <1>3, <2>4
    <3> QED
      BY <2>0, <2>1, <2>2, <2>3, <3>1
  <2>5. CASE ~IsTool(ms[k]) /\ ms[k].role # "asst"
    <3>1. E(k - 1) = k - 1 /\ E(k) = k /\ GroupOf(ms, k) = <<ms[k]>>
      BY <1>3, <2>5 DEF GroupOf
    <3>2. Len(GroupOf(ms, k)) = 1
      BY <3>1
    <3> QED
      BY <2>0, <2>1, <2>2, <3>1, <3>2
  <2>6. CASE ms[k].role = "asst"
    <3>0. ~IsTool(ms[k])
      BY <2>6, RoleFacts
    <3>1. E(k - 1) = k - 1 /\ GroupOf(ms, k) = <<ms[k]>> \o Answers(ms, k)
      BY <1>3, <2>6, <3>0 DEF GroupOf
    <3>2. Answers(ms, k) \in Seq(Msgs)
      BY AnswersFacts
    <3>3. Len(GroupOf(ms, k)) = 1 + Len(Answers(ms, k))
      BY <2>0, <3>1, <3>2
    <3>4. Len(Answers(ms, k)) \in Nat /\ Len(Answers(ms, k)) >= E(k) - k
      BY <1>4, <2>6
    <3> QED
      BY <2>0, <2>1, <2>2, <2>3, <3>1, <3>3, <3>4
  <2> QED
    BY <2>4, <2>5, <2>6
<1>7. N \in K
  <2> HIDE DEF K, N
  <2>1. \A k \in 0..N : k \in K
    BY <1>2, <1>5, <1>6, IntervalInduction
  <2> QED
    BY <1>2, <2>1
<1>8. F[N] \in Seq(Msgs) /\ Len(F[N]) \in Nat /\ Len(F[N]) >= E(N)
  BY <1>2, <1>7
<1> QED
  BY <1>1, <1>3, <1>8

-----------------------------------------------------------------------------
(* No call is made twice and none is answered twice. *)
Fit(ms) ==
  /\ \A i \in 1..Len(ms) : ms[i].role = "asst" => IsInjective(ms[i].calls)
  /\ \A i, j \in 1..Len(ms) : ms[i].role = "asst" /\ ms[j].role = "asst" /\ i # j =>
       ToSet(ms[i].calls) \cap ToSet(ms[j].calls) = {}
  /\ \A i, j \in 1..Len(ms) : IsTool(ms[i]) /\ IsTool(ms[j]) /\ i # j => ms[i].id # ms[j].id

Calling(ms, c) == \E m \in ToSet(ms) : m.role = "asst" /\ c \in ToSet(m.calls)
Answering(ms, c) == \E m \in ToSet(ms) : IsTool(m) /\ m.id = c

LEMMA MentionsConcat ==
  ASSUME NEW S, NEW s \in Seq(S), NEW t \in Seq(S), NEW c
  PROVE  /\ Calling(s \o t, c) <=> Calling(s, c) \/ Calling(t, c)
         /\ Answering(s \o t, c) <=> Answering(s, c) \/ Answering(t, c)
<1>1. ToSet(s \o t) = ToSet(s) \cup ToSet(t)
  BY InConcat
<1> QED
  BY <1>1 DEF Calling, Answering

LEMMA FitConcat ==
  ASSUME NEW S, NEW s \in Seq(S), NEW t \in Seq(S), Fit(s), Fit(t),
         \A c : ~(Calling(s, c) /\ Calling(t, c)), \A c : ~(Answering(s, c) /\ Answering(t, c))
  PROVE  Fit(s \o t)
<1> DEFINE u == s \o t
           n == Len(s)
<1>0. Joins(u, s, t)
  BY ConcatAt
<1> HIDE DEF u
<1>1. /\ n \in Nat /\ Len(t) \in Nat /\ Len(u) = n + Len(t)
      /\ \A p \in 1..n : p \in 1..Len(u) /\ u[p] = s[p]
      /\ \A p \in 1..Len(t) : n + p \in 1..Len(u) /\ u[n + p] = t[p]
      /\ \A p \in 1..Len(u) : p \in 1..n \/ (\E q \in 1..Len(t) : p = n + q)
  BY <1>0 DEF Joins
<1>a. /\ \A p \in 1..n : s[p] \in ToSet(s)
      /\ \A p \in 1..Len(t) : t[p] \in ToSet(t)
  BY InSeq
<1> HIDE DEF n
<1>2. ASSUME NEW p \in 1..Len(u), u[p].role = "asst" PROVE IsInjective(u[p].calls)
  <2>1. CASE p \in 1..n
    BY <1>1, <1>2, <2>1 DEF Fit, n
  <2>2. ASSUME NEW q \in 1..Len(t), p = n + q PROVE IsInjective(u[p].calls)
    BY <1>1, <1>2, <2>2 DEF Fit
  <2> QED
    BY <1>1, <2>1, <2>2
<1>3. ASSUME NEW p \in 1..n, NEW q \in 1..Len(t)
      PROVE  /\ ~(IsTool(s[p]) /\ IsTool(t[q]) /\ s[p].id = t[q].id)
             /\ s[p].role = "asst" /\ t[q].role = "asst" =>
                  ToSet(s[p].calls) \cap ToSet(t[q].calls) = {}
  <2>1. s[p] \in ToSet(s) /\ t[q] \in ToSet(t)
    BY <1>a
  <2>2. ~(IsTool(s[p]) /\ IsTool(t[q]) /\ s[p].id = t[q].id)
    BY <2>1 DEF Answering
  <2>3. ASSUME s[p].role = "asst", t[q].role = "asst", NEW c \in ToSet(s[p].calls) \cap ToSet(t[q].calls)
        PROVE  FALSE
    <3>1. Calling(s, c) /\ Calling(t, c)
      BY <2>1, <2>3 DEF Calling
    <3> QED
      BY <3>1
  <2> QED
    BY <2>2, <2>3
<1>4. ASSUME NEW p \in 1..Len(u), NEW r \in 1..Len(u), p # r
      PROVE  /\ u[p].role = "asst" /\ u[r].role = "asst" =>
                  ToSet(u[p].calls) \cap ToSet(u[r].calls) = {}
             /\ IsTool(u[p]) /\ IsTool(u[r]) => u[p].id # u[r].id
  <2>1. CASE p \in 1..n /\ r \in 1..n
    <3>1. u[p] = s[p] /\ u[r] = s[r] /\ p \in 1..Len(s) /\ r \in 1..Len(s)
      BY <1>1, <2>1 DEF n
    <3> QED
      BY <1>4, <3>1 DEF Fit
  <2>2. ASSUME p \in 1..n, NEW q \in 1..Len(t), r = n + q
        PROVE  /\ u[p].role = "asst" /\ u[r].role = "asst" =>
                    ToSet(u[p].calls) \cap ToSet(u[r].calls) = {}
               /\ IsTool(u[p]) /\ IsTool(u[r]) => u[p].id # u[r].id
    <3>1. u[p] = s[p] /\ u[r] = t[q]
      BY <1>1, <2>2
    <3> QED
      BY <1>3, <2>2, <3>1
  <2>3. ASSUME r \in 1..n, NEW q \in 1..Len(t), p = n + q
        PROVE  /\ u[p].role = "asst" /\ u[r].role = "asst" =>
                    ToSet(u[p].calls) \cap ToSet(u[r].calls) = {}
               /\ IsTool(u[p]) /\ IsTool(u[r]) => u[p].id # u[r].id
    <3>1. u[r] = s[r] /\ u[p] = t[q]
      BY <1>1, <2>3
    <3>2. /\ ~(IsTool(s[r]) /\ IsTool(t[q]) /\ s[r].id = t[q].id)
          /\ s[r].role = "asst" /\ t[q].role = "asst" =>
               ToSet(s[r].calls) \cap ToSet(t[q].calls) = {}
      BY <1>3, <2>3
    <3> QED
      BY <3>1, <3>2
  <2>4. ASSUME NEW q1 \in 1..Len(t), p = n + q1, NEW q2 \in 1..Len(t), r = n + q2
        PROVE  /\ u[p].role = "asst" /\ u[r].role = "asst" =>
                    ToSet(u[p].calls) \cap ToSet(u[r].calls) = {}
               /\ IsTool(u[p]) /\ IsTool(u[r]) => u[p].id # u[r].id
    <3>1. u[p] = t[q1] /\ u[r] = t[q2] /\ q1 # q2
      BY <1>1, <1>4, <2>4
    <3> QED
      BY <3>1 DEF Fit
  <2> QED
    BY <1>1, <2>1, <2>2, <2>3, <2>4
<1>5. Fit(u)
  BY <1>2, <1>4 DEF Fit
<1> QED
  BY <1>5 DEF u

(* As many results as calls: then the transcript is one providers accept. *)
LEMMA FitRun ==
  ASSUME NEW ms \in Seq(Msgs), Paired(ms), Fit(ms), NEW i \in 1..Len(ms), ms[i].role = "asst"
  PROVE  /\ RunEnd(ms, i) = i + Len(ms[i].calls)
         /\ {ms[j].id : j \in (i + 1)..RunEnd(ms, i)} = ToSet(ms[i].calls)
<1> DEFINE cs == ms[i].calls
           n == Len(cs)
           e == RunEnd(ms, i)
           R == (i + 1)..e
           f == [j \in R |-> ms[j].id]
<1>1. i \in 0..Len(ms) /\ Len(ms) \in Nat /\ i \in Nat /\ ~IsTool(ms[i])
  BY RoleFacts
<1>2. e \in i..Len(ms) /\ (\A j \in R : IsTool(ms[j])) /\ (e < Len(ms) => ~IsTool(ms[e + 1]))
  BY <1>1, RunEndFacts
<1>3. cs \in Seq(Calls) /\ IsInjective(cs)
  BY LostFacts DEF Fit
<1> HIDE DEF cs, e
<1>4. n \in Nat /\ cs \in [1..n -> Calls] /\ \A c : c \in ToSet(cs) <=> \E k \in 1..n : cs[k] = c
  BY <1>3, InSeq
<1>5. ASSUME NEW j \in R PROVE j \in 1..Len(ms) /\ InRun(ms, i, j) /\ ms[j].id \in ToSet(cs)
  <2>1. j \in 1..Len(ms) /\ i < j /\ \A k \in (i + 1)..j : k \in R
    BY <1>1, <1>2
  <2>2. InRun(ms, i, j)
    BY <1>2, <2>1 DEF InRun
  <2>3. Owned(ms)
    BY DEF Paired
  <2> QED
    BY <1>1, <2>1, <2>2, <2>3, RunOwner DEF cs
<1>6. ASSUME NEW c \in ToSet(cs) PROVE \E j \in R : ms[j].id = c
  <2>1. PICK j \in 1..Len(ms) : InRun(ms, i, j) /\ ms[j].id = c
    BY DEF Paired, Owned, HasAnswer, cs
  <2>2. j <= e
    <3>1. j > e => e + 1 \in (i + 1)..j /\ e < Len(ms)
      BY <1>1, <1>2
    <3> QED
      BY <1>1, <1>2, <2>1, <3>1 DEF InRun
  <2>3. j \in R
    BY <1>1, <1>2, <2>1, <2>2 DEF InRun
  <2> QED
    BY <2>1, <2>3
<1>7. f \in Bijection(R, ToSet(cs))
  <2>1. f \in [R -> ToSet(cs)]
    BY <1>5
  <2>2. \A a, b \in R : f[a] = f[b] => a = b
    <3>1. \A a, b \in R : a # b => ms[a].id # ms[b].id
      BY <1>2, <1>5 DEF Fit
    <3> QED
      BY <3>1
  <2>3. \A c \in ToSet(cs) : \E j \in R : f[j] = c
    BY <1>6
  <2> HIDE DEF f, R
  <2>4. f \in Injection(R, ToSet(cs))
    BY <2>1, <2>2 DEF Injection, IsInjective
  <2>5. f \in Surjection(R, ToSet(cs))
    BY <2>1, <2>3 DEF Surjection
  <2> QED
    BY <2>4, <2>5 DEF Bijection
<1>8. cs \in Bijection(1..n, ToSet(cs))
  <2>1. cs \in [1..n -> ToSet(cs)]
    BY <1>4
  <2>2. \A a, b \in 1..n : cs[a] = cs[b] => a = b
    BY <1>3, <1>4 DEF IsInjective
  <2>3. \A c \in ToSet(cs) : \E k \in 1..n : cs[k] = c
    BY <1>4
  <2> HIDE DEF n
  <2>4. cs \in Injection(1..n, ToSet(cs))
    BY <2>1, <2>2 DEF Injection, IsInjective
  <2>5. cs \in Surjection(1..n, ToSet(cs))
    BY <2>1, <2>3 DEF Surjection
  <2> QED
    BY <2>4, <2>5 DEF Bijection
<1>9. e - i = n
  <2>1. IsFiniteSet(R) /\ Cardinality(R) = IF i + 1 > e THEN 0 ELSE e - (i + 1) + 1
    BY <1>1, <1>2, FS_Interval
  <2>2. IsFiniteSet(1..n) /\ Cardinality(1..n) = IF 1 > n THEN 0 ELSE n - 1 + 1
    <3>1. 1 \in Int /\ n \in Int
      BY <1>4
    <3> HIDE DEF n
    <3> QED
      BY <3>1, FS_Interval
  <2> HIDE DEF R, f
  <2>3. ExistsBijection(R, ToSet(cs)) /\ ExistsBijection(1..n, ToSet(cs))
    BY <1>7, <1>8 DEF ExistsBijection
  <2>4. Cardinality(ToSet(cs)) = Cardinality(R)
    BY <2>1, <2>3, FS_Bijection
  <2>5. Cardinality(ToSet(cs)) = Cardinality(1..n)
    BY <2>2, <2>3, FS_Bijection
  <2>6. Cardinality(R) = e - i
    BY <1>1, <1>2, <2>1
  <2>7. Cardinality(1..n) = n
    BY <1>4, <2>2
  <2> QED
    BY <2>4, <2>5, <2>6, <2>7
<1>10. e = i + n
  BY <1>1, <1>2, <1>4, <1>9
<1>11. {ms[j].id : j \in R} = ToSet(cs)
  BY <1>5, <1>6
<1> QED
  BY <1>10, <1>11 DEF cs, e

LEMMA FitIsWellFormed ==
  ASSUME NEW ms \in Seq(Msgs), Paired(ms), Fit(ms)
  PROVE  WellFormed(ms)
<1>1. ASSUME NEW i \in 1..Len(ms), ms[i].role = "asst"
      PROVE  /\ i + Len(ms[i].calls) <= Len(ms)
             /\ \A j \in (i + 1)..(i + Len(ms[i].calls)) : IsTool(ms[j])
             /\ {ms[j].id : j \in (i + 1)..(i + Len(ms[i].calls))} = ToSet(ms[i].calls)
  <2>1. i \in 0..Len(ms) /\ Len(ms) \in Nat
    OBVIOUS
  <2>2. RunEnd(ms, i) \in i..Len(ms) /\ \A j \in (i + 1)..RunEnd(ms, i) : IsTool(ms[j])
    BY <2>1, RunEndFacts
  <2>3. /\ RunEnd(ms, i) = i + Len(ms[i].calls)
        /\ {ms[j].id : j \in (i + 1)..RunEnd(ms, i)} = ToSet(ms[i].calls)
    BY <1>1, FitRun
  <2>4. RunEnd(ms, i) <= Len(ms)
    BY <2>1, <2>2
  <2> QED
    BY <2>2, <2>3, <2>4
<1>2. ASSUME NEW j \in 1..Len(ms), IsTool(ms[j])
      PROVE  \E a \in 1..(j - 1) : ms[a].role = "asst" /\ j <= a + Len(ms[a].calls)
  <2>1. PICK a \in 1..Len(ms) : ms[a].role = "asst" /\ InRun(ms, a, j)
    BY <1>2 DEF Paired, Owned, AnswersOne
  <2>2. a \in 1..(j - 1) /\ a \in 0..Len(ms) /\ Len(ms) \in Nat
    BY <2>1 DEF InRun
  <2>3. RunEnd(ms, a) \in a..Len(ms) /\ (RunEnd(ms, a) < Len(ms) => ~IsTool(ms[RunEnd(ms, a) + 1]))
    BY <2>2, RunEndFacts
  <2>4. RunEnd(ms, a) = a + Len(ms[a].calls)
    BY <2>1, FitRun
  <2>5. j <= RunEnd(ms, a)
    <3>1. j > RunEnd(ms, a) => RunEnd(ms, a) + 1 \in (a + 1)..j /\ RunEnd(ms, a) < Len(ms)
      BY <2>2, <2>3
    <3> QED
      BY <2>1, <2>2, <2>3, <3>1 DEF InRun
  <2> QED
    BY <2>1, <2>2, <2>4, <2>5
<1>3. DOMAIN ms = 1..Len(ms)
  OBVIOUS
<1> QED
  BY <1>1, <1>2, <1>3 DEF WellFormed

(* The answers of one message have different ids. *)
LEMMA AnswersApart ==
  ASSUME NEW ms \in Seq(Msgs), Fit(ms), NEW i \in 1..Len(ms), ms[i].role = "asst"
  PROVE  \A p, q \in 1..Len(Answers(ms, i)) : Answers(ms, i)[p].id = Answers(ms, i)[q].id => p = q
<1> DEFINE mine == MineOf(ms, i)
           lost == LostOf(ms, i)
           found == FoundFor(ms, i)
           run == RunOf(ms, i)
           A == Answers(ms, i)
<1>1. /\ run \in Seq(Msgs)
      /\ \A k \in 1..Len(run) : /\ i + k \in 1..Len(ms)
                                /\ run[k] = ms[i + k] /\ IsTool(ms[i + k])
  BY RunFacts
<1>2. /\ mine \in Seq(Msgs)
      /\ \A m : m \in ToSet(mine) <=> m \in ToSet(run) /\ m.id \in ToSet(ms[i].calls)
  BY MineFacts
<1>3. /\ lost \in Seq(Calls) /\ ms[i].calls \in Seq(Calls)
      /\ \A c : c \in ToSet(lost) <=> c \in ToSet(ms[i].calls) /\ \A m \in ToSet(run) : m.id # c
  BY LostFacts
<1>4. mine = Picked(run, {m \in ToSet(run) : m.id \in ToSet(ms[i].calls)})
  BY DEF MineOf
<1>5. \E Q : lost = Picked(ms[i].calls, Q)
  BY DEF LostOf
<1>6. found = [k \in DOMAIN lost |-> FoundOf(ms, i, lost[k])]
  BY DEF FoundFor
<1>7. \A c \in Calls : FoundOf(ms, i, c) \in Msgs /\ FoundOf(ms, i, c).id = c
  BY FoundFacts
<1>8. A = mine \o found
  BY AnswersParts
<1> HIDE DEF mine, lost, found, run, A
<1>9. IsInjective(lost)
  BY <1>3, <1>5, PickedInjective DEF Fit
<1>10. ASSUME NEW k \in 1..Len(run), NEW l \in 1..Len(run), run[k].id = run[l].id PROVE k = l
  <2>1. i + k \in 1..Len(ms) /\ i + l \in 1..Len(ms) /\ ms[i + k].id = ms[i + l].id
        /\ IsTool(ms[i + k]) /\ IsTool(ms[i + l])
    BY <1>1, <1>10
  <2>2. i + k = i + l
    BY <2>1 DEF Fit
  <2> QED
    BY <2>2
<1>11. IsInjective(mine)
  <2>1. DOMAIN run = 1..Len(run)
    BY <1>1
  <2>2. IsInjective(run)
    BY <1>10, <2>1 DEF IsInjective
  <2> QED
    BY <1>1, <1>4, <2>2, PickedInjective
<1>12. ASSUME NEW p \in 1..Len(mine), NEW q \in 1..Len(mine), mine[p].id = mine[q].id PROVE p = q
  <2>1. mine[p] \in ToSet(run) /\ mine[q] \in ToSet(run)
    BY <1>2, InSeq
  <2>a. \A x : x \in ToSet(run) <=> \E k \in 1..Len(run) : run[k] = x
    BY <1>1, InSeq
  <2>2. PICK k \in 1..Len(run) : run[k] = mine[p]
    BY <2>a, <2>1
  <2>3. PICK l \in 1..Len(run) : run[l] = mine[q]
    BY <2>a, <2>1
  <2>4. k = l
    BY <1>10, <1>12, <2>2, <2>3
  <2>5. mine[p] = mine[q]
    BY <2>2, <2>3, <2>4
  <2>6. DOMAIN mine = 1..Len(mine)
    BY <1>2
  <2> QED
    BY <1>11, <2>5, <2>6 DEF IsInjective
<1>13. /\ found \in Seq(Msgs) /\ Len(found) = Len(lost) /\ DOMAIN lost = 1..Len(lost)
       /\ \A k \in 1..Len(lost) : found[k].id = lost[k]
  <2>1. DOMAIN lost = 1..Len(lost) /\ Len(lost) \in Nat /\ \A k \in 1..Len(lost) : lost[k] \in Calls
    BY <1>3
  <2>2. found \in [1..Len(lost) -> Msgs]
    BY <1>6, <1>7, <2>1
  <2> QED
    BY <1>6, <1>7, <2>1, <2>2
<1>14. ASSUME NEW p \in 1..Len(found), NEW q \in 1..Len(found), found[p].id = found[q].id PROVE p = q
  BY <1>9, <1>13, <1>14 DEF IsInjective
<1>15. ASSUME NEW p \in 1..Len(mine), NEW q \in 1..Len(found) PROVE mine[p].id # found[q].id
  <2>1. mine[p] \in ToSet(run)
    BY <1>2, InSeq
  <2>2. found[q].id = lost[q] /\ lost[q] \in ToSet(lost)
    BY <1>3, <1>13, InSeq
  <2> QED
    BY <1>3, <2>1, <2>2
<1>16. Joins(A, mine, found)
  BY <1>2, <1>8, <1>13, ConcatAt
<1>17. ASSUME NEW p \in 1..Len(A), NEW q \in 1..Len(A), A[p].id = A[q].id PROVE p = q
  <2> DEFINE n == Len(mine)
  <2>1. /\ \A r \in 1..n : A[r] = mine[r]
        /\ \A r \in 1..Len(found) : A[n + r] = found[r]
        /\ \A r \in 1..Len(A) : r \in 1..n \/ (\E s \in 1..Len(found) : r = n + s)
    BY <1>16 DEF Joins
  <2> HIDE DEF n
  <2>2. CASE p \in 1..n /\ q \in 1..n
    <3>1. mine[p].id = mine[q].id
      BY <1>17, <2>1, <2>2
    <3> QED
      BY <1>12, <2>2, <3>1 DEF n
  <2>3. ASSUME p \in 1..n, NEW s \in 1..Len(found), q = n + s PROVE FALSE
    <3>1. A[p] = mine[p] /\ A[q] = found[s]
      BY <2>1, <2>3
    <3> QED
      BY <1>15, <1>17, <2>3, <3>1 DEF n
  <2>4. ASSUME q \in 1..n, NEW s \in 1..Len(found), p = n + s PROVE FALSE
    <3>1. A[q] = mine[q] /\ A[p] = found[s]
      BY <2>1, <2>4
    <3> QED
      BY <1>15, <1>17, <2>4, <3>1 DEF n
  <2>5. ASSUME NEW s \in 1..Len(found), q = n + s, NEW r \in 1..Len(found), p = n + r PROVE p = q
    <3>1. A[q] = found[s] /\ A[p] = found[r]
      BY <2>1, <2>5
    <3>2. r = s
      BY <1>14, <1>17, <3>1
    <3> QED
      BY <2>5, <3>2
  <2> QED
    BY <2>1, <2>2, <2>3, <2>4, <2>5
<1> QED
  BY <1>17 DEF A

(* What one message and its answers make and answer. *)
LEMMA GroupMentions ==
  ASSUME NEW ms \in Seq(Msgs), NEW i \in 1..Len(ms), NEW c,
         Calling(GroupOf(ms, i), c) \/ Answering(GroupOf(ms, i), c)
  PROVE  ms[i].role = "asst" /\ c \in ToSet(ms[i].calls)
<1> DEFINE a == Answers(ms, i)
<1>1. ms[i] \in Msgs
  OBVIOUS
<1>2. ToSet(<<>>) = {} /\ ToSet(<<ms[i]>>) = {ms[i]} /\ <<ms[i]>> \in Seq(Msgs)
  BY <1>1 DEF ToSet
<1>3. a \in Seq(Msgs) /\ \A m \in ToSet(a) : IsTool(m) /\ m.id \in ToSet(ms[i].calls)
  BY AnswersFacts
<1> HIDE DEF a
<1>4. CASE ms[i].role = "asst"
  <2>1. GroupOf(ms, i) = <<ms[i]>> \o a /\ ~IsTool(ms[i])
    BY <1>4, RoleFacts DEF GroupOf, a
  <2>2. ToSet(<<ms[i]>> \o a) = {ms[i]} \cup ToSet(a)
    BY <1>1, <1>3, InCons
  <2>3. PICK m \in {ms[i]} \cup ToSet(a) :
          (m.role = "asst" /\ c \in ToSet(m.calls)) \/ (IsTool(m) /\ m.id = c)
    BY <2>1, <2>2 DEF Calling, Answering
  <2> QED
    BY <1>3, <1>4, <2>1, <2>3, RoleFacts
<1>5. CASE ms[i].role # "asst"
  BY <1>2, <1>5 DEF GroupOf, Calling, Answering
<1> QED
  BY <1>4, <1>5

LEMMA GroupFit ==
  ASSUME NEW ms \in Seq(Msgs), Fit(ms), NEW i \in 1..Len(ms)
  PROVE  Fit(GroupOf(ms, i))
<1> DEFINE a == Answers(ms, i)
           g == GroupOf(ms, i)
<1>1. CASE ms[i].role = "asst"
  <2>1. a \in Seq(Msgs) /\ \A m \in ToSet(a) : IsTool(m)
    BY AnswersFacts
  <2>2. \A p, q \in 1..Len(a) : a[p].id = a[q].id => p = q
    BY <1>1, AnswersApart
  <2>3. g = <<ms[i]>> \o a
    BY <1>1, RoleFacts DEF GroupOf
  <2> HIDE DEF a, g
  <2>4. Len(a) \in Nat /\ Len(g) = Len(a) + 1 /\ g[1] = ms[i] /\ \A k \in 1..Len(a) : g[k + 1] = a[k]
    BY <2>1, <2>3
  <2>5. \A k \in 1..Len(a) : IsTool(a[k])
    BY <2>1, InSeq
  <2>6. ASSUME NEW k \in 1..Len(g), k # 1 PROVE k - 1 \in 1..Len(a) /\ g[k] = a[k - 1] /\ IsTool(g[k])
    <3>1. k - 1 \in 1..Len(a) /\ (k - 1) + 1 = k
      BY <2>4, <2>6
    <3> QED
      BY <2>4, <2>5, <3>1
  <2>7. IsInjective(ms[i].calls) /\ ~IsTool(ms[i])
    BY <1>1, RoleFacts DEF Fit
  <2>8. \A k \in 1..Len(g) : g[k].role = "asst" => k = 1
    BY <2>6, RoleFacts
  <2>9. ASSUME NEW k \in 1..Len(g), NEW l \in 1..Len(g), IsTool(g[k]), IsTool(g[l]), k # l
        PROVE  g[k].id # g[l].id
    <3>1. k # 1 /\ l # 1
      BY <2>4, <2>7, <2>9
    <3>2. g[k] = a[k - 1] /\ g[l] = a[l - 1] /\ k - 1 # l - 1 /\ k - 1 \in 1..Len(a) /\ l - 1 \in 1..Len(a)
      BY <2>6, <2>9, <3>1
    <3> QED
      BY <2>2, <3>2
  <2>10. Fit(g)
    BY <2>4, <2>7, <2>8, <2>9 DEF Fit
  <2> QED
    BY <2>10 DEF g
<1>2. CASE IsTool(ms[i])
  <2>1. g = <<>>
    BY <1>2 DEF GroupOf
  <2> QED
    BY <2>1 DEF Fit
<1>3. CASE ms[i].role # "asst" /\ ~IsTool(ms[i])
  <2>1. g = <<ms[i]>>
    BY <1>3 DEF GroupOf
  <2>2. Len(<<ms[i]>>) = 1 /\ <<ms[i]>>[1] = ms[i] /\ \A k \in 1..Len(<<ms[i]>>) : k = 1
    OBVIOUS
  <2> QED
    BY <1>3, <2>1, <2>2 DEF Fit
<1> QED
  BY <1>1, <1>2, <1>3

(* The repair keeps what was fit. *)
LEMMA RepairFit ==
  ASSUME NEW ms \in Seq(Msgs), Fit(ms)
  PROVE  Fit(RepairToolPairs(ms))
<1> DEFINE gs == GroupsOf(ms)
           N == Len(ms)
<1>1. /\ gs \in Seq(Seq(Msgs)) /\ Len(gs) = N /\ RepairToolPairs(ms) = FlattenSeq(gs)
      /\ \A i \in 1..N : gs[i] = GroupOf(ms, i) /\ GroupOf(ms, i) \in Seq(Msgs)
  BY GroupTypes
<1> HIDE DEF gs
<1>2. PICK F \in [0..N -> Seq(Msgs)] : Concatenates(gs, F)
  BY <1>1, FlattenSteps
<1>3. F[0] = <<>> /\ F[N] = FlattenSeq(gs) /\ \A k \in 1..N : F[k] = F[k - 1] \o gs[k]
  BY <1>1, <1>2 DEF Concatenates
<1>4. N \in Nat
  OBVIOUS
<1> DEFINE From(k, c) == \E j \in 1..k : ms[j].role = "asst" /\ c \in ToSet(ms[j].calls)
           Old(k) == \A c : Calling(F[k], c) \/ Answering(F[k], c) => From(k, c)
           K == {k \in 0..N : Fit(F[k]) /\ Old(k)}
<1>5. 0 \in K
  <2>1. Fit(<<>>) /\ \A c : ~Calling(<<>>, c) /\ ~Answering(<<>>, c)
    BY DEF Fit, Calling, Answering, ToSet
  <2> QED
    BY <1>3, <1>4, <2>1
<1>6. ASSUME NEW k \in 1..N, k - 1 \in K PROVE k \in K
  <2>a. k \in 0..N /\ k - 1 \in 0..N
    BY <1>4
  <2>1. k \in 0..N /\ k - 1 \in 0..N /\ F[k - 1] \in Seq(Msgs)
    BY <2>a, Zenon
  <2>2. GroupOf(ms, k) \in Seq(Msgs) /\ gs[k] = GroupOf(ms, k) /\ F[k] = F[k - 1] \o gs[k]
    BY <1>1, <1>3
  <2>3. Fit(F[k - 1]) /\ Old(k - 1)
    BY <1>6
  <2> DEFINE g == GroupOf(ms, k)
             s == F[k - 1]
  <2>4. Fit(g)
    BY GroupFit
  <2>5. \A c : Calling(g, c) \/ Answering(g, c) => ms[k].role = "asst" /\ c \in ToSet(ms[k].calls)
    BY GroupMentions
  <2>6. ASSUME NEW c, Calling(s, c) \/ Answering(s, c), Calling(g, c) \/ Answering(g, c) PROVE FALSE
    <3> HIDE DEF g
    <3>1. PICK j \in 1..(k - 1) : ms[j].role = "asst" /\ c \in ToSet(ms[j].calls)
      BY <2>3, <2>6
    <3>2. ms[k].role = "asst" /\ c \in ToSet(ms[k].calls)
      BY <2>5, <2>6
    <3>3. j \in 1..N /\ j # k
      BY <1>4
    <3> QED
      BY <3>1, <3>2, <3>3 DEF Fit
  <2> HIDE DEF g, s
  <2>7. Fit(s \o g)
    BY <2>1, <2>2, <2>3, <2>4, <2>6, FitConcat DEF s, g
  <2>8. ASSUME NEW c, Calling(s \o g, c) \/ Answering(s \o g, c) PROVE From(k, c)
    <3>1. Calling(s, c) \/ Calling(g, c) \/ Answering(s, c) \/ Answering(g, c)
      BY <2>1, <2>2, <2>8, MentionsConcat DEF s, g
    <3>2. CASE Calling(s, c) \/ Answering(s, c)
      <4>1. From(k - 1, c)
        BY <2>3, <3>2 DEF s
      <4>2. \A j \in 1..(k - 1) : j \in 1..k
        BY <1>4
      <4> QED
        BY <4>1, <4>2
    <3>3. CASE Calling(g, c) \/ Answering(g, c)
      <4>1. k \in 1..k
        BY <1>4
      <4> QED
        BY <2>5, <3>3, <4>1
    <3> QED
      BY <3>1, <3>2, <3>3
  <2>9. F[k] = s \o g
    BY <2>2 DEF s, g
  <2>10. Fit(F[k]) /\ Old(k)
    <3> HIDE DEF From
    <3> QED
      BY <2>7, <2>8, <2>9
  <2> HIDE DEF Old
  <2> QED
    BY <2>1, <2>10
<1>7. N \in K
  <2> HIDE DEF K, N
  <2>1. \A k \in 0..N : k \in K
    BY <1>4, <1>5, <1>6, IntervalInduction
  <2> QED
    BY <1>4, <2>1
<1>8. Fit(F[N])
  <2> HIDE DEF Old
  <2> QED
    BY <1>7
<1> QED
  BY <1>1, <1>3, <1>8

(* repair_tool_pairs pairs every call with a result whatever transcript it *)
(* is given, finds nothing to do on its own output, and gives one that     *)
(* providers accept when no call was made or answered twice.               *)
THEOREM RepairSettles ==
  \A ms \in Seq(Msgs) :
    LET r == RepairToolPairs(ms)
    IN r \in Seq(Msgs) /\ Paired(r) /\ RepairToolPairs(r) = r /\ (Fit(ms) => WellFormed(r))
<1> SUFFICES ASSUME NEW ms \in Seq(Msgs)
             PROVE  LET r == RepairToolPairs(ms)
                    IN r \in Seq(Msgs) /\ Paired(r) /\ RepairToolPairs(r) = r /\ (Fit(ms) => WellFormed(r))
  OBVIOUS
<1> DEFINE r == RepairToolPairs(ms)
<1>1. r \in Seq(Msgs) /\ Paired(r) /\ (Fit(ms) => Fit(r))
  BY GroupTypes, RepairPairs, RepairFit
<1> HIDE DEF r
<1>2. RepairToolPairs(r) = r
  BY <1>1, RepairIdentity
<1>3. Fit(r) => WellFormed(r)
  BY <1>1, FitIsWellFormed
<1> QED
  BY <1>1, <1>2, <1>3 DEF r

(* What the repair leaves: every message but the tool messages, and their  *)
(* answers.                                                                *)
LEMMA RepairElements ==
  ASSUME NEW ms \in Seq(Msgs)
  PROVE  /\ \A x \in ToSet(RepairToolPairs(ms)) :
              \/ x \in ToSet(ms) /\ ~IsTool(x)
              \/ \E i \in 1..Len(ms) : ms[i].role = "asst" /\ x \in ToSet(Answers(ms, i))
         /\ \A x \in ToSet(ms) : ~IsTool(x) => x \in ToSet(RepairToolPairs(ms))
<1> DEFINE gs == GroupsOf(ms)
           N == Len(ms)
           R == RepairToolPairs(ms)
<1>1. /\ gs \in Seq(Seq(Msgs)) /\ Len(gs) = N /\ R = FlattenSeq(gs)
      /\ \A i \in 1..N : gs[i] = GroupOf(ms, i)
  BY GroupTypes
<1> HIDE DEF gs, R
<1>2. \A x : x \in ToSet(R) <=> \E i \in 1..N : x \in ToSet(GroupOf(ms, i))
  <2>1. \A x : x \in ToSet(FlattenSeq(gs)) <=> \E i \in 1..Len(gs) : x \in ToSet(gs[i])
    BY <1>1, FlattenElements
  <2> HIDE DEF N
  <2> QED
    BY <1>1, <2>1
<1>3. ASSUME NEW i \in 1..N
      PROVE  /\ ms[i] \in ToSet(ms) /\ ms[i] \in Msgs /\ ToSet(<<>>) = {} /\ ToSet(<<ms[i]>>) = {ms[i]}
             /\ ToSet(<<ms[i]>> \o Answers(ms, i)) = {ms[i]} \cup ToSet(Answers(ms, i))
  <2>1. ms[i] \in ToSet(ms) /\ ms[i] \in Msgs
    BY InSeq
  <2>2. ToSet(<<>>) = {} /\ ToSet(<<ms[i]>>) = {ms[i]} /\ <<ms[i]>> \in Seq(Msgs)
    BY <2>1 DEF ToSet
  <2>3. Answers(ms, i) \in Seq(Msgs)
    BY AnswersFacts
  <2>4. ToSet(<<ms[i]>> \o Answers(ms, i)) = {ms[i]} \cup ToSet(Answers(ms, i))
    BY <2>1, <2>3, InCons
  <2> QED
    BY <2>1, <2>2, <2>4
<1>4. ASSUME NEW x \in ToSet(R)
      PROVE  \/ x \in ToSet(ms) /\ ~IsTool(x)
             \/ \E i \in 1..N : ms[i].role = "asst" /\ x \in ToSet(Answers(ms, i))
  <2>1. PICK i \in 1..N : x \in ToSet(GroupOf(ms, i))
    BY <1>2
  <2>2. CASE IsTool(ms[i])
    BY <1>3, <2>1, <2>2 DEF GroupOf
  <2>3. CASE ~IsTool(ms[i]) /\ ms[i].role = "asst"
    <3>1. x \in {ms[i]} \cup ToSet(Answers(ms, i))
      BY <1>3, <2>1, <2>3 DEF GroupOf
    <3> QED
      BY <1>3, <2>3, <3>1
  <2>4. CASE ~IsTool(ms[i]) /\ ms[i].role # "asst"
    <3>1. x \in {ms[i]}
      BY <1>3, <2>1, <2>4 DEF GroupOf
    <3> QED
      BY <1>3, <2>4, <3>1
  <2> QED
    BY <2>2, <2>3, <2>4
<1>5. ASSUME NEW x \in ToSet(ms), ~IsTool(x) PROVE x \in ToSet(R)
  <2>1. PICK i \in 1..N : ms[i] = x
    BY InSeq
  <2>2. x \in ToSet(GroupOf(ms, i))
    BY <1>3, <1>5, <2>1 DEF GroupOf
  <2> QED
    BY <1>2, <2>2
<1> QED
  BY <1>4, <1>5 DEF R

LEMMA RepairMentions ==
  ASSUME NEW ms \in Seq(Msgs), NEW c,
         Calling(RepairToolPairs(ms), c) \/ Answering(RepairToolPairs(ms), c)
  PROVE  Calling(ms, c)
<1>1. PICK x \in ToSet(RepairToolPairs(ms)) :
        (x.role = "asst" /\ c \in ToSet(x.calls)) \/ (IsTool(x) /\ x.id = c)
  BY DEF Calling, Answering
<1>2. CASE x \in ToSet(ms) /\ ~IsTool(x)
  BY <1>1, <1>2 DEF Calling
<1>3. ASSUME NEW i \in 1..Len(ms), ms[i].role = "asst", x \in ToSet(Answers(ms, i)) PROVE Calling(ms, c)
  <2>1. IsTool(x) /\ x.id \in ToSet(ms[i].calls)
    BY <1>3, AnswersFacts
  <2>2. ms[i] \in ToSet(ms) /\ c \in ToSet(ms[i].calls)
    BY <1>1, <2>1, InSeq, RoleFacts
  <2> QED
    BY <1>3, <2>2 DEF Calling
<1> QED
  BY <1>2, <1>3, RepairElements

-----------------------------------------------------------------------------
(* A sequence is what is before a position and what is behind it. *)
LEMMA Cut ==
  ASSUME NEW S, NEW s \in Seq(S), NEW n \in 0..Len(s)
  PROVE  /\ SubSeq(s, 1, n) \in Seq(S) /\ Len(SubSeq(s, 1, n)) = n
         /\ SubSeq(s, n + 1, Len(s)) \in Seq(S) /\ Len(SubSeq(s, n + 1, Len(s))) = Len(s) - n
         /\ \A p \in 1..(Len(s) - n) : SubSeq(s, n + 1, Len(s))[p] = s[n + p]
         /\ s = SubSeq(s, 1, n) \o SubSeq(s, n + 1, Len(s))
<1> DEFINE a == SubSeq(s, 1, n)
           b == SubSeq(s, n + 1, Len(s))
           u == a \o b
<1>1. Len(s) \in Nat /\ n \in Nat /\ n <= Len(s)
  OBVIOUS
<1>2. a \in Seq(S) /\ Len(a) = n /\ \A p \in 1..n : a[p] = s[p]
  OBVIOUS
<1>3. b \in Seq(S) /\ Len(b) = Len(s) - n /\ \A p \in 1..(Len(s) - n) : b[p] = s[n + p]
  OBVIOUS
<1> HIDE DEF a, b
<1>4. u \in Seq(S) /\ Joins(u, a, b)
  BY <1>2, <1>3, ConcatAt
<1> HIDE DEF u
<1>5. Len(u) = Len(s)
  BY <1>1, <1>2, <1>3, <1>4 DEF Joins
<1>6. ASSUME NEW p \in 1..Len(s) PROVE u[p] = s[p]
  <2>1. CASE p \in 1..n
    BY <1>1, <1>2, <1>4, <2>1 DEF Joins
  <2>2. CASE \E q \in 1..Len(b) : p = n + q
    BY <1>1, <1>2, <1>3, <1>4, <2>2 DEF Joins
  <2> QED
    BY <1>2, <1>4, <1>5, <2>1, <2>2 DEF Joins
<1>7. u = s
  BY <1>4, <1>5, <1>6
<1> QED
  BY <1>2, <1>3, <1>7 DEF a, b, u

(* Cut where no run of tool messages is, no result is cut off from its call. *)
LEMMA OwnedSplit ==
  ASSUME NEW S, NEW s \in Seq(S), NEW t \in Seq(S), Owned(s \o t), Len(t) > 0 => ~IsTool(t[1])
  PROVE  Owned(s) /\ Owned(t)
<1> DEFINE u == s \o t
           n == Len(s)
<1>0. Joins(u, s, t) /\ Owned(u)
  BY ConcatAt
<1> HIDE DEF u
<1>1. /\ n \in Nat /\ Len(t) \in Nat /\ Len(u) = n + Len(t)
      /\ \A p \in 1..n : p \in 1..Len(u) /\ u[p] = s[p]
      /\ \A p \in 1..Len(t) : n + p \in 1..Len(u) /\ u[n + p] = t[p]
  BY <1>0 DEF Joins
<1>2. ASSUME NEW i \in 1..n, NEW j \in 1..Len(u), InRun(u, i, j) PROVE j \in 1..n /\ InRun(s, i, j)
  <2>1. i < j /\ \A k \in (i + 1)..j : IsTool(u[k])
    BY <1>2 DEF InRun
  <2>2. j <= n
    <3>1. SUFFICES ASSUME j > n PROVE FALSE
      BY <1>1
    <3>2. n + 1 \in (i + 1)..j /\ 1 \in 1..Len(t)
      BY <1>1, <2>1, <3>1
    <3>3. IsTool(u[n + 1]) /\ u[n + 1] = t[1] /\ Len(t) > 0
      BY <1>1, <2>1, <3>2
    <3> QED
      BY <3>3
  <2>3. ASSUME NEW k \in (i + 1)..j PROVE IsTool(s[k])
    <3>1. k \in 1..n
      BY <1>1, <2>2
    <3>2. u[k] = s[k] /\ IsTool(u[k])
      BY <1>1, <2>1, <3>1
    <3> QED
      BY <3>2
  <2> QED
    BY <1>1, <2>1, <2>2, <2>3 DEF InRun
<1>3. ASSUME NEW i \in 1..Len(u), NEW j \in 1..Len(t), InRun(u, i, n + j)
      PROVE  \E k \in 1..Len(t) : i = n + k /\ InRun(t, k, j)
  <2>1. i < n + j /\ \A k \in (i + 1)..(n + j) : IsTool(u[k])
    BY <1>3 DEF InRun
  <2>2. i > n
    <3>1. SUFFICES ASSUME i <= n PROVE FALSE
      BY <1>1
    <3>2. n + 1 \in (i + 1)..(n + j) /\ 1 \in 1..Len(t) /\ Len(t) > 0
      BY <1>1, <2>1, <3>1
    <3>3. IsTool(u[n + 1])
      BY <2>1, <3>2
    <3>4. u[n + 1] = t[1]
      BY <1>1, <3>2
    <3> QED
      BY <3>2, <3>3, <3>4
  <2>3. i - n \in 1..Len(t) /\ i = n + (i - n) /\ i - n < j
    BY <1>1, <2>1, <2>2
  <2>4. ASSUME NEW k \in (i - n + 1)..j PROVE IsTool(t[k])
    <3>1. n + k \in (i + 1)..(n + j) /\ k \in 1..Len(t)
      BY <1>1, <2>3
    <3> QED
      BY <1>1, <2>1, <3>1
  <2>5. InRun(t, i - n, j)
    BY <2>3, <2>4 DEF InRun
  <2> QED
    BY <2>3, <2>5
<1>4. Owned(s)
  <2>1. ASSUME NEW j \in 1..n, IsTool(s[j]) PROVE AnswersOne(s, j)
    <3>1. j \in 1..Len(u) /\ u[j] = s[j]
      BY <1>1
    <3>2. AnswersOne(u, j)
      BY <1>0, <2>1, <3>1 DEF Owned
    <3>3. PICK i \in 1..Len(u) :
            u[i].role = "asst" /\ InRun(u, i, j) /\ u[j].id \in ToSet(u[i].calls)
      BY <3>2 DEF AnswersOne
    <3>4. i \in 1..n
      BY <1>1, <3>3 DEF InRun
    <3>5. InRun(s, i, j) /\ u[i] = s[i]
      BY <1>1, <1>2, <3>1, <3>3, <3>4
    <3> QED
      BY <3>1, <3>3, <3>4, <3>5 DEF AnswersOne
  <2> QED
    BY <2>1 DEF Owned
<1>5. Owned(t)
  <2>1. ASSUME NEW j \in 1..Len(t), IsTool(t[j]) PROVE AnswersOne(t, j)
    <3>1. n + j \in 1..Len(u) /\ u[n + j] = t[j]
      BY <1>1
    <3>2. AnswersOne(u, n + j)
      BY <1>0, <2>1, <3>1 DEF Owned
    <3>3. PICK i \in 1..Len(u) :
            u[i].role = "asst" /\ InRun(u, i, n + j) /\ u[n + j].id \in ToSet(u[i].calls)
      BY <3>2 DEF AnswersOne
    <3>4. PICK k \in 1..Len(t) : i = n + k /\ InRun(t, k, j)
      BY <1>3, <3>3
    <3>5. u[i] = t[k]
      BY <1>1, <3>4
    <3> QED
      BY <3>1, <3>3, <3>4, <3>5 DEF AnswersOne
  <2> QED
    BY <2>1 DEF Owned
<1> QED
  BY <1>4, <1>5

(* The parts of a fit transcript are fit and share no call. *)
LEMMA FitSplit ==
  ASSUME NEW S, NEW s \in Seq(S), NEW t \in Seq(S), Fit(s \o t)
  PROVE  /\ Fit(s) /\ Fit(t)
         /\ \A c : ~(Calling(s, c) /\ Calling(t, c)) /\ ~(Answering(s, c) /\ Answering(t, c))
<1> DEFINE u == s \o t
           n == Len(s)
<1>0. Joins(u, s, t) /\ Fit(u)
  BY ConcatAt
<1> HIDE DEF u
<1>1. /\ n \in Nat /\ Len(t) \in Nat /\ Len(u) = n + Len(t)
      /\ \A p \in 1..n : p \in 1..Len(u) /\ u[p] = s[p]
      /\ \A p \in 1..Len(t) : n + p \in 1..Len(u) /\ u[n + p] = t[p]
  BY <1>0 DEF Joins
<1>2. Fit(s)
  BY <1>0, <1>1 DEF Fit
<1>3. Fit(t)
  <2>1. \A i, j \in 1..Len(t) : i # j => n + i # n + j
    BY <1>1
  <2> HIDE DEF n
  <2>2. \A i \in 1..Len(t) : t[i].role = "asst" => IsInjective(t[i].calls)
    BY <1>0, <1>1 DEF Fit
  <2>3. ASSUME NEW i \in 1..Len(t), NEW j \in 1..Len(t), i # j
        PROVE  /\ t[i].role = "asst" /\ t[j].role = "asst" =>
                    ToSet(t[i].calls) \cap ToSet(t[j].calls) = {}
               /\ IsTool(t[i]) /\ IsTool(t[j]) => t[i].id # t[j].id
    <3>1. n + i \in 1..Len(u) /\ n + j \in 1..Len(u) /\ u[n + i] = t[i] /\ u[n + j] = t[j]
      BY <1>1
    <3>2. n + i # n + j
      BY <2>1, <2>3
    <3> QED
      BY <1>0, <3>1, <3>2 DEF Fit
  <2> QED
    BY <2>2, <2>3 DEF Fit
<1>4. \A i \in 1..n, j \in 1..Len(t) : i # n + j
  BY <1>1
<1>5. ASSUME NEW c, Calling(s, c), Calling(t, c) PROVE FALSE
  <2>1. PICK i \in 1..n : s[i].role = "asst" /\ c \in ToSet(s[i].calls)
    BY <1>5, InSeq DEF Calling
  <2>2. PICK j \in 1..Len(t) : t[j].role = "asst" /\ c \in ToSet(t[j].calls)
    BY <1>5, InSeq DEF Calling
  <2>3. u[i] = s[i] /\ u[n + j] = t[j] /\ i \in 1..Len(u) /\ n + j \in 1..Len(u) /\ i # n + j
    BY <1>1, <1>4
  <2>4. ToSet(u[i].calls) \cap ToSet(u[n + j].calls) = {}
    BY <1>0, <2>1, <2>2, <2>3 DEF Fit
  <2> QED
    BY <2>1, <2>2, <2>3, <2>4
<1>6. ASSUME NEW c, Answering(s, c), Answering(t, c) PROVE FALSE
  <2>1. PICK i \in 1..n : IsTool(s[i]) /\ s[i].id = c
    BY <1>6, InSeq DEF Answering
  <2>2. PICK j \in 1..Len(t) : IsTool(t[j]) /\ t[j].id = c
    BY <1>6, InSeq DEF Answering
  <2>3. u[i] = s[i] /\ u[n + j] = t[j] /\ i \in 1..Len(u) /\ n + j \in 1..Len(u) /\ i # n + j
    BY <1>1, <1>4
  <2>4. u[i].id # u[n + j].id
    BY <1>0, <2>1, <2>2, <2>3 DEF Fit
  <2> QED
    BY <2>1, <2>2, <2>3, <2>4
<1> QED
  BY <1>2, <1>3, <1>5, <1>6

-----------------------------------------------------------------------------
(* No call c of ms lacks an answer further on. *)
AllBehind(ms, c) ==
  \A i \in 1..Len(ms) : ms[i].role = "asst" /\ c \in ToSet(ms[i].calls) => Behind(ms, i, c)

LEMMA BehindConcat ==
  ASSUME NEW S, NEW s \in Seq(S), NEW t \in Seq(S), NEW c
  PROVE  /\ AllBehind(s, c) /\ AllBehind(t, c) => AllBehind(s \o t, c)
         /\ AllBehind(s \o t, c) => AllBehind(t, c)
         /\ AllBehind(s \o t, c) /\ ~Answering(t, c) => AllBehind(s, c)
<1> DEFINE u == s \o t
           n == Len(s)
           Asks(q, i) == q[i].role = "asst" /\ c \in ToSet(q[i].calls)
           Answer(q, k) == IsTool(q[k]) /\ q[k].id = c
<1>0. Joins(u, s, t)
  BY ConcatAt
<1> HIDE DEF u
<1>1. /\ n \in Nat /\ Len(t) \in Nat /\ Len(u) = n + Len(t)
      /\ \A p \in 1..n : p \in 1..Len(u) /\ u[p] = s[p]
      /\ \A p \in 1..Len(t) : n + p \in 1..Len(u) /\ u[n + p] = t[p]
      /\ \A p \in 1..Len(u) : p \in 1..n \/ (\E q \in 1..Len(t) : p = n + q)
  BY <1>0 DEF Joins
<1> HIDE DEF n
<1>2. /\ \A p \in 1..n : (Asks(u, p) <=> Asks(s, p)) /\ (Answer(u, p) <=> Answer(s, p))
      /\ \A p \in 1..Len(t) : (Asks(u, n + p) <=> Asks(t, p)) /\ (Answer(u, n + p) <=> Answer(t, p))
  BY <1>1
<1> HIDE DEF Asks, Answer
<1>3. \A q, i : Behind(q, i, c) <=> \E k \in (i + 1)..Len(q) : Answer(q, k)
  BY DEF Behind, Answer
<1>4. \A q : AllBehind(q, c) <=> \A i \in 1..Len(q) : Asks(q, i) => Behind(q, i, c)
  BY DEF AllBehind, Asks
<1>5. ASSUME NEW i \in 1..n, Behind(s, i, c) PROVE Behind(u, i, c)
  <2>1. PICK k \in (i + 1)..n : Answer(s, k)
    BY <1>3, <1>5 DEF n
  <2>2. k \in 1..n /\ k \in (i + 1)..Len(u)
    BY <1>1, <2>1
  <2> QED
    BY <1>2, <1>3, <2>1, <2>2
<1>6. ASSUME NEW i \in 1..Len(t) PROVE Behind(t, i, c) <=> Behind(u, n + i, c)
  <2>1. ASSUME NEW k \in (i + 1)..Len(t), Answer(t, k) PROVE Behind(u, n + i, c)
    <3>1. k \in 1..Len(t) /\ n + k \in ((n + i) + 1)..Len(u)
      BY <1>1, <2>1
    <3> QED
      BY <1>2, <1>3, <2>1, <3>1
  <2>2. ASSUME NEW k \in ((n + i) + 1)..Len(u), Answer(u, k) PROVE Behind(t, i, c)
    <3>1. k - n \in 1..Len(t) /\ k - n \in (i + 1)..Len(t) /\ n + (k - n) = k
      BY <1>1, <2>2
    <3>2. Answer(t, k - n)
      BY <1>2, <2>2, <3>1
    <3> QED
      BY <1>3, <3>1, <3>2
  <2> QED
    BY <1>3, <2>1, <2>2
<1>7. ASSUME AllBehind(s, c), AllBehind(t, c) PROVE AllBehind(u, c)
  <2>1. ASSUME NEW p \in 1..Len(u), Asks(u, p) PROVE Behind(u, p, c)
    <3>1. CASE p \in 1..n
      BY <1>2, <1>4, <1>5, <1>7, <2>1, <3>1 DEF n
    <3>2. CASE \E q \in 1..Len(t) : p = n + q
      BY <1>2, <1>4, <1>6, <1>7, <2>1, <3>2
    <3> QED
      BY <1>1, <3>1, <3>2
  <2> QED
    BY <1>4, <2>1
<1>8. ASSUME AllBehind(u, c) PROVE AllBehind(t, c)
  BY <1>1, <1>2, <1>4, <1>6, <1>8
<1>9. ASSUME AllBehind(u, c), ~Answering(t, c) PROVE AllBehind(s, c)
  <2>1. ASSUME NEW i \in 1..n, Asks(s, i) PROVE Behind(s, i, c)
    <3>1. i \in 1..Len(u) /\ Asks(u, i)
      BY <1>1, <1>2, <2>1
    <3>2. PICK k \in (i + 1)..Len(u) : Answer(u, k)
      BY <1>3, <1>4, <1>9, <3>1
    <3>3. k \in 1..n
      <4>1. SUFFICES ASSUME NEW q \in 1..Len(t), k = n + q PROVE FALSE
        <5>1. k \in 1..Len(u)
          BY <1>1, <3>2
        <5> QED
          BY <1>1, <5>1
      <4>2. Answer(t, q)
        BY <1>2, <3>2, <4>1
      <4>3. t[q] \in ToSet(t)
        BY InSeq
      <4> QED
        BY <1>9, <4>2, <4>3 DEF Answering, Answer
    <3>4. k \in (i + 1)..n
      BY <1>1, <3>2, <3>3
    <3> QED
      BY <1>2, <1>3, <3>2, <3>3, <3>4 DEF n
  <2> QED
    BY <1>4, <2>1 DEF n
<1> QED
  BY <1>7, <1>8, <1>9 DEF u

LEMMA NoneBehind ==
  ASSUME NEW S, NEW ms \in Seq(S), NEW c, ~Calling(ms, c)
  PROVE  AllBehind(ms, c)
<1>1. \A i \in 1..Len(ms) : ms[i] \in ToSet(ms)
  BY InSeq
<1> QED
  BY <1>1 DEF AllBehind, Calling

(* A paired transcript has the answer to each call behind it. *)
LEMMA PairedBehind ==
  ASSUME NEW ms \in Seq(Msgs), Paired(ms)
  PROVE  \A c : AllBehind(ms, c)
<1>1. ASSUME NEW i \in 1..Len(ms), ms[i].role = "asst", NEW c \in ToSet(ms[i].calls)
      PROVE  Behind(ms, i, c)
  <2>1. HasAnswer(ms, i)
    BY <1>1 DEF Paired
  <2>2. PICK j \in 1..Len(ms) : InRun(ms, i, j) /\ ms[j].id = c
    BY <2>1 DEF HasAnswer
  <2>3. j \in (i + 1)..Len(ms) /\ IsTool(ms[j])
    BY <2>2 DEF InRun
  <2> QED
    BY <2>2, <2>3 DEF Behind
<1> QED
  BY <1>1 DEF AllBehind

(* A message that answers no call, the calls it makes, and its calls being *)
(* new to a transcript.                                                    *)
Spoken(x) == x \in Msgs /\ ~IsTool(x)
Made(x) == IF x.role = "asst" THEN ToSet(x.calls) ELSE {}
NewTo(x, ms) ==
  /\ x.role = "asst" => IsInjective(x.calls)
  /\ \A c \in Made(x) : ~Calling(ms, c)

(* A message that neither calls a tool nor answers a call. *)
Plain(x) == x \in Msgs /\ ~IsTool(x) /\ (x.role = "asst" => x.calls = <<>>)

LEMMA PlainMessages ==
  /\ \A o \in Owners : Plain(User(o))
  /\ Plain(Asst(<<>>)) /\ Plain(Checkpoint)
<1>1. <<>> \in Seq(Calls)
  OBVIOUS
<1> QED
  BY <1>1, MessageTypes DEF Plain, User, Asst, Checkpoint, Message, IsTool

LEMMA PlainSpoken ==
  ASSUME NEW x, Plain(x)
  PROVE  Spoken(x) /\ Made(x) = {} /\ \A ms : NewTo(x, ms)
<1>1. ToSet(<<>>) = {} /\ IsInjective(<<>>)
  BY DEF ToSet, IsInjective
<1>2. Spoken(x) /\ Made(x) = {}
  BY <1>1 DEF Plain, Spoken, Made
<1> QED
  BY <1>1, <1>2 DEF Plain, NewTo

LEMMA SpokenAlone ==
  ASSUME NEW x, Spoken(x)
  PROVE  /\ <<x>> \in Seq(Msgs) /\ ToSet(<<x>>) = {x} /\ Owned(<<x>>)
         /\ Made(x) = {} => Paired(<<x>>)
         /\ (x.role = "asst" => IsInjective(x.calls)) => Fit(<<x>>)
         /\ \A c : (Calling(<<x>>, c) <=> c \in Made(x)) /\ ~Answering(<<x>>, c)
<1>1. x \in Msgs /\ ~IsTool(x)
  BY DEF Spoken
<1>2. Len(<<x>>) = 1 /\ <<x>>[1] = x /\ \A k \in 1..Len(<<x>>) : k = 1
  OBVIOUS
<1>3. ToSet(<<x>>) = {x} /\ <<x>> \in Seq(Msgs)
  BY <1>1 DEF ToSet
<1>4. Owned(<<x>>)
  BY <1>1, <1>2 DEF Owned
<1>5. Made(x) = {} => Paired(<<x>>)
  BY <1>2, <1>4 DEF Paired, HasAnswer, Made
<1>6. (x.role = "asst" => IsInjective(x.calls)) => Fit(<<x>>)
  BY <1>1, <1>2 DEF Fit
<1>7. \A c : (Calling(<<x>>, c) <=> c \in Made(x)) /\ ~Answering(<<x>>, c)
  BY <1>1, <1>3 DEF Calling, Answering, Made
<1> QED
  BY <1>3, <1>4, <1>5, <1>6, <1>7

(* Two transcripts in a row. *)
ApartFrom(s, t) == \A c : ~(Calling(s, c) /\ Calling(t, c)) /\ ~(Answering(s, c) /\ Answering(t, c))

(* A message put between two parts of a transcript. *)
LEMMA SpokenInsert ==
  ASSUME NEW s \in Seq(Msgs), NEW t \in Seq(Msgs), NEW x, Spoken(x)
  PROVE  /\ (s \o <<x>>) \o t \in Seq(Msgs)
         /\ ToSet((s \o <<x>>) \o t) = (ToSet(s) \cup {x}) \cup ToSet(t)
         /\ Owned(s) /\ Owned(t) => Owned((s \o <<x>>) \o t)
         /\ Fit(s) /\ Fit(t) /\ ApartFrom(s, t) /\ NewTo(x, s) /\ NewTo(x, t)
              => Fit((s \o <<x>>) \o t)
         /\ \A c : /\ Calling((s \o <<x>>) \o t, c) <=>
                        Calling(s, c) \/ Calling(t, c) \/ c \in Made(x)
                   /\ Answering((s \o <<x>>) \o t, c) <=> Answering(s, c) \/ Answering(t, c)
                   /\ AllBehind(s, c) /\ AllBehind(t, c) /\ c \notin Made(x)
                        => AllBehind((s \o <<x>>) \o t, c)
<1> DEFINE y == <<x>>
           sx == s \o y
           u == sx \o t
<1>1. /\ y \in Seq(Msgs) /\ ToSet(y) = {x} /\ Owned(y)
      /\ (x.role = "asst" => IsInjective(x.calls)) => Fit(y)
      /\ \A c : (Calling(y, c) <=> c \in Made(x)) /\ ~Answering(y, c)
  BY SpokenAlone
<1> HIDE DEF y
<1>2. \A c : c \notin Made(x) => AllBehind(y, c)
  BY <1>1, NoneBehind
<1>3. sx \in Seq(Msgs) /\ ToSet(sx) = ToSet(s) \cup {x}
  BY <1>1, InConcat
<1>4. Owned(s) => Owned(sx)
  BY <1>1, OwnedConcat
<1>5. \A c : (Calling(sx, c) <=> Calling(s, c) \/ c \in Made(x)) /\ (Answering(sx, c) <=> Answering(s, c))
  BY <1>1, MentionsConcat
<1>6. ASSUME Fit(s), NewTo(x, s) PROVE Fit(sx)
  <2>1. Fit(y) /\ \A c : ~(Calling(s, c) /\ Calling(y, c))
    BY <1>1, <1>6 DEF NewTo
  <2> QED
    BY <1>1, <1>6, <2>1, FitConcat
<1>b. \A c : AllBehind(s, c) /\ c \notin Made(x) => AllBehind(sx, c)
  BY <1>1, <1>2, BehindConcat
<1> HIDE DEF sx
<1>7. u \in Seq(Msgs) /\ ToSet(u) = ToSet(sx) \cup ToSet(t)
  BY <1>3, InConcat
<1>8. Owned(s) /\ Owned(t) => Owned(u)
  BY <1>3, <1>4, OwnedConcat
<1>9. ASSUME Fit(s), Fit(t), ApartFrom(s, t), NewTo(x, s), NewTo(x, t) PROVE Fit(u)
  <2>1. Fit(sx)
    BY <1>6, <1>9
  <2>2. \A c : ~(Calling(sx, c) /\ Calling(t, c)) /\ ~(Answering(sx, c) /\ Answering(t, c))
    BY <1>5, <1>9 DEF ApartFrom, NewTo
  <2> QED
    BY <1>3, <1>9, <2>1, <2>2, FitConcat
<1>10. \A c : /\ Calling(u, c) <=> Calling(s, c) \/ Calling(t, c) \/ c \in Made(x)
              /\ Answering(u, c) <=> Answering(s, c) \/ Answering(t, c)
  BY <1>3, <1>5, MentionsConcat
<1>11. \A c : AllBehind(s, c) /\ AllBehind(t, c) /\ c \notin Made(x) => AllBehind(u, c)
  BY <1>3, <1>b, BehindConcat
<1> QED
  BY <1>3, <1>7, <1>8, <1>9, <1>10, <1>11 DEF u, sx, y

LEMMA NoneFacts ==
  /\ <<>> \in Seq(Msgs) /\ ToSet(<<>>) = {} /\ Owned(<<>>) /\ Fit(<<>>)
  /\ \A c : ~Calling(<<>>, c) /\ ~Answering(<<>>, c) /\ AllBehind(<<>>, c)
<1>1. <<>> \in Seq(Msgs) /\ ToSet(<<>>) = {}
  BY DEF ToSet
<1>2. Fit(<<>>) /\ Owned(<<>>) /\ \A c : AllBehind(<<>>, c)
  BY DEF Fit, Owned, AllBehind
<1> QED
  BY <1>1, <1>2 DEF Calling, Answering

(* A plain message in front. *)
LEMMA PlainFirst ==
  ASSUME NEW s \in Seq(Msgs), NEW x, Plain(x)
  PROVE  /\ <<x>> \o s \in Seq(Msgs) /\ ToSet(<<x>> \o s) = ToSet(s) \cup {x}
         /\ Fit(s) => Fit(<<x>> \o s)
         /\ \A c : /\ Calling(<<x>> \o s, c) <=> Calling(s, c)
                   /\ Answering(<<x>> \o s, c) <=> Answering(s, c)
                   /\ AllBehind(s, c) => AllBehind(<<x>> \o s, c)
<1> DEFINE y == <<x>>
<1>1. /\ y \in Seq(Msgs) /\ ToSet(y) = {x}
      /\ (x.role = "asst" => IsInjective(x.calls)) => Fit(y)
      /\ \A c : (Calling(y, c) <=> c \in Made(x)) /\ ~Answering(y, c)
  BY PlainSpoken, SpokenAlone
<1>2. Made(x) = {} /\ (x.role = "asst" => IsInjective(x.calls))
  BY PlainSpoken DEF NewTo
<1> HIDE DEF y
<1>3. Fit(y) /\ \A c : ~Calling(y, c) /\ ~Answering(y, c)
  BY <1>1, <1>2
<1>4. y \o s \in Seq(Msgs) /\ ToSet(y \o s) = {x} \cup ToSet(s)
  BY <1>1, InConcat
<1>5. Fit(s) => Fit(y \o s)
  BY <1>1, <1>3, FitConcat
<1>6. \A c : (Calling(y \o s, c) <=> Calling(s, c)) /\ (Answering(y \o s, c) <=> Answering(s, c))
  BY <1>1, <1>3, MentionsConcat
<1>7. ASSUME NEW c, AllBehind(s, c) PROVE AllBehind(y \o s, c)
  <2>1. AllBehind(y, c)
    BY <1>1, <1>3, NoneBehind
  <2> QED
    BY <1>1, <1>7, <2>1, BehindConcat
<1> QED
  BY <1>4, <1>5, <1>6, <1>7 DEF y

LEMMA TrailingFacts ==
  ASSUME NEW ms \in Seq(Msgs)
  PROVE  LET s == TrailingUserRunStart(ms)
         IN s \in 1..(Len(ms) + 1) /\ \A j \in s..Len(ms) : ms[j].role = "user"
<1> DEFINE U(s) == \A j \in s..Len(ms) : ms[j].role = "user"
           T == {s \in 1..(Len(ms) + 1) : U(s)}
           Starts(s) == U(s) /\ (s > 1 => ms[s - 1].role # "user")
           S == TrailingUserRunStart(ms)
<1>1. Len(ms) \in Nat
  OBVIOUS
<1>2. T \in SUBSET Nat /\ Len(ms) + 1 \in T
  BY <1>1
<1>3. PICK n \in T : \A m \in T : n <= m
  <2> HIDE DEF T
  <2> QED
    BY <1>2, LeastNatural
<1>4. n \in 1..(Len(ms) + 1) /\ U(n)
  <2> HIDE DEF U
  <2> QED
    OBVIOUS
<1>5. ASSUME n > 1, ms[n - 1].role = "user" PROVE FALSE
  <2>1. n - 1 \in 1..(Len(ms) + 1) /\ ~(n <= n - 1)
    BY <1>1, <1>4, <1>5
  <2>2. U(n - 1)
    <3>1. \A j \in (n - 1)..Len(ms) : j = n - 1 \/ j \in n..Len(ms)
      BY <1>1, <1>4
    <3> QED
      BY <1>4, <1>5, <3>1
  <2>3. n - 1 \in T
    <3> HIDE DEF U
    <3> QED
      BY <2>1, <2>2
  <2> HIDE DEF T
  <2> QED
    BY <1>3, <2>1, <2>3
<1>6. \E s \in 1..(Len(ms) + 1) : Starts(s)
  <2> HIDE DEF U
  <2> QED
    BY <1>4, <1>5
<1>7. S = CHOOSE s \in 1..(Len(ms) + 1) : Starts(s)
  BY DEF TrailingUserRunStart
<1>8. S \in 1..(Len(ms) + 1) /\ Starts(S)
  <2> HIDE DEF Starts, S
  <2> QED
    BY <1>6, <1>7
<1> QED
  BY <1>8

-----------------------------------------------------------------------------
(* What the turn loop does to a transcript: q is ms with x put in. *)
Widens(q, ms, x) ==
  /\ q \in Seq(Msgs) /\ ToSet(q) = ToSet(ms) \cup {x} /\ Len(q) = Len(ms) + 1
  /\ Owned(ms) => Owned(q)
  /\ Fit(ms) /\ NewTo(x, ms) => Fit(q)
  /\ \A c : /\ Calling(q, c) <=> Calling(ms, c) \/ c \in Made(x)
            /\ Answering(q, c) <=> Answering(ms, c)
            /\ AllBehind(ms, c) /\ c \notin Made(x) => AllBehind(q, c)

(* The messages of ms keep their places. *)
Keeps(q, ms) == Len(ms) <= Len(q) /\ \A k \in 1..Len(ms) : q[k] = ms[k]

LEMMA AppendWidens ==
  ASSUME NEW ms \in Seq(Msgs), NEW x, Spoken(x)
  PROVE  /\ Widens(Append(ms, x), ms, x) /\ Keeps(Append(ms, x), ms)
         /\ Append(ms, x)[Len(ms) + 1] = x
         /\ Paired(ms) /\ Made(x) = {} => Paired(Append(ms, x))
<1> DEFINE q == Append(ms, x)
           y == <<x>>
           none == <<>>
           u == (ms \o y) \o none
<1>1. x \in Msgs
  BY DEF Spoken
<1>2. /\ Len(ms) \in Nat /\ Len(q) = Len(ms) + 1 /\ q[Len(ms) + 1] = x
      /\ \A k \in 1..Len(ms) : q[k] = ms[k]
  BY <1>1
<1>3. q = ms \o y /\ q \in Seq(Msgs)
  BY <1>1
<1>4. q = u
  BY <1>3, ConcatNone
<1>5. /\ none \in Seq(Msgs) /\ ToSet(none) = {} /\ Owned(none) /\ Fit(none)
      /\ \A c : ~Calling(none, c) /\ ~Answering(none, c) /\ AllBehind(none, c)
  BY NoneFacts
<1>6. y \in Seq(Msgs) /\ (Made(x) = {} => Paired(y))
  BY SpokenAlone
<1> HIDE DEF none
<1>7. /\ u \in Seq(Msgs) /\ ToSet(u) = (ToSet(ms) \cup {x}) \cup ToSet(none)
      /\ Owned(ms) /\ Owned(none) => Owned(u)
      /\ Fit(ms) /\ Fit(none) /\ ApartFrom(ms, none) /\ NewTo(x, ms) /\ NewTo(x, none) => Fit(u)
      /\ \A c : /\ Calling(u, c) <=> Calling(ms, c) \/ Calling(none, c) \/ c \in Made(x)
                /\ Answering(u, c) <=> Answering(ms, c) \/ Answering(none, c)
                /\ AllBehind(ms, c) /\ AllBehind(none, c) /\ c \notin Made(x) => AllBehind(u, c)
  BY <1>5, SpokenInsert
<1> HIDE DEF u, y, q
<1>8. ApartFrom(ms, none) /\ (NewTo(x, ms) => NewTo(x, none))
  BY <1>5 DEF ApartFrom, NewTo
<1>9. Widens(q, ms, x)
  BY <1>2, <1>4, <1>5, <1>7, <1>8 DEF Widens
<1>10. Keeps(q, ms)
  BY <1>2 DEF Keeps
<1>11. Paired(ms) /\ Made(x) = {} => Paired(q)
  BY <1>3, <1>6, PairedConcat
<1> QED
  BY <1>2, <1>9, <1>10, <1>11 DEF q

LEMMA InsertWidens ==
  ASSUME NEW ms \in Seq(Msgs), NEW x, Spoken(x)
  PROVE  Widens(InsertAt(ms, TrailingUserRunStart(ms), x), ms, x)
<1> DEFINE s == TrailingUserRunStart(ms)
           n == s - 1
           a == SubSeq(ms, 1, n)
           b == SubSeq(ms, n + 1, Len(ms))
           ab == a \o b
           ax == a \o <<x>>
           q == ax \o b
<1>1. s \in 1..(Len(ms) + 1) /\ (\A j \in s..Len(ms) : ms[j].role = "user") /\ Len(ms) \in Nat
  BY TrailingFacts
<1> HIDE DEF s
<1>2. n \in 0..Len(ms) /\ n + 1 = s /\ s - 1 = n
  BY <1>1
<1>3. InsertAt(ms, s, x) = q
  BY <1>2 DEF InsertAt
<1>4. /\ a \in Seq(Msgs) /\ Len(a) = n /\ b \in Seq(Msgs) /\ Len(b) = Len(ms) - n
      /\ \A p \in 1..(Len(ms) - n) : b[p] = ms[n + p]
      /\ ms = ab
  BY <1>2, Cut
<1> HIDE DEF a, b, n
<1>5. ASSUME NEW p \in 1..Len(b) PROVE b[p].role = "user"
  <2>1. p \in 1..(Len(ms) - n) /\ n + p \in s..Len(ms)
    BY <1>1, <1>2, <1>4
  <2> QED
    BY <1>1, <1>4, <2>1
<1>6. Len(b) > 0 => ~IsTool(b[1])
  <2>1. Len(b) > 0 => 1 \in 1..Len(b)
    BY <1>4
  <2> QED
    BY <1>5, <2>1, RoleFacts
<1>c. \A c : ~Answering(b, c)
  <2>1. ASSUME NEW m \in ToSet(b) PROVE ~IsTool(m)
    <3>1. b \in Seq(Msgs)
      BY <1>4
    <3>2. PICK p \in 1..Len(b) : b[p] = m
      BY <3>1, InSeq
    <3> QED
      BY <1>5, <3>2, RoleFacts
  <2> QED
    BY <2>1 DEF Answering
<1>7. Owned(ms) => Owned(a) /\ Owned(b)
  <2>1. Owned(ab) => Owned(a) /\ Owned(b)
    BY <1>4, <1>6, OwnedSplit
  <2> QED
    BY <1>4, <2>1
<1>8. Fit(ms) => Fit(a) /\ Fit(b) /\ ApartFrom(a, b)
  <2>1. Fit(ab) => /\ Fit(a) /\ Fit(b)
                   /\ \A c : ~(Calling(a, c) /\ Calling(b, c)) /\ ~(Answering(a, c) /\ Answering(b, c))
    BY <1>4, FitSplit
  <2> QED
    BY <1>4, <2>1 DEF ApartFrom
<1>9. \A c : /\ Calling(ms, c) <=> Calling(a, c) \/ Calling(b, c)
             /\ Answering(ms, c) <=> Answering(a, c) \/ Answering(b, c)
  <2>1. \A c : /\ Calling(ab, c) <=> Calling(a, c) \/ Calling(b, c)
               /\ Answering(ab, c) <=> Answering(a, c) \/ Answering(b, c)
    BY <1>4, MentionsConcat
  <2> QED
    BY <1>4, <2>1
<1>10. ToSet(ms) = ToSet(a) \cup ToSet(b)
  <2>1. ToSet(ab) = ToSet(a) \cup ToSet(b)
    BY <1>4, InConcat
  <2> QED
    BY <1>4, <2>1
<1>11. \A c : AllBehind(ms, c) => AllBehind(a, c) /\ AllBehind(b, c)
  <2>1. \A c : AllBehind(ab, c) => AllBehind(a, c) /\ AllBehind(b, c)
    BY <1>4, <1>c, BehindConcat
  <2> QED
    BY <1>4, <2>1
<1>12. /\ q \in Seq(Msgs) /\ ToSet(q) = (ToSet(a) \cup {x}) \cup ToSet(b)
       /\ Owned(a) /\ Owned(b) => Owned(q)
       /\ Fit(a) /\ Fit(b) /\ ApartFrom(a, b) /\ NewTo(x, a) /\ NewTo(x, b) => Fit(q)
       /\ \A c : /\ Calling(q, c) <=> Calling(a, c) \/ Calling(b, c) \/ c \in Made(x)
                 /\ Answering(q, c) <=> Answering(a, c) \/ Answering(b, c)
                 /\ AllBehind(a, c) /\ AllBehind(b, c) /\ c \notin Made(x) => AllBehind(q, c)
  BY <1>4, SpokenInsert
<1>13. NewTo(x, ms) => NewTo(x, a) /\ NewTo(x, b)
  BY <1>9 DEF NewTo
<1>14. Len(q) = Len(ms) + 1
  <2> DEFINE y == <<x>>
  <2>1. y \in Seq(Msgs) /\ Len(y) = 1
    BY DEF Spoken
  <2> HIDE DEF y
  <2>2. ax = a \o y
    BY DEF y
  <2>3. a \in Seq(Msgs) /\ b \in Seq(Msgs) /\ Len(a) = n /\ Len(b) = Len(ms) - n /\ n \in Nat
    BY <1>1, <1>2, <1>4
  <2> HIDE DEF ax
  <2>4. Joins(ax, a, y) /\ ax \in Seq(Msgs)
    BY <2>1, <2>2, <2>3, ConcatAt
  <2>5. Joins(q, ax, b)
    BY <2>3, <2>4, ConcatAt
  <2> HIDE DEF q
  <2> QED
    BY <1>1, <2>1, <2>3, <2>4, <2>5 DEF Joins
<1> HIDE DEF q, ab, ax
<1>15. Widens(q, ms, x)
  BY <1>7, <1>8, <1>9, <1>10, <1>11, <1>12, <1>13, <1>14 DEF Widens
<1> QED
  BY <1>3, <1>15 DEF s

(* What a compaction keeps of a transcript, wherever it is cut. *)
Folds(q, ms) ==
  /\ q \in Seq(Msgs) /\ ToSet(q) \subseteq ToSet(ms) \cup {Checkpoint}
  /\ Fit(ms) => Fit(q)
  /\ \A c : /\ Calling(q, c) => Calling(ms, c)
            /\ Answering(q, c) => Answering(ms, c)
            /\ AllBehind(ms, c) => AllBehind(q, c)

LEMMA FoldFacts ==
  ASSUME NEW ms \in Seq(Msgs), NEW n \in 0..Len(ms)
  PROVE  LET tail == SubSeq(ms, n + 1, Len(ms))
         IN tail \in Seq(Msgs) /\ Folds(<<Checkpoint>> \o tail, ms)
<1> DEFINE a == SubSeq(ms, 1, n)
           t == SubSeq(ms, n + 1, Len(ms))
           at == a \o t
           q == <<Checkpoint>> \o t
<1>1. a \in Seq(Msgs) /\ t \in Seq(Msgs) /\ ms = at
  BY Cut
<1> HIDE DEF a, t
<1>2. Fit(at) => Fit(t)
  BY <1>1, FitSplit
<1>3. \A c : /\ Calling(t, c) => Calling(at, c)
             /\ Answering(t, c) => Answering(at, c)
             /\ AllBehind(at, c) => AllBehind(t, c)
  BY <1>1, MentionsConcat, BehindConcat
<1>4. ToSet(at) = ToSet(a) \cup ToSet(t)
  BY <1>1, InConcat
<1> HIDE DEF at
<1>5. Plain(Checkpoint)
  BY PlainMessages
<1>6. /\ q \in Seq(Msgs) /\ ToSet(q) = ToSet(t) \cup {Checkpoint}
      /\ Fit(t) => Fit(q)
      /\ \A c : /\ (Calling(q, c) <=> Calling(t, c)) /\ (Answering(q, c) <=> Answering(t, c))
                /\ AllBehind(t, c) => AllBehind(q, c)
  BY <1>1, <1>5, PlainFirst
<1> HIDE DEF q
<1>7. Folds(q, ms)
  BY <1>1, <1>2, <1>3, <1>4, <1>6 DEF Folds
<1> QED
  BY <1>1, <1>7 DEF q, t

(* The cut a compaction makes. *)
LEMMA CompactionCutFacts ==
  ASSUME NEW ms \in Seq(Msgs), NEW Keep \in Nat, Keep <= Len(ms)
  PROVE  CompactionCut(ms, Keep) \in 0..Len(ms)
<1> DEFINE i == Len(ms) - Keep
           e == CompactionCut(ms, Keep)
<1>1. i \in 0..Len(ms)
  OBVIOUS
<1>2. e = RunEnd(ms, i)
  BY DEF CompactionCut, RunEnd
<1> HIDE DEF i
<1>3. RunEnd(ms, i) \in i..Len(ms)
  BY <1>1, RunEndFacts
<1> HIDE DEF e
<1>4. e \in 0..Len(ms)
  BY <1>1, <1>2, <1>3
<1> QED
  BY <1>4 DEF e

(* An assistant message and the results of all its calls. *)
ResultsOf(cs) == [k \in DOMAIN cs |-> Tool(cs[k])]

LEMMA ResultsAll ==
  ASSUME NEW cs \in Seq(Calls), AllDone(cs)
  PROVE  Results(cs) = ResultsOf(cs)
<1>1. ToSet(cs) \subseteq Calls
  BY InSeq
<1>2. ToSet(cs) \subseteq {c \in Calls : calls[c] = "done"}
  BY <1>1 DEF AllDone
<1>3. Picked(cs, {c \in Calls : calls[c] = "done"}) = cs
  BY <1>2, PickedAll
<1> QED
  BY <1>3 DEF Results, ResultsOf

LEMMA ResultsFacts ==
  ASSUME NEW cs \in Seq(Calls)
  PROVE  /\ ResultsOf(cs) \in Seq(Msgs) /\ Len(ResultsOf(cs)) = Len(cs)
         /\ \A k \in 1..Len(cs) : ResultsOf(cs)[k] = Tool(cs[k])
         /\ ToSet(ResultsOf(cs)) = {Tool(c) : c \in ToSet(cs)}
<1> DEFINE r == ResultsOf(cs)
<1>1. \A k \in 1..Len(cs) : cs[k] \in Calls /\ Tool(cs[k]) \in Msgs
  BY MessageTypes
<1>2. r = [k \in 1..Len(cs) |-> Tool(cs[k])]
  BY DEF ResultsOf
<1>3. r \in Seq(Msgs) /\ Len(r) = Len(cs) /\ \A k \in 1..Len(cs) : r[k] = Tool(cs[k])
  BY <1>1, <1>2
<1> HIDE DEF r
<1>4. ToSet(r) = {Tool(c) : c \in ToSet(cs)}
  BY <1>3, InSeq
<1> QED
  BY <1>3, <1>4 DEF r

LEMMA AsstFacts ==
  ASSUME NEW cs \in Seq(Calls)
  PROVE  /\ Asst(cs) \in Msgs /\ Asst(cs).role = "asst" /\ Asst(cs).calls = cs /\ ~IsTool(Asst(cs))
         /\ \A c \in Calls : /\ IsTool(Tool(c)) /\ Tool(c).id = c /\ Tool(c).role # "asst"
                             /\ IsTool(Note(c)) /\ Note(c).id = c /\ Note(c) # Tool(c)
  BY MessageTypes DEF Asst, Tool, Note, Message, IsTool

LEMMA ResultGroup ==
  ASSUME NEW cs \in Seq(Calls)
  PROVE  LET g == <<Asst(cs)>> \o ResultsOf(cs) IN
         /\ g \in Seq(Msgs) /\ Paired(g) /\ ToSet(g) = {Asst(cs)} \cup {Tool(c) : c \in ToSet(cs)}
         /\ IsInjective(cs) => Fit(g)
         /\ \A c : (Calling(g, c) <=> c \in ToSet(cs)) /\ (Answering(g, c) <=> c \in ToSet(cs))
<1> DEFINE x == Asst(cs)
           r == ResultsOf(cs)
           g == <<x>> \o r
           n == Len(cs)
<1>1. /\ x \in Msgs /\ x.role = "asst" /\ x.calls = cs /\ ~IsTool(x)
      /\ \A c \in Calls : IsTool(Tool(c)) /\ Tool(c).id = c /\ Tool(c).role # "asst"
  BY AsstFacts
<1>2. /\ r \in Seq(Msgs) /\ Len(r) = n /\ ToSet(r) = {Tool(c) : c \in ToSet(cs)}
      /\ \A k \in 1..n : r[k] = Tool(cs[k])
  BY ResultsFacts
<1>3. ToSet(cs) \subseteq Calls /\ n \in Nat /\ \A k \in 1..n : cs[k] \in Calls
  BY InSeq
<1> HIDE DEF x, r
<1>4. g \in Seq(Msgs) /\ ToSet(g) = {x} \cup ToSet(r)
  BY <1>1, <1>2, InCons
<1>5. Paired(g)
  <2>1. \A m \in ToSet(r) : IsTool(m) /\ m.id \in ToSet(x.calls)
    BY <1>1, <1>2, <1>3
  <2>2. \A c \in ToSet(x.calls) : \E m \in ToSet(r) : m.id = c
    BY <1>1, <1>2, <1>3
  <2> QED
    BY <1>1, <1>2, <2>1, <2>2, GroupPaired
<1>6. /\ Len(g) = n + 1 /\ g[1] = x /\ \A k \in 1..n : g[k + 1] = r[k]
  BY <1>1, <1>2
<1> HIDE DEF g
<1>7. ASSUME NEW k \in 2..Len(g)
      PROVE  k - 1 \in 1..n /\ IsTool(g[k]) /\ g[k].id = cs[k - 1] /\ g[k].role # "asst"
  <2>1. k - 1 \in 1..n /\ (k - 1) + 1 = k
    BY <1>3, <1>6
  <2>2. g[k] = Tool(cs[k - 1])
    BY <1>2, <1>6, <2>1
  <2> QED
    BY <1>1, <1>3, <2>1, <2>2
<1>8. \A k \in 1..Len(g) : k = 1 \/ k \in 2..Len(g)
  BY <1>3, <1>6
<1>9. ASSUME IsInjective(cs) PROVE Fit(g)
  <2>1. \A k \in 1..Len(g) : g[k].role = "asst" => k = 1
    BY <1>7, <1>8
  <2>2. ASSUME NEW i \in 1..Len(g), NEW j \in 1..Len(g), IsTool(g[i]), IsTool(g[j]), i # j
        PROVE  g[i].id # g[j].id
    <3>1. i \in 2..Len(g) /\ j \in 2..Len(g)
      BY <1>1, <1>6, <1>8, <2>2
    <3>2. i - 1 # j - 1 /\ i - 1 \in DOMAIN cs /\ j - 1 \in DOMAIN cs
      BY <1>7, <2>2, <3>1
    <3>3. cs[i - 1] # cs[j - 1]
      BY <1>9, <3>2 DEF IsInjective
    <3> QED
      BY <1>7, <3>1, <3>3
  <2> QED
    BY <1>1, <1>6, <1>9, <2>1, <2>2 DEF Fit
<1>10. \A m \in ToSet(r) : \E c \in ToSet(cs) : m.id = c /\ IsTool(m) /\ m.role # "asst"
  BY <1>1, <1>2, <1>3
<1>11. \A c \in ToSet(cs) : \E m \in ToSet(r) : m.id = c /\ IsTool(m)
  BY <1>1, <1>2, <1>3
<1>12. ASSUME NEW c
       PROVE  (Calling(g, c) <=> c \in ToSet(cs)) /\ (Answering(g, c) <=> c \in ToSet(cs))
  <2>1. Calling(g, c) <=> c \in ToSet(cs)
    BY <1>1, <1>4, <1>10 DEF Calling
  <2>2. Answering(g, c) <=> c \in ToSet(cs)
    BY <1>1, <1>4, <1>10, <1>11 DEF Answering
  <2> QED
    BY <2>1, <2>2
<1> QED
  BY <1>2, <1>4, <1>5, <1>9, <1>12 DEF g, x, r

(* ... behind a transcript. *)
Pushes(q, ms, cs) ==
  /\ q \in Seq(Msgs) /\ Keeps(q, ms)
  /\ ToSet(q) = ToSet(ms) \cup {Asst(cs)} \cup {Tool(c) : c \in ToSet(cs)}
  /\ Owned(ms) => Owned(q)
  /\ Fit(ms) /\ IsInjective(cs) /\ (\A c \in ToSet(cs) : ~Calling(ms, c) /\ ~Answering(ms, c))
       => Fit(q)
  /\ \A c : /\ Calling(q, c) <=> Calling(ms, c) \/ c \in ToSet(cs)
            /\ Answering(q, c) <=> Answering(ms, c) \/ c \in ToSet(cs)
            /\ AllBehind(ms, c) => AllBehind(q, c)

LEMMA GroupPush ==
  ASSUME NEW ms \in Seq(Msgs), NEW cs \in Seq(Calls)
  PROVE  Pushes(ms \o <<Asst(cs)>> \o ResultsOf(cs), ms, cs)
<1> DEFINE x == Asst(cs)
           r == ResultsOf(cs)
           y == <<x>>
           g == y \o r
           q == ms \o g
<1>1. /\ g \in Seq(Msgs) /\ Paired(g) /\ ToSet(g) = {x} \cup {Tool(c) : c \in ToSet(cs)}
      /\ IsInjective(cs) => Fit(g)
      /\ \A c : (Calling(g, c) <=> c \in ToSet(cs)) /\ (Answering(g, c) <=> c \in ToSet(cs))
  BY ResultGroup
<1>2. x \in Msgs /\ r \in Seq(Msgs)
  BY AsstFacts, ResultsFacts
<1> HIDE DEF x, r
<1>3. y \in Seq(Msgs)
  BY <1>2
<1>4. (ms \o y) \o r = q
  <2> HIDE DEF y
  <2>1. (ms \o y) \o r = ms \o (y \o r)
    BY <1>2, <1>3
  <2> QED
    BY <2>1
<1> HIDE DEF y, g
<1>5. Owned(g) /\ \A c : AllBehind(g, c)
  BY <1>1, PairedBehind DEF Paired
<1>6. q \in Seq(Msgs) /\ (Owned(ms) => Owned(q))
  BY <1>1, <1>5, OwnedConcat
<1>7. ToSet(q) = ToSet(ms) \cup {x} \cup {Tool(c) : c \in ToSet(cs)}
  <2>1. ToSet(q) = ToSet(ms) \cup ToSet(g)
    BY <1>1, InConcat
  <2> QED
    BY <1>1, <2>1
<1>8. \A c : /\ Calling(q, c) <=> Calling(ms, c) \/ Calling(g, c)
             /\ Answering(q, c) <=> Answering(ms, c) \/ Answering(g, c)
  BY <1>1, MentionsConcat
<1>9. ASSUME Fit(ms), IsInjective(cs), \A c \in ToSet(cs) : ~Calling(ms, c) /\ ~Answering(ms, c)
      PROVE  Fit(q)
  BY <1>1, <1>9, FitConcat
<1>10. Joins(q, ms, g)
  BY <1>1, ConcatAt
<1>11. \A c : AllBehind(ms, c) => AllBehind(q, c)
  BY <1>1, <1>5, BehindConcat
<1> HIDE DEF q
<1>12. Keeps(q, ms)
  BY <1>10 DEF Joins, Keeps
<1>13. Pushes(q, ms, cs)
  <2>1. \A c : /\ Calling(q, c) <=> Calling(ms, c) \/ c \in ToSet(cs)
               /\ Answering(q, c) <=> Answering(ms, c) \/ c \in ToSet(cs)
    BY <1>1, <1>8
  <2>2. ToSet(q) = ToSet(ms) \cup {Asst(cs)} \cup {Tool(c) : c \in ToSet(cs)}
    BY <1>7 DEF x
  <2> QED
    BY <1>6, <1>9, <1>11, <1>12, <2>1, <2>2 DEF Pushes
<1>14. q = ms \o <<x>> \o r
  BY <1>4 DEF y
<1> QED
  BY <1>13, <1>14 DEF x, r

(* A note is made up only for a call without an answer. *)
LEMMA RepairNotes ==
  ASSUME NEW ms \in Seq(Msgs), NEW c \in Calls, Note(c) \in ToSet(RepairToolPairs(ms)), AllBehind(ms, c)
  PROVE  Note(c) \in ToSet(ms)
<1>1. IsTool(Note(c)) /\ Note(c).id = c
  BY DEF Note, Message, IsTool
<1>2. PICK i \in 1..Len(ms) : ms[i].role = "asst" /\ Note(c) \in ToSet(Answers(ms, i))
  BY <1>1, RepairElements
<1>3. /\ Note(c).id \in ToSet(ms[i].calls)
      /\ Note(c) \in ToSet(ms) \/ ~Behind(ms, i, Note(c).id)
  BY <1>2, AnswersFacts
<1> QED
  BY <1>1, <1>2, <1>3 DEF AllBehind

-----------------------------------------------------------------------------
(* The session log and what a reload makes of it. *)
Marks == [role : {"marker"}, id : {"none"}, calls : Seq(Msgs)]
Entries == Msgs \cup Marks

LEMMA EntryFacts ==
  /\ \A x \in Msgs : x \in Entries /\ x.role # "marker"
  /\ \A x \in Marks : x.role = "marker" /\ x.calls \in Seq(Msgs) /\ x \notin Msgs
  /\ \A x \in Entries : x.role # "marker" => x \in Msgs
  /\ \A t \in Seq(Msgs) : Marker(t) \in Marks /\ Marker(t).role = "marker" /\ Marker(t).calls = t
<1>1. \A x \in Msgs : x.role # "marker"
  BY DEF Msgs
<1>2. \A x \in Marks : x.role = "marker" /\ x.calls \in Seq(Msgs)
  <2> DEFINE Q == Seq(Msgs)
  <2>1. Marks = [role : {"marker"}, id : {"none"}, calls : Q]
    BY DEF Marks
  <2> HIDE DEF Q
  <2>2. \A x \in Marks : x.role = "marker" /\ x.calls \in Q
    BY <2>1
  <2> QED
    BY <2>2 DEF Q
<1>3. \A t \in Seq(Msgs) : Marker(t) \in Marks /\ Marker(t).role = "marker" /\ Marker(t).calls = t
  BY DEF Marker, Marks
<1> QED
  BY <1>1, <1>2, <1>3 DEF Entries

LEMMA EntryAppend ==
  ASSUME NEW lg \in Seq(Entries), NEW x \in Entries
  PROVE  Append(lg, x) \in Seq(Entries) /\ ToSet(Append(lg, x)) = ToSet(lg) \cup {x}
<1> DEFINE q == Append(lg, x)
           y == <<x>>
<1>1. q \in Seq(Entries) /\ y \in Seq(Entries) /\ q = lg \o y
  OBVIOUS
<1>2. ToSet(y) = {x}
  BY DEF ToSet
<1> HIDE DEF y, q
<1>3. ToSet(lg \o y) = ToSet(lg) \cup ToSet(y)
  BY <1>1, InConcat
<1> QED
  BY <1>1, <1>2, <1>3 DEF q

MarksOf(lg) == {i \in DOMAIN lg : lg[i].role = "marker"}

(* The last of the markers. *)
LEMMA LastMark ==
  ASSUME NEW N \in Nat, NEW M \in SUBSET (1..N), M # {}
  PROVE  \E i \in M : \A j \in M : j <= i
<1> DEFINE T == {n \in Nat : \A j \in M : j <= n}
<1>1. T \in SUBSET Nat /\ N \in T
  OBVIOUS
<1>2. PICK n \in T : \A m \in T : n <= m
  <2> HIDE DEF T
  <2> QED
    BY <1>1, LeastNatural
<1>3. n \in Nat /\ \A j \in M : j <= n
  OBVIOUS
<1>4. n \in M
  <2>1. SUFFICES ASSUME n \notin M PROVE FALSE
    OBVIOUS
  <2>2. PICK k \in M : TRUE
    OBVIOUS
  <2>3. k \in 1..N /\ k <= n
    BY <1>3
  <2>4. n - 1 \in Nat /\ ~(n <= n - 1)
    BY <1>3, <2>3
  <2>5. ASSUME NEW j \in M PROVE j <= n - 1
    <3>1. j \in 1..N /\ j <= n /\ j # n
      BY <1>3, <2>1
    <3> QED
      BY <1>3, <3>1
  <2>6. n - 1 \in T
    BY <2>4, <2>5
  <2> HIDE DEF T
  <2> QED
    BY <1>2, <2>4, <2>6
<1> QED
  BY <1>3, <1>4

LastOf(lg) == CHOOSE i \in MarksOf(lg) : \A j \in MarksOf(lg) : j <= i

LEMMA LastOfFacts ==
  ASSUME NEW lg \in Seq(Entries), MarksOf(lg) # {}
  PROVE  /\ LastOf(lg) \in 1..Len(lg) /\ lg[LastOf(lg)] \in Marks
         /\ \A j \in MarksOf(lg) : j <= LastOf(lg)
<1> DEFINE M == MarksOf(lg)
           l == LastOf(lg)
<1>1. M \in SUBSET (1..Len(lg)) /\ Len(lg) \in Nat
  BY DEF MarksOf
<1>2. \A i \in M : lg[i].role = "marker" /\ lg[i] \in Entries
  BY DEF MarksOf
<1> HIDE DEF M
<1>3. \E i \in M : \A j \in M : j <= i
  BY <1>1, LastMark DEF M
<1>4. l = CHOOSE i \in M : \A j \in M : j <= i
  BY DEF LastOf, M
<1> HIDE DEF l
<1>5. l \in M /\ \A j \in M : j <= l
  BY <1>3, <1>4
<1>6. lg[l] \in Marks
  BY <1>2, <1>5, EntryFacts DEF Entries
<1> QED
  BY <1>1, <1>5, <1>6 DEF l, M

LEMMA BodyIs ==
  ASSUME NEW lg
  PROVE  /\ MarksOf(lg) = {} => ApplyCompaction(lg) = lg
         /\ MarksOf(lg) # {} =>
              ApplyCompaction(lg) =
                (<<Checkpoint>> \o lg[LastOf(lg)].calls) \o SubSeq(lg, LastOf(lg) + 1, Len(lg))
  BY DEF ApplyCompaction, MarksOf, LastOf

(* Behind the last marker there are messages alone. *)
LEMMA BodyType ==
  ASSUME NEW lg \in Seq(Entries)
  PROVE  ApplyCompaction(lg) \in Seq(Msgs)
<1>1. Len(lg) \in Nat /\ \A i \in 1..Len(lg) : lg[i] \in Entries
  OBVIOUS
<1>2. CASE MarksOf(lg) = {}
  <2>1. \A i \in 1..Len(lg) : lg[i] \in Msgs
    BY <1>1, <1>2, EntryFacts DEF MarksOf
  <2>2. lg \in Seq(Msgs)
    BY <1>1, <2>1
  <2> QED
    BY <1>2, <2>2, BodyIs
<1>3. CASE MarksOf(lg) # {}
  <2> DEFINE l == LastOf(lg)
             t == SubSeq(lg, l + 1, Len(lg))
             h == lg[l].calls
             c == <<Checkpoint>>
  <2>1. l \in 1..Len(lg) /\ lg[l] \in Marks /\ \A j \in MarksOf(lg) : j <= l
    BY <1>3, LastOfFacts
  <2>2. h \in Seq(Msgs)
    BY <2>1, EntryFacts
  <2>3. ApplyCompaction(lg) = (c \o h) \o t
    BY <1>3, BodyIs
  <2> HIDE DEF l, h
  <2>4. t \in Seq(Entries) /\ Len(t) \in Nat /\ \A p \in 1..Len(t) : l + p \in 1..Len(lg) /\ t[p] = lg[l + p]
    BY <1>1, <2>1
  <2>5. ASSUME NEW p \in 1..Len(t) PROVE t[p] \in Msgs
    <3>1. l + p \in 1..Len(lg) /\ t[p] = lg[l + p] /\ ~(l + p <= l)
      BY <2>1, <2>4
    <3>2. l + p \notin MarksOf(lg)
      BY <2>1, <3>1
    <3>3. DOMAIN lg = 1..Len(lg)
      OBVIOUS
    <3>4. lg[l + p].role # "marker"
      BY <3>1, <3>2, <3>3 DEF MarksOf
    <3>5. lg[l + p] \in Entries
      BY <1>1, <3>1
    <3>6. lg[l + p] \in Msgs
      BY <3>4, <3>5, EntryFacts
    <3> QED
      BY <3>1, <3>6
  <2>6. t \in Seq(Msgs)
    <3> HIDE DEF t
    <3> QED
      BY <2>4, <2>5
  <2>7. c \in Seq(Msgs)
    BY MessageTypes
  <2> HIDE DEF t, c
  <2> QED
    BY <2>2, <2>3, <2>6, <2>7
<1> QED
  BY <1>2, <1>3

(* A message appended to the log is appended to what a reload makes of it. *)
LEMMA BodyAppend ==
  ASSUME NEW lg \in Seq(Entries), NEW x \in Msgs
  PROVE  /\ Append(lg, x) \in Seq(Entries)
         /\ ToSet(Append(lg, x)) = ToSet(lg) \cup {x}
         /\ ApplyCompaction(Append(lg, x)) = Append(ApplyCompaction(lg), x)
<1> DEFINE q == Append(lg, x)
           N == Len(lg)
<1>1. x \in Entries /\ x.role # "marker"
  BY EntryFacts
<1>2. q \in Seq(Entries) /\ ToSet(q) = ToSet(lg) \cup {x}
  BY <1>1, EntryAppend
<1>3. /\ N \in Nat /\ Len(q) = N + 1 /\ q[N + 1] = x /\ \A k \in 1..N : q[k] = lg[k]
      /\ DOMAIN lg = 1..N /\ DOMAIN q = 1..(N + 1)
  BY <1>1
<1> HIDE DEF q
<1>4. MarksOf(q) = MarksOf(lg)
  <2>1. ASSUME NEW i \in MarksOf(q) PROVE i \in MarksOf(lg)
    <3>1. i \in 1..(N + 1) /\ q[i].role = "marker"
      BY <1>3 DEF MarksOf
    <3>2. i # N + 1
      BY <1>1, <1>3, <3>1
    <3>3. i \in 1..N
      BY <1>3, <3>1, <3>2
    <3> QED
      BY <1>3, <3>1, <3>3 DEF MarksOf
  <2>2. ASSUME NEW i \in MarksOf(lg) PROVE i \in MarksOf(q)
    <3>1. i \in 1..N /\ lg[i].role = "marker"
      BY <1>3 DEF MarksOf
    <3>2. i \in 1..(N + 1) /\ q[i] = lg[i]
      BY <1>3, <3>1
    <3> QED
      BY <1>3, <3>1, <3>2 DEF MarksOf
  <2> QED
    BY <2>1, <2>2
<1>5. CASE MarksOf(lg) = {}
  <2>1. ApplyCompaction(q) = q /\ ApplyCompaction(lg) = lg
    BY <1>4, <1>5, BodyIs
  <2> QED
    BY <1>2, <2>1 DEF q
<1>6. CASE MarksOf(lg) # {}
  <2> DEFINE l == LastOf(lg)
             t == SubSeq(lg, l + 1, N)
             h == lg[l].calls
             c == <<Checkpoint>>
             ch == c \o h
  <2>1. LastOf(q) = l
    BY <1>4 DEF LastOf
  <2>2. l \in 1..N /\ lg[l] \in Marks
    BY <1>6, LastOfFacts
  <2>3. h \in Seq(Msgs) /\ c \in Seq(Msgs)
    BY <2>2, EntryFacts, MessageTypes
  <2>4. q[l] = lg[l]
    BY <1>3, <2>2
  <2>5. ApplyCompaction(lg) = ch \o t
    BY <1>6, BodyIs
  <2>6. ApplyCompaction(q) = ch \o SubSeq(q, l + 1, N + 1)
    <3>1. ApplyCompaction(q) = (c \o q[LastOf(q)].calls) \o SubSeq(q, LastOf(q) + 1, Len(q))
      BY <1>4, <1>6, BodyIs
    <3> QED
      BY <1>3, <2>1, <2>4, <3>1
  <2> HIDE DEF l, h, c
  <2>7. ch \in Seq(Entries)
    <3>1. ch \in Seq(Msgs)
      BY <2>3
    <3> HIDE DEF ch
    <3> QED
      BY <3>1, EntryFacts
  <2>8. SubSeq(q, l + 1, N + 1) = Append(t, x)
    <3>1. t \in Seq(Entries) /\ Len(t) = N - l /\ \A p \in 1..(N - l) : t[p] = lg[l + p]
      BY <2>2
    <3>2. LET b == SubSeq(q, l + 1, N + 1) IN
          b \in Seq(Entries) /\ Len(b) = N + 1 - l /\ \A p \in 1..(N + 1 - l) : b[p] = q[l + p]
      BY <1>2, <1>3, <2>2
    <3> DEFINE b == SubSeq(q, l + 1, N + 1)
               d == Append(t, x)
    <3> HIDE DEF t
    <3>3. d \in Seq(Entries) /\ Len(d) = Len(t) + 1 /\ d[Len(t) + 1] = x /\ \A p \in 1..Len(t) : d[p] = t[p]
      BY <1>1, <3>1
    <3> HIDE DEF b, d
    <3>4. b \in Seq(Entries) /\ Len(b) = N + 1 - l /\ \A p \in 1..(N + 1 - l) : b[p] = q[l + p]
      BY <3>2 DEF b
    <3>5. Len(b) = Len(d)
      BY <1>3, <2>2, <3>1, <3>3, <3>4
    <3>6. ASSUME NEW p \in 1..Len(b) PROVE b[p] = d[p]
      <4>1. CASE p = N + 1 - l
        <5>1. l + p = N + 1 /\ p = Len(t) + 1
          BY <1>3, <2>2, <3>1, <4>1
        <5> QED
          BY <1>3, <3>3, <3>4, <5>1
      <4>2. CASE p # N + 1 - l
        <5>0. p \in Nat /\ p >= 1 /\ p <= N + 1 - l
          BY <1>3, <2>2, <3>4
        <5>1. p \in 1..(N - l) /\ l + p \in 1..N
          BY <1>3, <2>2, <4>2, <5>0
        <5>2. b[p] = q[l + p] /\ q[l + p] = lg[l + p] /\ t[p] = lg[l + p] /\ d[p] = t[p]
          BY <1>3, <3>1, <3>3, <3>4, <5>1
        <5> QED
          BY <5>2
      <4> QED
        BY <4>1, <4>2
    <3>7. b = d
      BY <3>3, <3>4, <3>5, <3>6
    <3> QED
      BY <3>7 DEF b, d
  <2>9. t \in Seq(Entries)
    BY <2>2
  <2> HIDE DEF t, ch
  <2>10. ch \o Append(t, x) = Append(ch \o t, x)
    BY <1>1, <2>7, <2>9
  <2> QED
    BY <1>2, <2>5, <2>6, <2>8, <2>10 DEF q
<1> QED
  BY <1>5, <1>6

(* A marker appended to the log replaces all that was before it. *)
LEMMA BodyMark ==
  ASSUME NEW lg \in Seq(Entries), NEW t \in Seq(Msgs)
  PROVE  /\ Append(lg, Marker(t)) \in Seq(Entries)
         /\ \A x \in Msgs : x \in ToSet(Append(lg, Marker(t))) <=> x \in ToSet(lg)
         /\ ApplyCompaction(Append(lg, Marker(t))) = <<Checkpoint>> \o t
<1> DEFINE m == Marker(t)
           q == Append(lg, m)
           N == Len(lg)
<1>1. m \in Marks /\ m.role = "marker" /\ m.calls = t /\ m \notin Msgs /\ m \in Entries
  BY EntryFacts DEF Entries
<1> HIDE DEF m
<1>2. q \in Seq(Entries) /\ ToSet(q) = ToSet(lg) \cup {m}
  BY <1>1, EntryAppend
<1>3. /\ N \in Nat /\ Len(q) = N + 1 /\ q[N + 1] = m /\ DOMAIN q = 1..(N + 1)
  BY <1>1
<1> HIDE DEF q
<1>4. N + 1 \in MarksOf(q)
  BY <1>1, <1>3 DEF MarksOf
<1>5. LastOf(q) = N + 1
  <2>1. LastOf(q) \in 1..(N + 1) /\ \A j \in MarksOf(q) : j <= LastOf(q)
    BY <1>2, <1>3, <1>4, LastOfFacts
  <2>2. N + 1 <= LastOf(q)
    BY <1>4, <2>1
  <2> QED
    BY <1>3, <2>1, <2>2
<1>6. ApplyCompaction(q) = (<<Checkpoint>> \o t) \o SubSeq(q, (N + 1) + 1, N + 1)
  <2>1. ApplyCompaction(q) = (<<Checkpoint>> \o q[LastOf(q)].calls) \o SubSeq(q, LastOf(q) + 1, Len(q))
    BY <1>4, BodyIs
  <2> QED
    BY <1>1, <1>3, <1>5, <2>1
<1>7. SubSeq(q, (N + 1) + 1, N + 1) = <<>>
  BY <1>2, <1>3
<1>8. ApplyCompaction(q) = <<Checkpoint>> \o t
  <2> DEFINE u == <<Checkpoint>> \o t
  <2>1. u \in Seq(Msgs)
    BY MessageTypes, InCons
  <2> HIDE DEF u
  <2>2. u \o <<>> = u
    BY <2>1, ConcatNone
  <2>3. ApplyCompaction(q) = u \o <<>>
    BY <1>6, <1>7 DEF u
  <2> QED
    BY <2>2, <2>3 DEF u
<1> QED
  BY <1>1, <1>2, <1>8 DEF q, m

-----------------------------------------------------------------------------
(* The transcript ms, what a reload makes of the log (b), the entries of   *)
(* the log (T) and what became of the calls (cl): no call is made or       *)
(* answered twice, a call that is free was never seen, and a result in the *)
(* log is found by every reload.                                           *)
Unseen(ms, b, T, c) ==
  /\ ~Calling(ms, c) /\ ~Answering(ms, c) /\ ~Calling(b, c) /\ ~Answering(b, c)
  /\ Tool(c) \notin T
FoundAgain(ms, b, c) ==
  Note(c) \notin ToSet(b) /\ Note(c) \notin ToSet(ms) /\ AllBehind(b, c) /\ AllBehind(ms, c)

Sound(ms, b, T, cl) ==
  /\ Fit(ms) /\ Fit(b)
  /\ \A c \in Calls : cl[c] = "free" => Unseen(ms, b, T, c)
  /\ \A c \in Calls : Tool(c) \in T => FoundAgain(ms, b, c)

LEMMA BehindAppend ==
  ASSUME NEW b \in Seq(Msgs), NEW x \in Msgs, NEW c
  PROVE  /\ AllBehind(b, c) /\ (x.role = "asst" => c \notin ToSet(x.calls)) => AllBehind(Append(b, x), c)
         /\ IsTool(x) /\ x.id = c => AllBehind(Append(b, x), c)
<1> DEFINE q == Append(b, x)
           N == Len(b)
<1>1. N \in Nat /\ Len(q) = N + 1 /\ q[N + 1] = x /\ \A k \in 1..N : q[k] = b[k]
  OBVIOUS
<1> HIDE DEF q
<1>2. \A i \in 1..Len(q) : i \in 1..N \/ i = N + 1
  BY <1>1
<1>3. ASSUME NEW i \in 1..N, Behind(b, i, c) PROVE Behind(q, i, c)
  <2>1. PICK k \in (i + 1)..N : IsTool(b[k]) /\ b[k].id = c
    BY <1>3 DEF Behind
  <2>2. k \in (i + 1)..Len(q) /\ k \in 1..N
    BY <1>1
  <2> QED
    BY <1>1, <2>1, <2>2 DEF Behind
<1>4. ASSUME AllBehind(b, c), x.role = "asst" => c \notin ToSet(x.calls) PROVE AllBehind(q, c)
  <2>1. SUFFICES ASSUME NEW i \in 1..Len(q), q[i].role = "asst", c \in ToSet(q[i].calls)
                 PROVE  Behind(q, i, c)
    BY DEF AllBehind
  <2>2. i \in 1..N /\ q[i] = b[i]
    BY <1>1, <1>2, <1>4, <2>1
  <2> QED
    BY <1>3, <1>4, <2>1, <2>2 DEF AllBehind
<1>5. ASSUME IsTool(x), x.id = c PROVE AllBehind(q, c)
  <2>1. SUFFICES ASSUME NEW i \in 1..Len(q), q[i].role = "asst"
                 PROVE  Behind(q, i, c)
    BY DEF AllBehind
  <2>2. i \in 1..N
    BY <1>1, <1>2, <1>5, <2>1, RoleFacts
  <2>3. N + 1 \in (i + 1)..Len(q)
    BY <1>1, <2>2
  <2> QED
    BY <1>1, <1>5, <2>3 DEF Behind
<1> QED
  BY <1>4, <1>5 DEF q

LEMMA ToolFacts ==
  ASSUME NEW c \in Calls
  PROVE  /\ Tool(c) \in Msgs /\ IsTool(Tool(c)) /\ Tool(c).id = c /\ Tool(c).role # "asst"
         /\ Note(c) \in Msgs /\ IsTool(Note(c)) /\ Note(c).id = c /\ Note(c).role # "asst"
         /\ \A d \in Calls : Note(c) # Tool(d) /\ (Tool(c) = Tool(d) => c = d)
         /\ \A x : Plain(x) => x # Tool(c) /\ x # Note(c)
         /\ \A cs : Asst(cs) # Tool(c) /\ Asst(cs) # Note(c)
<1>1. /\ Tool(c) \in Msgs /\ IsTool(Tool(c)) /\ Tool(c).id = c /\ Tool(c).role = "tool"
      /\ Note(c) \in Msgs /\ IsTool(Note(c)) /\ Note(c).id = c /\ Note(c).role = "note"
  BY MessageTypes DEF Tool, Note, Message, IsTool
<1>2. \A d \in Calls : Tool(d).role = "tool" /\ Tool(d).id = d
  BY DEF Tool, Message
<1>3. \A cs : Asst(cs).role = "asst"
  BY DEF Asst, Message
<1>4. \A x : Plain(x) => ~IsTool(x)
  BY DEF Plain
<1> QED
  BY <1>1, <1>2, <1>3, <1>4

LEMMA SoundCalls ==
  ASSUME NEW ms, NEW b, NEW T, NEW cl, NEW cl2, Sound(ms, b, T, cl),
         \A c \in Calls : cl2[c] = "free" => cl[c] = "free"
  PROVE  Sound(ms, b, T, cl2)
  BY DEF Sound

LEMMA SoundLog ==
  ASSUME NEW ms, NEW b \in Seq(Msgs), NEW T, NEW cl, NEW x, Sound(ms, b, T, cl), Plain(x)
  PROVE  Sound(ms, Append(b, x), T \cup {x}, cl)
<1> DEFINE q == Append(b, x)
<1>1. Spoken(x) /\ Made(x) = {} /\ NewTo(x, b)
  BY PlainSpoken
<1>2. Widens(q, b, x)
  BY <1>1, AppendWidens
<1> HIDE DEF q
<1>3. /\ ToSet(q) = ToSet(b) \cup {x} /\ (Fit(b) => Fit(q))
      /\ \A c : /\ (Calling(q, c) <=> Calling(b, c)) /\ (Answering(q, c) <=> Answering(b, c))
                /\ AllBehind(b, c) => AllBehind(q, c)
  BY <1>1, <1>2 DEF Widens
<1>4. \A c \in Calls : x # Tool(c) /\ x # Note(c)
  BY ToolFacts
<1>5. \A c \in Calls : Unseen(ms, b, T, c) => Unseen(ms, q, T \cup {x}, c)
  BY <1>3, <1>4 DEF Unseen
<1>6. \A c \in Calls : FoundAgain(ms, b, c) => FoundAgain(ms, q, c)
  BY <1>3, <1>4 DEF FoundAgain
<1>7. Sound(ms, q, T \cup {x}, cl)
  BY <1>3, <1>4, <1>5, <1>6 DEF Sound
<1> QED
  BY <1>7 DEF q

LEMMA SoundRequest ==
  ASSUME NEW ms, NEW b \in Seq(Msgs), NEW T, NEW cl, NEW cl2, Sound(ms, b, T, cl),
         NEW cs \in Seq(Calls), IsInjective(cs), \A c \in ToSet(cs) : cl[c] = "free",
         \A c \in Calls : cl2[c] = "free" => cl[c] = "free" /\ c \notin ToSet(cs)
  PROVE  Sound(ms, Append(b, Asst(cs)), T \cup {Asst(cs)}, cl2)
<1> DEFINE x == Asst(cs)
           y == <<x>>
           q == Append(b, x)
<1>1. x \in Msgs /\ x.role = "asst" /\ x.calls = cs /\ ~IsTool(x) /\ ToSet(cs) \subseteq Calls
  BY AsstFacts, InSeq
<1>2. \A c \in Calls : x # Tool(c) /\ x # Note(c)
  BY ToolFacts
<1> HIDE DEF x
<1>3. y \in Seq(Msgs) /\ ToSet(y) = {x} /\ q = b \o y
  BY <1>1, InAppend DEF ToSet
<1>4. Fit(y)
  <2>1. Len(y) = 1 /\ y[1] = x /\ \A k \in 1..Len(y) : k = 1
    BY <1>1
  <2> QED
    BY <1>1, <2>1 DEF Fit
<1>5. \A c : (Calling(y, c) <=> c \in ToSet(cs)) /\ ~Answering(y, c)
  BY <1>1, <1>3 DEF Calling, Answering
<1> HIDE DEF y
<1>6. /\ ToSet(b \o y) = ToSet(b) \cup {x}
      /\ \A c : /\ Calling(b \o y, c) <=> Calling(b, c) \/ c \in ToSet(cs)
                /\ Answering(b \o y, c) <=> Answering(b, c)
  <2>1. ToSet(b \o y) = ToSet(b) \cup ToSet(y)
    BY <1>3, InConcat
  <2> QED
    BY <1>3, <1>5, <2>1, MentionsConcat
<1>7. \A c \in ToSet(cs) : Unseen(ms, b, T, c)
  BY <1>1 DEF Sound
<1>8. Fit(b \o y)
  <2>1. Fit(b) /\ \A c \in ToSet(cs) : ~Calling(b, c)
    BY <1>7 DEF Sound, Unseen
  <2> QED
    BY <1>3, <1>4, <1>5, <2>1, FitConcat
<1>9. \A c : AllBehind(b, c) /\ c \notin ToSet(cs) => AllBehind(q, c)
  BY <1>1, BehindAppend
<1> HIDE DEF q
<1>10. ASSUME NEW c \in Calls, cl2[c] = "free" PROVE Unseen(ms, q, T \cup {x}, c)
  <2>1. Unseen(ms, b, T, c) /\ c \notin ToSet(cs)
    BY <1>10 DEF Sound
  <2> QED
    BY <1>2, <1>3, <1>6, <2>1 DEF Unseen
<1>11. ASSUME NEW c \in Calls, Tool(c) \in T \cup {x} PROVE FoundAgain(ms, q, c)
  <2>1. Tool(c) \in T
    BY <1>2, <1>11
  <2>2. c \notin ToSet(cs)
    BY <1>7, <2>1 DEF Unseen
  <2>3. FoundAgain(ms, b, c)
    BY <2>1 DEF Sound
  <2> QED
    BY <1>2, <1>3, <1>6, <1>9, <2>2, <2>3 DEF FoundAgain
<1>12. Sound(ms, q, T \cup {x}, cl2)
  BY <1>3, <1>8, <1>10, <1>11 DEF Sound
<1> QED
  BY <1>12 DEF q, x

LEMMA SoundResult ==
  ASSUME NEW ms, NEW b \in Seq(Msgs), NEW T, NEW cl, Sound(ms, b, T, cl),
         NEW c \in Calls, cl[c] # "free", ~Answering(b, c), Note(c) \notin ToSet(ms), AllBehind(ms, c)
  PROVE  /\ Sound(ms, Append(b, Tool(c)), T \cup {Tool(c)}, cl)
         /\ \A d : /\ Answering(Append(b, Tool(c)), d) <=> Answering(b, d) \/ d = c
                   /\ ToSet(b) \subseteq ToSet(Append(b, Tool(c)))
<1> DEFINE x == Tool(c)
           y == <<x>>
           q == Append(b, x)
<1>1. x \in Msgs /\ IsTool(x) /\ x.id = c /\ x.role # "asst"
  BY ToolFacts
<1>2. \A d \in Calls : x # Note(d) /\ (Tool(d) = x => d = c)
  BY ToolFacts
<1> HIDE DEF x
<1>3. y \in Seq(Msgs) /\ ToSet(y) = {x} /\ q = b \o y
  BY <1>1, InAppend DEF ToSet
<1>4. Fit(y)
  <2>1. Len(y) = 1 /\ y[1] = x /\ \A k \in 1..Len(y) : k = 1
    BY <1>1
  <2> QED
    BY <1>1, <2>1 DEF Fit
<1>5. \A d : ~Calling(y, d) /\ (Answering(y, d) <=> d = c)
  BY <1>1, <1>3 DEF Calling, Answering
<1> HIDE DEF y
<1>6. /\ ToSet(b \o y) = ToSet(b) \cup {x}
      /\ \A d : /\ Calling(b \o y, d) <=> Calling(b, d)
                /\ Answering(b \o y, d) <=> Answering(b, d) \/ d = c
  <2>1. ToSet(b \o y) = ToSet(b) \cup ToSet(y)
    BY <1>3, InConcat
  <2> QED
    BY <1>3, <1>5, <2>1, MentionsConcat
<1>7. Fit(b \o y)
  <2>1. Fit(b)
    BY DEF Sound
  <2> QED
    BY <1>3, <1>4, <1>5, <2>1, FitConcat
<1>8. AllBehind(q, c) /\ \A d : AllBehind(b, d) => AllBehind(q, d)
  BY <1>1, BehindAppend
<1> HIDE DEF q
<1>9. ASSUME NEW d \in Calls, cl[d] = "free" PROVE Unseen(ms, q, T \cup {x}, d)
  <2>1. Unseen(ms, b, T, d) /\ d # c
    BY <1>9 DEF Sound
  <2> QED
    BY <1>2, <1>3, <1>6, <2>1 DEF Unseen
<1>10. Note(c) \notin ToSet(b)
  <2>1. IsTool(Note(c)) /\ Note(c).id = c
    BY ToolFacts
  <2> QED
    BY <2>1 DEF Answering
<1>11. ASSUME NEW d \in Calls, Tool(d) \in T \cup {x} PROVE FoundAgain(ms, q, d)
  <2>1. CASE d = c
    BY <1>2, <1>3, <1>6, <1>8, <1>10, <2>1 DEF FoundAgain
  <2>2. CASE d # c
    <3>1. FoundAgain(ms, b, d)
      BY <1>2, <1>11, <2>2 DEF Sound
    <3> QED
      BY <1>2, <1>3, <1>6, <1>8, <3>1 DEF FoundAgain
  <2> QED
    BY <2>1, <2>2
<1>12. Sound(ms, q, T \cup {x}, cl)
  BY <1>3, <1>7, <1>9, <1>11 DEF Sound
<1>13. \A d : (Answering(q, d) <=> Answering(b, d) \/ d = c) /\ ToSet(b) \subseteq ToSet(q)
  BY <1>3, <1>6
<1> QED
  BY <1>12, <1>13 DEF q, x

(* A message put into the transcript; the calls it makes are taken and     *)
(* have no result in the log.                                              *)
LEMMA SoundWiden ==
  ASSUME NEW ms, NEW b, NEW T, NEW cl, Sound(ms, b, T, cl), NEW x, Spoken(x), NEW q, Widens(q, ms, x),
         NewTo(x, ms), \A c \in Made(x) : cl[c] # "free" /\ Tool(c) \notin T
  PROVE  Sound(q, b, T, cl)
<1>1. /\ ToSet(q) = ToSet(ms) \cup {x} /\ (Fit(ms) => Fit(q))
      /\ \A c : /\ Calling(q, c) <=> Calling(ms, c) \/ c \in Made(x)
                /\ Answering(q, c) <=> Answering(ms, c)
                /\ AllBehind(ms, c) /\ c \notin Made(x) => AllBehind(q, c)
  BY DEF Widens
<1>2. \A c \in Calls : x # Note(c)
  BY ToolFacts DEF Spoken
<1>3. \A c \in Calls : cl[c] = "free" => Unseen(q, b, T, c)
  BY <1>1 DEF Sound, Unseen
<1>4. \A c \in Calls : FoundAgain(ms, b, c) /\ c \notin Made(x) => FoundAgain(q, b, c)
  BY <1>1, <1>2 DEF FoundAgain
<1> QED
  BY <1>1, <1>3, <1>4 DEF Sound

LEMMA SoundGroup ==
  ASSUME NEW ms \in Seq(Msgs), NEW b, NEW T, NEW cl, Sound(ms, b, T, cl),
         NEW cs \in Seq(Calls), IsInjective(cs), NEW q, Pushes(q, ms, cs),
         \A c \in ToSet(cs) : cl[c] # "free" /\ ~Calling(ms, c) /\ ~Answering(ms, c)
  PROVE  Sound(q, b, T, cl)
<1>1. /\ ToSet(q) = ToSet(ms) \cup {Asst(cs)} \cup {Tool(c) : c \in ToSet(cs)}
      /\ Fit(ms) => Fit(q)
      /\ \A c : /\ Calling(q, c) <=> Calling(ms, c) \/ c \in ToSet(cs)
                /\ Answering(q, c) <=> Answering(ms, c) \/ c \in ToSet(cs)
                /\ AllBehind(ms, c) => AllBehind(q, c)
  BY DEF Pushes
<1>2. ToSet(cs) \subseteq Calls /\ \A c \in Calls : Note(c) # Asst(cs) /\ \A d \in Calls : Note(c) # Tool(d)
  BY ToolFacts, InSeq
<1>3. Fit(q)
  BY <1>1 DEF Sound
<1>4. \A c \in Calls : cl[c] = "free" => Unseen(q, b, T, c)
  BY <1>1 DEF Sound, Unseen
<1>5. \A c \in Calls : FoundAgain(ms, b, c) => FoundAgain(q, b, c)
  BY <1>1, <1>2 DEF FoundAgain
<1> QED
  BY <1>3, <1>4, <1>5 DEF Sound

LEMMA RepairType ==
  ASSUME NEW ms \in Seq(Msgs)
  PROVE  RepairToolPairs(ms) \in Seq(Msgs)
<1> DEFINE gs == GroupsOf(ms)
           G == Seq(Msgs)
<1>1. gs \in Seq(Seq(Msgs)) /\ RepairToolPairs(ms) = FlattenSeq(gs)
  BY GroupTypes
<1> HIDE DEF gs
<1>2. <<>> \in G /\ (\A s, t \in G : s \o t \in G) /\ \A k \in 1..Len(gs) : gs[k] \in G
  BY <1>1
<1> HIDE DEF G
<1>3. FlattenSeq(gs) \in G
  BY <1>1, <1>2, FlattenIn
<1> QED
  BY <1>1, <1>3 DEF G

(* The repaired transcript, of the runtime or of a reload. *)
LEMMA RepairSound ==
  ASSUME NEW ms \in Seq(Msgs)
  PROVE  LET q == RepairToolPairs(ms) IN
         /\ Fit(ms) => Fit(q)
         /\ \A c : (Calling(q, c) \/ Answering(q, c) => Calling(ms, c)) /\ AllBehind(q, c)
         /\ \A c \in Calls : Note(c) \in ToSet(q) /\ AllBehind(ms, c) => Note(c) \in ToSet(ms)
<1> DEFINE q == RepairToolPairs(ms)
<1>1. Fit(ms) => Fit(q)
  BY RepairFit
<1>2. \A c : Calling(q, c) \/ Answering(q, c) => Calling(ms, c)
  BY RepairMentions
<1>3. \A c \in Calls : Note(c) \in ToSet(q) /\ AllBehind(ms, c) => Note(c) \in ToSet(ms)
  BY RepairNotes
<1>4. q \in Seq(Msgs) /\ Paired(q)
  BY RepairType, RepairPairs
<1> HIDE DEF q
<1>5. \A c : AllBehind(q, c)
  BY <1>4, PairedBehind
<1> QED
  BY <1>1, <1>2, <1>3, <1>5 DEF q

LEMMA SoundRepair ==
  ASSUME NEW ms \in Seq(Msgs), NEW b, NEW T, NEW cl, Sound(ms, b, T, cl)
  PROVE  Sound(RepairToolPairs(ms), b, T, cl)
<1> DEFINE q == RepairToolPairs(ms)
<1>1. /\ Fit(ms) => Fit(q)
      /\ \A c : (Calling(q, c) \/ Answering(q, c) => Calling(ms, c)) /\ AllBehind(q, c)
      /\ \A c \in Calls : Note(c) \in ToSet(q) /\ AllBehind(ms, c) => Note(c) \in ToSet(ms)
  BY RepairSound
<1> HIDE DEF q
<1>2. \A c \in Calls : Unseen(ms, b, T, c) => Unseen(q, b, T, c)
  BY <1>1 DEF Unseen
<1>3. \A c \in Calls : FoundAgain(ms, b, c) => FoundAgain(q, b, c)
  BY <1>1 DEF FoundAgain
<1>4. Sound(q, b, T, cl)
  BY <1>1, <1>2, <1>3 DEF Sound
<1> QED
  BY <1>4 DEF q

LEMMA SoundReload ==
  ASSUME NEW ms, NEW b \in Seq(Msgs), NEW T, NEW cl, Sound(ms, b, T, cl)
  PROVE  Sound(RepairToolPairs(b), b, T, cl)
<1> DEFINE q == RepairToolPairs(b)
<1>1. /\ Fit(b) => Fit(q)
      /\ \A c : (Calling(q, c) \/ Answering(q, c) => Calling(b, c)) /\ AllBehind(q, c)
      /\ \A c \in Calls : Note(c) \in ToSet(q) /\ AllBehind(b, c) => Note(c) \in ToSet(b)
  BY RepairSound
<1> HIDE DEF q
<1>2. \A c \in Calls : Unseen(ms, b, T, c) => Unseen(q, b, T, c)
  BY <1>1 DEF Unseen
<1>3. \A c \in Calls : FoundAgain(ms, b, c) => FoundAgain(q, b, c)
  BY <1>1 DEF FoundAgain
<1>4. Sound(q, b, T, cl)
  BY <1>1, <1>2, <1>3 DEF Sound
<1> QED
  BY <1>4 DEF q

(* After a compaction the transcript is what a reload gives. *)
LEMMA SoundFold ==
  ASSUME NEW ms, NEW b, NEW T, NEW T2, NEW cl, Sound(ms, b, T, cl), NEW q, Folds(q, ms),
         \A c \in Calls : Tool(c) \in T2 <=> Tool(c) \in T
  PROVE  Sound(RepairToolPairs(q), q, T2, cl)
<1>1. /\ q \in Seq(Msgs) /\ ToSet(q) \subseteq ToSet(ms) \cup {Checkpoint}
      /\ Fit(ms) => Fit(q)
      /\ \A c : /\ (Calling(q, c) => Calling(ms, c)) /\ (Answering(q, c) => Answering(ms, c))
                /\ AllBehind(ms, c) => AllBehind(q, c)
  BY DEF Folds
<1>2. \A c \in Calls : Note(c) # Checkpoint
  BY ToolFacts, PlainMessages
<1>3. \A c \in Calls : Unseen(ms, b, T, c) => Unseen(ms, q, T2, c)
  BY <1>1 DEF Unseen
<1>4. \A c \in Calls : FoundAgain(ms, b, c) => FoundAgain(ms, q, c)
  BY <1>1, <1>2 DEF FoundAgain
<1>5. Sound(ms, q, T2, cl)
  BY <1>1, <1>3, <1>4 DEF Sound
<1> QED
  BY <1>1, <1>5, SoundReload

-----------------------------------------------------------------------------
(* The transcript and the log under the turn loop.                         *)
Body == ApplyCompaction(log)

TTypes == msgs \in Seq(Msgs) /\ log \in Seq(Entries) /\ hist.folded \in BOOLEAN

(* Every result is behind a call it answers, and a compaction cuts the     *)
(* transcript where it still has messages.                                 *)
Shape == Owned(msgs) /\ compact.cut \in 0..Len(msgs)

(* A command of a closed runtime that runs on is a disturbance. *)
Strays == hist.strayed \in BOOLEAN /\ \A o \in Owners : cmd[o] = "stray" => hist.strayed

(* The calls of an answer that is not in the transcript yet are new to it, *)
(* and a result is logged once, while the transcript holds the group.      *)
AtCalls(o) ==
  /\ loop[o].pc \in {"tools", "final", "persist"} =>
       IsInjective(loop[o].calls) /\ \A c \in ToSet(loop[o].calls) : calls[c] # "free"
  /\ loop[o].pc \in {"tools", "final"} =>
       \A c \in ToSet(loop[o].calls) :
         ~Calling(msgs, c) /\ ~Answering(msgs, c) /\ Tool(c) \notin ToSet(log)
  /\ loop[o].pc \in {"tools", "persist"} =>
       \A c \in ToSet(loop[o].calls) : ~Answering(Body, c)
  /\ loop[o].pc = "persist" =>
       \A c \in ToSet(loop[o].calls) : Note(c) \notin ToSet(msgs) /\ AllBehind(msgs, c)

(* The notice or the answer is logged before it is pushed. *)
AtNotice(o) ==
  /\ loop[o].pc \in {"giveup", "errpush"} => Asst(<<>>) \in ToSet(Body)
  /\ loop[o].pc \in {"tools", "final"} => Asst(loop[o].calls) \in ToSet(Body)

(* Once a request was made, what it carried was asked, and until the       *)
(* answer is pushed only user messages came after it.                      *)
Heard(o) ==
  /\ loop[o].pre \in 0..Len(msgs)
  /\ \A k \in 1..Len(msgs) :
       k <= loop[o].pre /\ msgs[k].role = "user" => msgs[k].id \in hist.asked

PastRequest(l) ==
  \/ l.pc \in {"stream", "final", "giveup", "errpush", "stop", "tools", "persist"}
  \/ l.pc = "top" /\ l.round >= MaxToolRounds

AtAnswer(o) ==
  /\ PastRequest(loop[o]) => Heard(o)
  /\ loop[o].pc \in {"stream", "final"} =>
       \A k \in 1..Len(msgs) : k > loop[o].pre => msgs[k].role = "user"

(* Between the repair and the request every call is answered. *)
Requesting(l) == l.pc \in {"compact?", "compacting", "snap"}
AtRequest(o) == Requesting(loop[o]) => Paired(msgs)

InLoop(o) == AtCalls(o) /\ AtNotice(o) /\ AtAnswer(o) /\ AtRequest(o)

(* A message is in the log, or about to be logged by the send it is of. *)
Logged ==
  open => \A m \in ToSet(msgs) : ~IsTool(m) =>
            m \in ToSet(Body) \/ \E o \in Owners : m = User(o) /\ cmd[o] \in {"owner", "queued"}

Settled == Users(msgs) \subseteq hist.asked \cup hist.dropped \cup hist.unheard
Given == ~Busy => Settled

Tidy ==
  /\ Sound(msgs, Body, ToSet(log), calls)
  /\ \A o \in Owners : InLoop(o)
  /\ Logged /\ Given

TInv == TTypes /\ Shape /\ Strays /\ (Undisturbed => Tidy)

(* A loop nothing is asked of. *)
Carefree(l) ==
  l.pc \in {"off", "begin", "end", "forced"} \/ (l.pc = "top" /\ ~(l.round >= MaxToolRounds))

LEMMA BodyFacts ==
  ASSUME TTypes
  PROVE  Body \in Seq(Msgs) /\ ToSet(Body) \subseteq Msgs
<1>1. Body \in Seq(Msgs)
  BY BodyType DEF TTypes, Body
<1> QED
  BY <1>1, InSeq

LEMMA LoopCalls ==
  ASSUME Types, NEW o \in Owners
  PROVE  loop[o].calls \in Seq(Calls) /\ ToSet(loop[o].calls) \subseteq Calls
<1>1. loop[o].calls \in Seq(Calls)
  BY DEF Types, LoopOK
<1> QED
  BY <1>1, InSeq

(* Nothing happens to the transcript and the log. *)
LEMMA SilentLoop ==
  ASSUME Types, NEW o \in Owners, InLoop(o), loop'[o] = loop[o], msgs' = msgs, log' = log,
         \A c \in Calls : calls'[c] = "free" => calls[c] = "free",
         hist.asked \subseteq hist'.asked
  PROVE  InLoop(o)'
<1>1. ToSet(loop[o].calls) \subseteq Calls /\ Body' = Body
  BY LoopCalls DEF Body
<1>2. AtCalls(o)'
  BY <1>1 DEF InLoop, AtCalls
<1>3. AtNotice(o)'
  BY <1>1 DEF InLoop, AtNotice
<1>4. AtAnswer(o)'
  BY DEF InLoop, AtAnswer, Heard
<1>5. AtRequest(o)'
  BY DEF InLoop, AtRequest
<1> QED
  BY <1>2, <1>3, <1>4, <1>5 DEF InLoop

Commanded ==
  open' => open /\ \A o \in Owners : cmd[o] \in {"owner", "queued"} => cmd'[o] \in {"owner", "queued"}

LEMMA SilentLogged ==
  ASSUME Logged, msgs' = msgs, log' = log, Commanded
  PROVE  Logged'
<1>1. Body' = Body
  BY DEF Body
<1> QED
  BY <1>1 DEF Logged, Commanded

(* The history grows. *)
HistGrows ==
  /\ hist.asked \subseteq hist'.asked /\ hist.dropped \subseteq hist'.dropped
  /\ hist.unheard \subseteq hist'.unheard

LEMMA SilentStep ==
  ASSUME Types, TInv, msgs' = msgs, log' = log, compact'.cut \in 0..Len(msgs),
         \A o \in Owners : \/ Carefree(loop'[o]) \/ loop'[o] = loop[o]
                           \/ Requesting(loop[o]) /\ Requesting(loop'[o]),
         \A c \in Calls : calls'[c] = "free" => calls[c] = "free", Commanded,
         hist'.folded \in BOOLEAN, Strays', Undisturbed' => Undisturbed, HistGrows,
         ~Busy' => ~Busy \/ Settled'
  PROVE  TInv'
<1>1. TTypes'
  BY DEF TInv, TTypes
<1>2. Shape'
  BY DEF TInv, Shape
<1>3. ASSUME Undisturbed' PROVE Tidy'
  <2>1. Tidy /\ Body' = Body
    BY <1>3 DEF TInv, Body
  <2>2. Sound(msgs, Body, ToSet(log), calls')
    BY <2>1, SoundCalls DEF Tidy
  <2>3. ASSUME NEW o \in Owners PROVE InLoop(o)'
    <3>1. CASE Carefree(loop'[o])
      BY <3>1 DEF InLoop, AtCalls, AtNotice, AtAnswer, AtRequest, Carefree, PastRequest, Requesting
    <3>2. CASE loop'[o] = loop[o]
      BY <2>1, <3>2, SilentLoop DEF Tidy, HistGrows
    <3>3. CASE Requesting(loop[o]) /\ Requesting(loop'[o])
      <4>1. Paired(msgs)
        BY <2>1, <3>3 DEF Tidy, InLoop, AtRequest
      <4> QED
        BY <3>3, <4>1 DEF InLoop, AtCalls, AtNotice, AtAnswer, AtRequest, PastRequest, Requesting
    <3> QED
      BY <3>1, <3>2, <3>3
  <2>4. Logged'
    BY <2>1, SilentLogged DEF Tidy
  <2>5. Given'
    <3>1. Settled => Settled'
      BY DEF Settled, HistGrows
    <3> QED
      BY <2>1, <3>1 DEF Tidy, Given
  <2> QED
    BY <2>1, <2>2, <2>3, <2>4, <2>5 DEF Tidy
<1> QED
  BY <1>1, <1>2, <1>3 DEF TInv

(* The history. *)
LEMMA HistFields ==
  ASSUME HistOK, NEW us
  PROVE  /\ LET g == GiveUp(us)
            IN /\ g.asked = hist.asked /\ g.dropped = hist.dropped \cup (us \ hist.asked)
               /\ g.unheard = hist.unheard /\ g.strayed = hist.strayed
               /\ g.folded = hist.folded /\ g.stolen = hist.stolen /\ DOMAIN g = HistNames
         /\ LET a == [hist EXCEPT !.asked = @ \cup us]
            IN /\ a.asked = hist.asked \cup us /\ a.dropped = hist.dropped
               /\ a.unheard = hist.unheard /\ a.strayed = hist.strayed
               /\ a.folded = hist.folded /\ a.stolen = hist.stolen
         /\ LET u == [hist EXCEPT !.unheard = @ \cup us]
            IN /\ u.asked = hist.asked /\ u.dropped = hist.dropped
               /\ u.unheard = hist.unheard \cup us /\ u.strayed = hist.strayed
               /\ u.folded = hist.folded /\ u.stolen = hist.stolen
         /\ LET r == Raced(hist)
            IN /\ r.asked = hist.asked /\ r.dropped = hist.dropped
               /\ r.unheard = hist.unheard /\ r.strayed = hist.strayed
               /\ r.folded = hist.folded /\ r.stolen = hist.stolen
  BY DEF HistOK, HistNames, GiveUp, Raced

LEMMA UsersFacts ==
  ASSUME NEW ms \in Seq(Msgs)
  PROVE  /\ \A k \in 1..Len(ms) : ms[k].role = "user" => ms[k].id \in Users(ms)
         /\ \A u : u \in Users(ms) => \E k \in 1..Len(ms) : ms[k].role = "user" /\ ms[k].id = u
<1>1. \A x : x \in ToSet(ms) <=> \E k \in 1..Len(ms) : ms[k] = x
  BY InSeq
<1> QED
  BY <1>1 DEF Users

(* A turn that fails or hits the cap: what it did not ask is unheard. *)
LEMMA ForgetFacts ==
  ASSUME HistOK, TTypes, NEW o \in Owners, hist' = ForgetQueued(o)
  PROVE  /\ hist'.asked = hist.asked /\ hist'.dropped = hist.dropped
         /\ hist'.folded = hist.folded /\ hist'.strayed = hist.strayed /\ hist'.stolen = hist.stolen
         /\ Heard(o) => Users(msgs) \subseteq hist'.asked \cup hist'.unheard
<1> DEFINE t == SubSeq(msgs, loop[o].pre + 1, Len(msgs))
           us == Users(t) \ hist.asked
<1>1. hist' = [hist EXCEPT !.unheard = @ \cup us]
  BY DEF ForgetQueued
<1> HIDE DEF us
<1>2. /\ hist'.asked = hist.asked /\ hist'.dropped = hist.dropped
      /\ hist'.folded = hist.folded /\ hist'.strayed = hist.strayed /\ hist'.stolen = hist.stolen
      /\ hist'.unheard = hist.unheard \cup us
  BY <1>1, HistFields
<1>3. ASSUME Heard(o), NEW u \in Users(msgs) PROVE u \in hist.asked \cup us
  <2>1. msgs \in Seq(Msgs) /\ Len(msgs) \in Nat /\ loop[o].pre \in 0..Len(msgs)
    BY <1>3 DEF TTypes, Heard
  <2>2. PICK k \in 1..Len(msgs) : msgs[k].role = "user" /\ msgs[k].id = u
    BY <1>3, <2>1, UsersFacts
  <2>3. CASE k <= loop[o].pre
    BY <1>3, <2>2, <2>3 DEF Heard
  <2>4. CASE ~(k <= loop[o].pre)
    <3>1. /\ t \in Seq(Msgs) /\ Len(t) = Len(msgs) - loop[o].pre
          /\ \A i \in 1..(Len(msgs) - loop[o].pre) : t[i] = msgs[loop[o].pre + i]
      BY <2>1, Cut
    <3> HIDE DEF t
    <3>2. k - loop[o].pre \in 1..(Len(msgs) - loop[o].pre) /\ loop[o].pre + (k - loop[o].pre) = k
      BY <2>1, <2>4
    <3>3. t[k - loop[o].pre] = msgs[k]
      BY <3>1, <3>2
    <3>4. u \in Users(t)
      BY <2>2, <3>1, <3>2, <3>3, UsersFacts
    <3> QED
      BY <3>4 DEF us
  <2> QED
    BY <2>3, <2>4
<1> QED
  BY <1>2, <1>3

LEMMA CutMoves ==
  ASSUME TInv, \/ compact' = compact \/ compact' = NoCompaction
               \/ WorthCompacting /\ MarkInFlight
  PROVE  compact'.cut \in 0..Len(msgs)
<1>1. msgs \in Seq(Msgs) /\ Len(msgs) \in Nat /\ compact.cut \in 0..Len(msgs)
  BY DEF TInv, TTypes, Shape
<1>2. CASE compact' = compact
  BY <1>1, <1>2
<1>3. CASE compact' = NoCompaction
  BY <1>1, <1>3 DEF NoCompaction
<1>4. CASE WorthCompacting /\ MarkInFlight
  <2>1. Len(msgs) > TailKeep + 2 /\ compact' = [on |-> TRUE, cut |-> CompactionCut(msgs, TailKeep)]
    BY <1>4 DEF WorthCompacting, MarkInFlight, HeadCount
  <2>2. TailKeep \in Nat /\ TailKeep <= Len(msgs)
    BY <1>1, <2>1, AgentAssumption
  <2>3. CompactionCut(msgs, TailKeep) \in 0..Len(msgs)
    BY <1>1, <2>2, CompactionCutFacts
  <2> QED
    BY <2>1, <2>3
<1> QED
  BY <1>2, <1>3, <1>4

LEMMA SilentMove ==
  ASSUME IInv, TInv, NEW o \in Owners, Moves(o),
         Carefree(loop'[o]) \/ (Requesting(loop[o]) /\ Requesting(loop'[o])),
         UNCHANGED <<msgs, log, calls, cmd, open, hist, gate>>, compact'.cut \in 0..Len(msgs)
  PROVE  TInv'
<1>1. Types
  BY DEF IInv
<1>2. \A p \in Owners : \/ Carefree(loop'[p]) \/ loop'[p] = loop[p]
                        \/ Requesting(loop[p]) /\ Requesting(loop'[p])
  BY DEF Moves
<1>3. Commanded /\ HistGrows
  BY DEF Commanded, HistGrows
<1>4. (Undisturbed' => Undisturbed) /\ (~Busy' => ~Busy)
  BY DEF Undisturbed, Busy
<1>5. hist'.folded \in BOOLEAN /\ Strays'
  BY DEF TInv, TTypes, Strays
<1> QED
  BY <1>1, <1>2, <1>3, <1>4, <1>5, SilentStep

LEMMA SilentSteps ==
  ASSUME IInv, TInv, NEW o \in Owners,
         LoopBegin(o) \/ LoopCompactStart(o) \/ LoopCompactSkip(o) \/ LoopEnd(o)
  PROVE  TInv'
<1>1. UNCHANGED <<msgs, log, calls, cmd, open, hist, gate>>
  BY DEF LoopBegin, LoopCompactStart, LoopCompactSkip, LoopEnd
<1>2. compact'.cut \in 0..Len(msgs)
  <2>1. compact' = compact \/ (WorthCompacting /\ MarkInFlight)
    BY DEF LoopBegin, LoopCompactStart, LoopCompactSkip, LoopEnd
  <2> QED
    BY <2>1, CutMoves
<1>3. Types /\ LoopOK(loop[o]) /\ DOMAIN loop = Owners /\ DOMAIN loop[o] = LoopFields
  BY DEF IInv, Types, LoopOK
<1>4. CASE LoopEnd(o)
  <2>1. loop' = [loop EXCEPT ![o] = IdleLoop]
    BY <1>4 DEF LoopEnd
  <2>2. DOMAIN loop' = Owners /\ loop'[o] = IdleLoop /\ \A p \in Owners \ {o} : loop'[p] = loop[p]
    BY <1>3, <2>1
  <2>3. Moves(o) /\ Carefree(loop'[o])
    BY <2>2, IdleLoopOK DEF Moves, Carefree
  <2> QED
    BY <1>1, <1>2, <2>3, SilentMove
<1>5. CASE LoopBegin(o)
  <2>1. loop[o].pc = "begin" /\ loop' = [loop EXCEPT ![o].pc = "top"]
    BY <1>5 DEF LoopBegin, Goto, At
  <2>2. Moves(o) /\ loop'[o].pc = "top"
    BY <1>3, <2>1, GotoFacts DEF PCs
  <2>3. loop'[o].round = loop[o].round /\ ~(loop[o].round >= MaxToolRounds)
    BY <1>3, <2>1, AgentAssumption DEF LoopFields, LoopOK
  <2> QED
    BY <1>1, <1>2, <2>2, <2>3, SilentMove DEF Carefree
<1>6. CASE LoopCompactStart(o) \/ LoopCompactSkip(o)
  <2>1. loop[o].pc = "compact?" /\ \E pc \in {"compacting", "snap"} : loop' = [loop EXCEPT ![o].pc = pc]
    BY <1>6 DEF LoopCompactStart, LoopCompactSkip, Goto, At
  <2>2. PICK pc \in {"compacting", "snap"} : loop' = [loop EXCEPT ![o].pc = pc]
    BY <2>1
  <2>3. Moves(o) /\ loop'[o].pc = pc
    BY <1>3, <2>1, <2>2, GotoFacts DEF PCs, LoopOK
  <2> QED
    BY <1>1, <1>2, <2>1, <2>3, SilentMove DEF Requesting
<1> QED
  BY <1>4, <1>5, <1>6

(* An attempt that is repeated. *)
LEMMA RepeatStep ==
  ASSUME IInv, TInv, NEW o \in Owners, EmptyTurn(o) \/ TransientFailure(o) \/ Overflow(o), log' = log,
         Carefree(loop'[o])
  PROVE  TInv'
<1>1. UNCHANGED <<msgs, calls, cmd, open, hist, gate>>
  BY DEF EmptyTurn, TransientFailure, Overflow, Ends
<1>2. compact'.cut \in 0..Len(msgs)
  <2>1. compact' = compact \/ (WorthCompacting /\ MarkInFlight)
    BY DEF EmptyTurn, TransientFailure, Overflow, Ends
  <2> QED
    BY <2>1, CutMoves
<1>3. Stepped(o)
  BY FailedAttemptFacts DEF IInv
<1> QED
  BY <1>1, <1>2, <1>3, SilentMove DEF Stepped

(* Commands that leave the transcript alone. *)
LEMMA SilentCommands ==
  ASSUME IInv, TInv, NEW o \in Owners, NEW st \in {"resolved", "summing", "again", "done"},
         cmd[o] \notin {"owner", "queued"}, cmd' = [cmd EXCEPT ![o] = st],
         UNCHANGED <<msgs, log, calls, open, gate, loop>>, compact'.cut \in 0..Len(msgs),
         hist' = hist \/ hist' = Raced(hist)
  PROVE  TInv'
<1>1. Types /\ HistOK /\ cmd \in CmdType
  BY DEF IInv, Types
<1>2. Commanded
  BY <1>1 DEF Commanded, CmdType
<1>3. /\ hist'.folded = hist.folded /\ hist'.stolen = hist.stolen /\ hist'.strayed = hist.strayed
      /\ hist'.asked = hist.asked /\ hist'.dropped = hist.dropped /\ hist'.unheard = hist.unheard
  BY <1>1, HistFields
<1>4. (Undisturbed' => Undisturbed) /\ hist'.folded \in BOOLEAN /\ HistGrows
  BY <1>3 DEF Undisturbed, TInv, TTypes, HistGrows
<1>5. ~Busy' => ~Busy
  BY DEF Busy
<1>6. Strays'
  BY <1>1, <1>3 DEF TInv, Strays, CmdType
<1> QED
  BY <1>1, <1>2, <1>4, <1>5, <1>6, SilentStep

LEMMA SilentSends ==
  ASSUME IInv, TInv, NEW s \in Owners, SendLookup(s) \/ SendFails(s)
  PROVE  TInv'
<1>1. /\ UNCHANGED <<msgs, log, calls, open, gate, loop, compact, hist>>
      /\ cmd[s] \notin {"owner", "queued"}
  BY DEF SendLookup, SendFails
<1>2. PICK st \in {"resolved", "done"} : cmd' = [cmd EXCEPT ![s] = st]
  BY DEF SendLookup, SendFails
<1>3. compact'.cut \in 0..Len(msgs)
  BY <1>1 DEF TInv, Shape
<1> QED
  BY <1>1, <1>2, <1>3, SilentCommands

LEMMA SpawnTStep ==
  ASSUME IInv, TInv, NEW o \in Owners, SpawnTurnLoop(o)
  PROVE  TInv'
<1>1. /\ cmd[o] = "spawn" /\ loop' = [loop EXCEPT ![o] = [IdleLoop EXCEPT !.pc = "begin"]]
      /\ gate' = [handle |-> o, claimed |-> FALSE] /\ cmd' = [cmd EXCEPT ![o] = "done"]
      /\ UNCHANGED <<msgs, log, compact, calls, open, hist>>
  BY DEF SpawnTurnLoop
<1>2. Types /\ cmd \in CmdType /\ DOMAIN loop = Owners
  BY DEF IInv, Types
<1>3. loop'[o].pc = "begin" /\ \A p \in Owners \ {o} : loop'[p] = loop[p]
  BY <1>1, <1>2 DEF IdleLoop
<1>4. \A p \in Owners : Carefree(loop'[p]) \/ loop'[p] = loop[p]
  BY <1>3 DEF Carefree
<1>5. Commanded /\ HistGrows
  BY <1>1, <1>2 DEF Commanded, CmdType, HistGrows
<1>6. Busy'
  BY <1>1, Facts DEF Busy
<1>7. compact'.cut \in 0..Len(msgs) /\ hist'.folded \in BOOLEAN /\ (Undisturbed' => Undisturbed)
  BY <1>1 DEF TInv, Shape, TTypes, Undisturbed
<1>8. Strays'
  BY <1>1, <1>2 DEF TInv, Strays, CmdType
<1> QED
  BY <1>1, <1>2, <1>4, <1>5, <1>6, <1>7, <1>8, SilentStep

LEMMA SilentCompact ==
  ASSUME IInv, TInv,
         \/ CompactCommand
         \/ CompactCommandEnd /\ compact' = NoCompaction /\ UNCHANGED <<msgs, log, hist>>
         \/ AutocontinueIfIdle /\ UNCHANGED <<msgs, gate>> /\ cmd' = [cmd EXCEPT !["auto"] = "done"]
  PROVE  TInv'
<1>1. /\ UNCHANGED <<msgs, log, calls, open, gate, loop>> /\ (hist' = hist \/ hist' = Raced(hist))
      /\ cmd["auto"] \notin {"owner", "queued"} /\ "auto" \in Owners
  BY Facts DEF CompactCommand, CompactCommandEnd, AutocontinueIfIdle
<1>2. PICK st \in {"resolved", "summing", "again", "done"} : cmd' = [cmd EXCEPT !["auto"] = st]
  BY DEF CompactCommand, CompactCommandEnd, AutocontinueIfIdle
<1>3. compact'.cut \in 0..Len(msgs)
  <2>1. compact' = compact \/ compact' = NoCompaction \/ (WorthCompacting /\ MarkInFlight)
    BY DEF CompactCommand, AutocontinueIfIdle
  <2> QED
    BY <2>1, CutMoves
<1> QED
  BY <1>1, <1>2, <1>3, SilentCommands

(* Tools start, wait and end. *)
LEMMA SilentTools ==
  ASSUME IInv, TInv, NEW c \in Calls, ToolStart(c) \/ ApproveToolCall(c) \/ ToolEnd(c)
  PROVE  TInv'
<1>1. UNCHANGED <<msgs, log, gate, cmd, loop, compact, open, hist>>
  BY DEF ToolStart, ApproveToolCall, ToolEnd
<1>2. PICK st \in {"done", "run", "approval"} : calls' = [calls EXCEPT ![c] = st]
  BY DEF ToolStart, ApproveToolCall, ToolEnd
<1>3. \A d \in Calls : calls'[d] = "free" => calls[d] = "free"
  BY <1>2 DEF IInv, Types, CallsType
<1>4. /\ Commanded /\ compact'.cut \in 0..Len(msgs) /\ hist'.folded \in BOOLEAN
      /\ (Undisturbed' => Undisturbed) /\ HistGrows /\ Strays'
  BY <1>1 DEF Commanded, TInv, Shape, TTypes, Undisturbed, HistGrows, Strays
<1>5. ~Busy' => ~Busy
  BY <1>1 DEF Busy
<1> QED
  BY <1>1, <1>3, <1>4, <1>5, SilentStep DEF IInv

(* The commands that race the turn. *)
LEMMA SilentRaces ==
  ASSUME IInv, TInv, CancelStreaming \/ ChatClose \/ Crash
  PROVE  TInv'
<1>1. UNCHANGED <<msgs, log, compact>> /\ Types /\ HistOK
  BY DEF CancelStreaming, ChatClose, Crash, IInv, Types
<1>2. \A o \in Owners : Carefree(loop'[o]) \/ loop'[o] = loop[o]
  <2>1. CASE CancelStreaming \/ ChatClose
    <3>1. loop' = Killed /\ DOMAIN loop = Owners
      BY <1>1, <2>1 DEF CancelStreaming, ChatClose, Types
    <3>2. \A o \in Owners : loop'[o] = IF o = gate.handle THEN IdleLoop ELSE loop[o]
      BY <3>1, Facts DEF Killed
    <3> QED
      BY <3>2, IdleLoopOK DEF Carefree
  <2>2. CASE Crash
    BY <2>2, IdleLoopOK DEF Crash, Carefree
  <2> QED
    BY <2>1, <2>2
<1>3. \A c \in Calls : calls'[c] = "free" => calls[c] = "free"
  BY DEF CancelStreaming, ChatClose, Crash, CallsWithout, Forgotten
<1>4. Commanded
  BY DEF CancelStreaming, ChatClose, Crash, Commanded
<1>5. /\ hist'.folded = hist.folded /\ (~hist'.stolen => ~hist.stolen) /\ hist'.asked = hist.asked
      /\ hist'.dropped = hist.dropped \cup (Users(msgs) \ hist.asked)
      /\ hist'.unheard = hist.unheard /\ hist'.strayed = hist.strayed
  <2> DEFINE us == Users(msgs)
             g == GiveUp(us)
             s == [g EXCEPT !.stolen = @ \/ gate.claimed]
  <2> HIDE DEF us
  <2>1. /\ g.asked = hist.asked /\ g.dropped = hist.dropped \cup (us \ hist.asked)
        /\ g.folded = hist.folded /\ g.stolen = hist.stolen /\ g.unheard = hist.unheard
        /\ g.strayed = hist.strayed /\ DOMAIN g = HistNames
    BY <1>1, HistFields
  <2>2. hist' = Raced(s) \/ hist' = Raced(g)
    BY DEF CancelStreaming, ChatClose, Crash, Steal, us
  <2> HIDE DEF g
  <2>3. /\ s.asked = g.asked /\ s.dropped = g.dropped /\ s.folded = g.folded /\ s.unheard = g.unheard
        /\ s.strayed = g.strayed /\ s.stolen = (g.stolen \/ gate.claimed) /\ DOMAIN s = HistNames
    BY <2>1 DEF HistNames
  <2> HIDE DEF s
  <2>4. \/ /\ hist'.asked = s.asked /\ hist'.dropped = s.dropped /\ hist'.folded = s.folded
           /\ hist'.stolen = s.stolen /\ hist'.unheard = s.unheard /\ hist'.strayed = s.strayed
        \/ /\ hist'.asked = g.asked /\ hist'.dropped = g.dropped /\ hist'.folded = g.folded
           /\ hist'.stolen = g.stolen /\ hist'.unheard = g.unheard /\ hist'.strayed = g.strayed
    BY <2>1, <2>2, <2>3 DEF Raced, HistNames
  <2>5. hist.stolen \in BOOLEAN
    BY <1>1 DEF HistOK
  <2> QED
    BY <2>1, <2>3, <2>4, <2>5 DEF us
<1>6. (Undisturbed' => Undisturbed) /\ hist'.folded \in BOOLEAN
  BY <1>5 DEF Undisturbed, TInv, TTypes
<1>7. HistGrows /\ Settled'
  BY <1>1, <1>5 DEF HistGrows, Settled
<1>8. compact'.cut \in 0..Len(msgs)
  BY <1>1 DEF TInv, Shape
<1>9. Strays'
  <2>1. \A o \in Owners : cmd'[o] = "stray" => cmd[o] = "stray"
    BY DEF CancelStreaming, ChatClose, Crash
  <2> QED
    BY <1>5, <2>1 DEF TInv, Strays
<1> QED
  BY <1>1, <1>2, <1>3, <1>4, <1>6, <1>7, <1>8, <1>9, SilentStep

-----------------------------------------------------------------------------
(* Steps of the one active loop. *)
LEMMA LoopTStep ==
  ASSUME IInv, IInv', TInv, NEW o \in Owners, Stepped(o), TTypes', Shape',
         hist'.folded = hist.folded, hist'.strayed = hist.strayed,
         Undisturbed /\ Tidy =>
           /\ Sound(msgs', Body', ToSet(log'), calls') /\ InLoop(o)' /\ Logged'
           /\ EndOfTurn(o) => Given'
  PROVE  TInv'
<1>0. Strays'
  BY DEF TInv, Strays, Stepped
<1>1. SUFFICES ASSUME Undisturbed' PROVE Tidy'
  BY <1>0 DEF TInv
<1>2. hist'.stolen = hist.stolen /\ (InsideTurn(o) \/ EndOfTurn(o))
  BY DEF Stepped
<1>3. Undisturbed /\ Tidy /\ ~hist.stolen /\ ~hist'.stolen
  BY <1>1, <1>2 DEF Undisturbed, TInv
<1>4. Gated /\ Gated'
  BY <1>3 DEF IInv
<1>5. ASSUME NEW p \in Owners, p # o PROVE InLoop(p)'
  <2>1. ~Active(p)'
    <3>1. gate'.handle # p
      BY <1>2, <1>4, <1>5, Facts DEF InsideTurn, EndOfTurn, Gated, Released
    <3> QED
      BY <1>4, <3>1 DEF Gated
  <2> QED
    BY <2>1 DEF Active, InLoop, AtCalls, AtNotice, AtAnswer, AtRequest, PastRequest, Requesting
<1>6. Given'
  <2>1. CASE EndOfTurn(o)
    BY <1>3, <2>1
  <2>2. CASE InsideTurn(o)
    <3>1. gate'.handle = o
      BY <1>4, <2>2 DEF InsideTurn, Gated
    <3> QED
      BY <3>1, Facts DEF Given, Busy
  <2> QED
    BY <1>2, <2>1, <2>2
<1> QED
  BY <1>3, <1>5, <1>6 DEF Tidy

(* What is logged stays, and what is new is logged or a result. *)
LEMMA LoggedOn ==
  ASSUME Logged, UNCHANGED <<cmd, open>>, ToSet(Body) \subseteq ToSet(Body'),
         \A m \in ToSet(msgs') : m \in ToSet(msgs) \/ m \in ToSet(Body') \/ IsTool(m)
  PROVE  Logged'
  BY DEF Logged

(* The cap is reached, or the turn stops after an error. *)
LEMMA TurnOverTStep ==
  ASSUME IInv, IInv', TInv, NEW o \in Owners, RoundCap(o) \/ LoopStop(o)
  PROVE  TInv'
<1>1. Types /\ Stepped(o) /\ HistOK /\ TTypes /\ Shape
  BY TurnOverFacts DEF IInv, Types, TInv
<1>2. /\ PastRequest(loop[o]) /\ hist' = ForgetQueued(o) /\ loop' = [loop EXCEPT ![o].pc = "end"]
      /\ UNCHANGED <<msgs, log, cmd, compact, calls, open>>
  BY DEF RoundCap, LoopStop, Goto, At, PastRequest
<1>3. loop'[o].pc = "end"
  BY <1>1, <1>2, GotoFacts DEF PCs
<1>4. /\ hist'.asked = hist.asked /\ hist'.folded = hist.folded /\ hist'.strayed = hist.strayed
      /\ Heard(o) => Users(msgs) \subseteq hist'.asked \cup hist'.unheard
  BY <1>1, <1>2, ForgetFacts
<1>5. TTypes' /\ Shape' /\ Body' = Body
  BY <1>1, <1>2, <1>4 DEF TTypes, Shape, Body
<1>6. InLoop(o)'
  BY <1>3 DEF InLoop, AtCalls, AtNotice, AtAnswer, AtRequest, PastRequest, Requesting
<1>7. ASSUME Tidy PROVE Sound(msgs', Body', ToSet(log'), calls') /\ Logged' /\ Given'
  <2>1. Logged'
    BY <1>2, <1>5, <1>7, LoggedOn DEF Tidy
  <2>2. Heard(o)
    BY <1>2, <1>7 DEF Tidy, InLoop, AtAnswer
  <2>3. Settled'
    BY <1>2, <1>4, <2>2 DEF Settled
  <2> QED
    BY <1>2, <1>5, <1>7, <2>1, <2>3 DEF Tidy, Given
<1> QED
  BY <1>1, <1>4, <1>5, <1>6, <1>7, LoopTStep

(* The repair at the top of a round. *)
LEMMA RoundTopStep ==
  ASSUME IInv, IInv', TInv, NEW o \in Owners, RoundTop(o)
  PROVE  TInv'
<1>1. msgs \in Seq(Msgs) /\ Owned(msgs) /\ compact.cut \in 0..Len(msgs) /\ TTypes
  BY DEF TInv, TTypes, Shape
<1>2. msgs' = RepairToolPairs(msgs) /\ UNCHANGED <<log, calls, cmd, open, compact, hist>>
  BY DEF RoundTop
<1>3. msgs' \in Seq(Msgs) /\ Paired(msgs') /\ Owned(msgs')
  BY <1>1, <1>2, RepairType, RepairPairs DEF Paired
<1>4. Len(msgs') \in Nat /\ Len(msgs) <= Len(msgs') /\ Len(msgs) \in Nat
  BY <1>1, <1>2, RepairGrows
<1>5. TTypes' /\ Shape' /\ Body' = Body
  BY <1>1, <1>2, <1>3, <1>4 DEF TTypes, Shape, Body
<1>6. Stepped(o)
  BY RoundTopFacts DEF IInv
<1>7. loop'[o].pc = "compact?"
  BY DEF RoundTop, IInv, Types, LoopOK, LoopFields
<1>8. InLoop(o)'
  BY <1>3, <1>7 DEF InLoop, AtCalls, AtNotice, AtAnswer, AtRequest, PastRequest, Requesting
<1>9. ASSUME Tidy PROVE Sound(msgs', Body', ToSet(log'), calls') /\ Logged'
  <2>1. Sound(RepairToolPairs(msgs), Body, ToSet(log), calls)
    BY <1>1, <1>9, SoundRepair DEF Tidy
  <2>2. \A m \in ToSet(msgs') : m \in ToSet(msgs) \/ IsTool(m)
    BY <1>1, <1>2, RepairElements, AnswersFacts
  <2>3. Logged'
    BY <1>2, <1>5, <1>9, <2>2, LoggedOn DEF Tidy
  <2> QED
    BY <1>2, <1>5, <2>1, <2>3
<1>10. ~EndOfTurn(o)
  BY <1>7 DEF EndOfTurn, At
<1> QED
  BY <1>2, <1>5, <1>6, <1>8, <1>9, <1>10, LoopTStep

(* The request goes out. *)
LEMMA SnapshotTStep ==
  ASSUME IInv, IInv', TInv, NEW o \in Owners, Snapshot(o)
  PROVE  TInv'
<1>1. /\ loop' = [loop EXCEPT ![o].pc = "stream", ![o].pre = Len(msgs)]
      /\ hist' = [hist EXCEPT !.asked = @ \cup Users(msgs)]
      /\ UNCHANGED <<msgs, log, compact, calls, cmd, open>>
  BY DEF Snapshot
<1>2. Stepped(o) /\ Types /\ HistOK
  BY SnapshotFacts DEF IInv, Types
<1>3. loop'[o].pc = "stream" /\ loop'[o].pre = Len(msgs)
  BY <1>1, <1>2 DEF Types, LoopOK, LoopFields
<1>4. /\ hist'.asked = hist.asked \cup Users(msgs) /\ hist'.folded = hist.folded
      /\ hist'.strayed = hist.strayed
  BY <1>1, <1>2, HistFields
<1>5. msgs \in Seq(Msgs) /\ TTypes /\ Shape
  BY DEF TInv, TTypes
<1>6. TTypes' /\ Shape' /\ Body' = Body
  BY <1>1, <1>4, <1>5 DEF TTypes, Shape, Body
<1>7. InLoop(o)'
  <2>1. Len(msgs) \in Nat /\ Len(msgs) \in 0..Len(msgs) /\ \A k \in 1..Len(msgs) : ~(k > Len(msgs))
    BY <1>5
  <2>2. \A k \in 1..Len(msgs) : msgs[k].role = "user" => msgs[k].id \in hist'.asked
    BY <1>4, <1>5, UsersFacts
  <2>3. AtAnswer(o)'
    BY <1>1, <1>3, <2>1, <2>2 DEF AtAnswer, Heard
  <2> QED
    BY <1>3, <2>3 DEF InLoop, AtCalls, AtNotice, AtRequest, Requesting
<1>8. ASSUME Tidy PROVE Sound(msgs', Body', ToSet(log'), calls') /\ Logged'
  <2>1. Logged'
    BY <1>1, <1>6, <1>8, LoggedOn DEF Tidy
  <2> QED
    BY <1>1, <1>6, <1>8, <2>1 DEF Tidy
<1>9. ~EndOfTurn(o)
  BY <1>3 DEF EndOfTurn, At
<1> QED
  BY <1>2, <1>4, <1>6, <1>7, <1>8, <1>9, LoopTStep

(* A plain entry is logged. *)
LogsPlain(x) == Plain(x) /\ log' = Append(log, x)

LEMMA LogsPlainFacts ==
  ASSUME TTypes, NEW x, LogsPlain(x)
  PROVE  /\ log' \in Seq(Entries) /\ ToSet(log') = ToSet(log) \cup {x}
         /\ ToSet(Body') = ToSet(Body) \cup {x}
         /\ \A c : (Answering(Body', c) <=> Answering(Body, c))
         /\ Sound(msgs, Body, ToSet(log), calls) => Sound(msgs, Body', ToSet(log'), calls)
<1>1. log \in Seq(Entries) /\ x \in Msgs /\ Plain(x) /\ log' = Append(log, x)
  BY DEF TTypes, LogsPlain, Plain
<1>2. Body \in Seq(Msgs) /\ Spoken(x)
  BY <1>1, BodyFacts, PlainSpoken
<1>3. /\ Append(log, x) \in Seq(Entries) /\ ToSet(Append(log, x)) = ToSet(log) \cup {x}
      /\ ApplyCompaction(Append(log, x)) = Append(ApplyCompaction(log), x)
  BY <1>1, BodyAppend
<1>4. Body' = Append(Body, x) /\ ToSet(log') = ToSet(log) \cup {x} /\ log' \in Seq(Entries)
  BY <1>1, <1>3 DEF Body
<1>5. Widens(Append(Body, x), Body, x)
  BY <1>2, AppendWidens
<1>6. Sound(msgs, Body, ToSet(log), calls) => Sound(msgs, Append(Body, x), ToSet(log) \cup {x}, calls)
  BY <1>1, <1>2, SoundLog
<1> QED
  BY <1>4, <1>5, <1>6 DEF Widens

(* The stream fails for good: the notice is logged. *)
LEMMA NoticeStep ==
  ASSUME IInv, IInv', TInv, NEW o \in Owners, Stepped(o), At(o, "stream"),
         loop'[o].pc \in {"giveup", "errpush"}, loop'[o].pre = loop[o].pre,
         log' = Append(log, Asst(<<>>)), UNCHANGED <<msgs, calls, compact, hist>>
  PROVE  TInv'
<1> DEFINE x == Asst(<<>>)
<1>1. Plain(x) /\ LogsPlain(x) /\ TTypes
  BY PlainMessages DEF LogsPlain, TInv
<1>2. /\ log' \in Seq(Entries) /\ ToSet(Body') = ToSet(Body) \cup {x}
      /\ Sound(msgs, Body, ToSet(log), calls) => Sound(msgs, Body', ToSet(log'), calls)
  BY <1>1, LogsPlainFacts
<1>3. TTypes' /\ Shape'
  BY <1>2 DEF TInv, TTypes, Shape
<1>4. ASSUME Tidy PROVE InLoop(o)'
  <2>1. Heard(o)
    BY <1>4 DEF Tidy, InLoop, AtAnswer, PastRequest, At
  <2>2. AtAnswer(o)'
    BY <2>1 DEF AtAnswer, Heard
  <2>3. AtNotice(o)'
    BY <1>2 DEF AtNotice
  <2> QED
    BY <2>2, <2>3 DEF InLoop, AtCalls, AtRequest, Requesting
<1>5. ASSUME Tidy PROVE Sound(msgs', Body', ToSet(log'), calls') /\ Logged'
  <2>1. Logged'
    BY <1>2, <1>5, LoggedOn DEF Tidy, Stepped
  <2> QED
    BY <1>2, <1>5, <2>1 DEF Tidy
<1>6. ~EndOfTurn(o)
  BY DEF EndOfTurn, At
<1> QED
  BY <1>3, <1>4, <1>5, <1>6, LoopTStep

LEMMA StreamFailsStep ==
  ASSUME IInv, IInv', TInv, NEW o \in Owners,
         EmptyTurn(o) \/ TransientFailure(o) \/ Overflow(o) \/ ProviderError(o)
  PROVE  TInv'
<1>1. Types /\ LoopOK(loop[o]) /\ DOMAIN loop = Owners /\ DOMAIN loop[o] = LoopFields
  BY DEF IInv, Types, LoopOK
<1>2. Stepped(o) /\ At(o, "stream") /\ UNCHANGED <<msgs, calls, hist>>
  BY <1>1, FailedAttemptFacts
     DEF EmptyTurn, TransientFailure, Overflow, ProviderError, Ends
<1>3. CASE \E pc \in {"giveup", "errpush"} : Goto(o, pc) /\ log' = Append(log, Asst(<<>>)) /\ compact' = compact
  <2>1. PICK pc \in {"giveup", "errpush"} : loop' = [loop EXCEPT ![o].pc = pc]
    BY <1>3 DEF Goto
  <2>2. loop'[o].pc = pc /\ loop'[o].pre = loop[o].pre
    BY <1>1, <2>1 DEF LoopFields
  <2> QED
    BY <1>2, <1>3, <2>2, NoticeStep
<1>4. loop[o].round \in 1..MaxToolRounds /\ ~(loop[o].round - 1 >= MaxToolRounds)
  BY <1>1, <1>2, AgentAssumption DEF LoopOK, At
<1>5. CASE /\ EmptyTurn(o) \/ TransientFailure(o) \/ Overflow(o)
           /\ log' = log /\ \E budget \in {"empty", "transient", "overflow"} : Again(o, budget)
  <2>1. PICK budget \in {"empty", "transient", "overflow"} : Again(o, budget)
    BY <1>5
  <2>2. loop'[o].pc = "top" /\ loop'[o].round = loop[o].round - 1
    BY <1>1, <2>1 DEF Again, LoopFields
  <2>3. Carefree(loop'[o])
    BY <1>4, <2>2 DEF Carefree
  <2> QED
    BY <1>5, <2>3, RepeatStep
<1>6. CASE /\ Overflow(o) /\ log' = log
           /\ loop' = [loop EXCEPT ![o].pc = "forced", ![o].round = @ - 1, ![o].overflow = @ + 1]
  <2>1. loop'[o].pc = "forced"
    BY <1>1, <1>6 DEF LoopFields
  <2> QED
    BY <1>6, <2>1, RepeatStep DEF Carefree
<1>7. CASE EmptyTurn(o) \/ TransientFailure(o) \/ ProviderError(o)
  BY <1>3, <1>5, <1>7 DEF EmptyTurn, TransientFailure, ProviderError, RetryOrGiveUp, Exhausted, Ends
<1>8. CASE Overflow(o)
  BY <1>3, <1>5, <1>6, <1>8 DEF Overflow, Exhausted
<1> QED
  BY <1>7, <1>8

LEMMA MsgAppend ==
  ASSUME NEW b \in Seq(Msgs), NEW x \in Msgs
  PROVE  Append(b, x) \in Seq(Msgs) /\ ToSet(Append(b, x)) = ToSet(b) \cup {x}
<1> DEFINE q == Append(b, x)
           y == <<x>>
<1>1. q \in Seq(Msgs) /\ y \in Seq(Msgs) /\ q = b \o y
  OBVIOUS
<1>2. ToSet(y) = {x}
  BY DEF ToSet
<1> HIDE DEF y, q
<1>3. ToSet(b \o y) = ToSet(b) \cup ToSet(y)
  BY <1>1, InConcat
<1> QED
  BY <1>1, <1>2, <1>3 DEF q

(* The answer ends the turn or asks for tools. *)
LEMMA ToolRequestTStep ==
  ASSUME IInv, IInv', TInv, NEW o \in Owners, NEW cs \in BoundedSeq(Calls, Cardinality(Calls)),
         NEW pc \in {"final", "tools"}, NEW st \in {"dead", "ready"},
         Text(o, cs) \/ ToolRequest(o, cs), Answered(o, cs, pc), pc = "tools" => cs # <<>>,
         calls' = [c \in Calls |-> IF c \in ToSet(cs) THEN st ELSE calls[c]]
  PROVE  TInv'
<1> DEFINE x == Asst(cs)
<1>1. /\ IsInjective(cs) /\ (\A c \in ToSet(cs) : calls[c] = "free")
      /\ log' = Append(log, x) /\ At(o, "stream")
      /\ UNCHANGED <<msgs, compact, hist>>
  BY DEF Text, ToolRequest, Ends, Fresh
<1>2. Stepped(o) /\ Types /\ TTypes
  BY ToolRequestFacts DEF IInv, TInv
<1>3. cs \in Seq(Calls) /\ Len(cs) <= Cardinality(Calls) /\ ToSet(cs) \subseteq Calls
  <2>1. cs \in Seq(Calls) /\ Len(cs) <= Cardinality(Calls)
    BY Facts DEF BoundedSeq, SeqOf
  <2> QED
    BY <2>1, InSeq
<1>4. loop'[o].pc = pc /\ loop'[o].calls = cs /\ loop'[o].pre = loop[o].pre
  <2>1. loop'[o].pc = pc /\ loop'[o].calls = cs
    BY <1>2, <1>3, AnsweredFacts
  <2>2. loop'[o].pre = loop[o].pre
    BY <1>2 DEF Answered, Types, LoopOK, LoopFields
  <2> QED
    BY <2>1, <2>2
<1>5. x \in Msgs /\ log \in Seq(Entries) /\ Body \in Seq(Msgs)
  BY <1>2, <1>3, AsstFacts, BodyFacts DEF TTypes
<1>6. /\ Append(log, x) \in Seq(Entries) /\ ToSet(Append(log, x)) = ToSet(log) \cup {x}
      /\ ApplyCompaction(Append(log, x)) = Append(ApplyCompaction(log), x)
  BY <1>5, BodyAppend
<1>7. Body' = Append(Body, x) /\ ToSet(log') = ToSet(log) \cup {x} /\ log' \in Seq(Entries)
  BY <1>1, <1>6 DEF Body
<1>8. TTypes' /\ Shape'
  BY <1>1, <1>2, <1>7 DEF TInv, TTypes, Shape
<1>9. ToSet(Append(Body, x)) = ToSet(Body) \cup {x}
  BY <1>5, MsgAppend
<1>10. ASSUME Tidy PROVE Sound(msgs', Body', ToSet(log'), calls')
  <2>1. Sound(msgs, Body, ToSet(log), calls)
    BY <1>10 DEF Tidy
  <2>2. \A c \in Calls : calls'[c] = "free" => calls[c] = "free" /\ c \notin ToSet(cs)
    OBVIOUS
  <2>3. Sound(msgs, Append(Body, x), ToSet(log) \cup {x}, calls')
    BY <1>1, <1>3, <1>5, <2>1, <2>2, SoundRequest
  <2> QED
    BY <1>1, <1>7, <2>3
<1>11. ASSUME Tidy PROVE InLoop(o)'
  <2>1. \A c \in ToSet(cs) : Unseen(msgs, Body, ToSet(log), c)
    BY <1>1, <1>3, <1>11 DEF Tidy, Sound
  <2>2. ASSUME NEW c \in ToSet(cs)
        PROVE  /\ calls'[c] # "free" /\ ~Answering(Body', c) /\ Tool(c) \notin ToSet(log')
               /\ ~Calling(msgs, c) /\ ~Answering(msgs, c)
    <3>1. /\ ~Answering(Body, c) /\ ~Calling(msgs, c) /\ ~Answering(msgs, c) /\ c \in Calls
          /\ Tool(c) \notin ToSet(log)
      BY <1>3, <2>1 DEF Unseen
    <3>2. ~IsTool(x) /\ IsTool(Tool(c))
      BY <1>3, <3>1, AsstFacts
    <3>3. ~Answering(Body', c)
      BY <1>7, <1>9, <3>1, <3>2 DEF Answering
    <3>4. Tool(c) \notin ToSet(log')
      BY <1>7, <3>1, <3>2
    <3> QED
      BY <3>1, <3>3, <3>4
  <2>3. AtCalls(o)'
    BY <1>1, <1>4, <2>2 DEF AtCalls
  <2>4. AtNotice(o)'
    BY <1>4, <1>7, <1>9 DEF AtNotice
  <2>5. AtAnswer(o)
    BY <1>11 DEF Tidy, InLoop
  <2>6. AtAnswer(o)'
    BY <1>1, <1>4, <2>5 DEF AtAnswer, Heard, PastRequest, At
  <2> QED
    BY <1>4, <2>3, <2>4, <2>6 DEF InLoop, AtRequest, Requesting
<1>12. ASSUME Tidy PROVE Logged'
  BY <1>1, <1>2, <1>7, <1>9, <1>12, LoggedOn DEF Tidy, Stepped
<1>13. ~EndOfTurn(o)
  BY <1>4 DEF EndOfTurn, At
<1> QED
  BY <1>1, <1>2, <1>8, <1>10, <1>11, <1>12, <1>13, LoopTStep

LEMMA AnswerTStep ==
  ASSUME IInv, IInv', TInv, NEW o \in Owners, NEW cs \in BoundedSeq(Calls, Cardinality(Calls)),
         Text(o, cs) \/ ToolRequest(o, cs)
  PROVE  TInv'
<1>1. CASE Text(o, cs)
  <2>1. Answered(o, cs, "final") /\ calls' = [c \in Calls |-> IF c \in ToSet(cs) THEN "dead" ELSE calls[c]]
    BY <1>1 DEF Text
  <2> QED
    BY <1>1, <2>1, ToolRequestTStep
<1>2. CASE ToolRequest(o, cs)
  <2>1. /\ Answered(o, cs, "tools") /\ cs # <<>>
        /\ calls' = [c \in Calls |-> IF c \in ToSet(cs) THEN "ready" ELSE calls[c]]
    BY <1>2 DEF ToolRequest
  <2> QED
    BY <1>2, <2>1, ToolRequestTStep
<1> QED
  BY <1>1, <1>2

(* What was heard stays heard while the transcript grows at its end. *)
LEMMA HeardOn ==
  ASSUME NEW o \in Owners, msgs \in Seq(Msgs), msgs' \in Seq(Msgs), Heard(o), Keeps(msgs', msgs),
         loop'[o].pre = loop[o].pre, hist.asked \subseteq hist'.asked
  PROVE  Heard(o)'
<1>1. /\ Len(msgs) \in Nat /\ Len(msgs') \in Nat /\ Len(msgs) <= Len(msgs')
      /\ \A k \in 1..Len(msgs) : msgs'[k] = msgs[k]
  BY DEF Keeps
<1>2. /\ loop[o].pre \in 0..Len(msgs)
      /\ \A k \in 1..Len(msgs) :
           k <= loop[o].pre /\ msgs[k].role = "user" => msgs[k].id \in hist.asked
  BY DEF Heard
<1>3. loop[o].pre \in 0..Len(msgs')
  BY <1>1, <1>2
<1>4. \A k \in 1..Len(msgs') : k <= loop[o].pre => k \in 1..Len(msgs)
  BY <1>1, <1>2
<1>5. \A k \in 1..Len(msgs') :
        k <= loop[o].pre /\ msgs'[k].role = "user" => msgs'[k].id \in hist'.asked
  BY <1>1, <1>2, <1>4
<1> QED
  BY <1>3, <1>5 DEF Heard

(* The logged answer enters the transcript. *)
LEMMA PushStep ==
  ASSUME IInv, IInv', TInv, NEW o \in Owners, Stepped(o), NEW x, Spoken(x), x.role # "user",
         Widens(msgs', msgs, x), UNCHANGED <<log, calls, compact>>,
         hist'.folded = hist.folded, hist'.strayed = hist.strayed,
         Undisturbed /\ Tidy =>
           /\ NewTo(x, msgs) /\ \A c \in Made(x) : calls[c] # "free" /\ Tool(c) \notin ToSet(log)
           /\ x \in ToSet(Body) /\ InLoop(o)'
           /\ EndOfTurn(o) => Users(msgs) \subseteq hist'.asked \cup hist'.dropped \cup hist'.unheard
  PROVE  TInv'
<1>1. TTypes /\ Shape /\ Body' = Body /\ msgs \in Seq(Msgs)
  BY DEF TInv, TTypes, Body
<1>2. msgs' \in Seq(Msgs) /\ ToSet(msgs') = ToSet(msgs) \cup {x} /\ Len(msgs') = Len(msgs) + 1
  BY DEF Widens
<1>3. compact.cut \in 0..Len(msgs')
  BY <1>1, <1>2 DEF Shape
<1>4. TTypes' /\ Shape'
  BY <1>1, <1>2, <1>3 DEF TTypes, Shape, Widens
<1>5. ASSUME Undisturbed, Tidy PROVE Sound(msgs', Body', ToSet(log'), calls') /\ Logged'
  <2>1. Sound(msgs', Body, ToSet(log), calls)
    BY <1>1, <1>5, SoundWiden DEF Tidy
  <2>2. Logged'
    BY <1>1, <1>2, <1>5, LoggedOn DEF Tidy, Stepped
  <2> QED
    BY <1>1, <2>1, <2>2
<1>6. Users(msgs') = Users(msgs)
  BY <1>1, <1>2 DEF Users
<1>7. Undisturbed /\ Tidy /\ EndOfTurn(o) => Given'
  BY <1>6 DEF Given, Settled
<1> QED
  BY <1>4, <1>5, <1>7, LoopTStep

LEMMA ErrorPushTStep ==
  ASSUME IInv, IInv', TInv, NEW o \in Owners, ErrorPush(o) \/ LoopGiveUp(o)
  PROVE  TInv'
<1> DEFINE x == Asst(<<>>)
<1>1. Types /\ Stepped(o) /\ HistOK /\ TTypes /\ msgs \in Seq(Msgs) /\ LoopOK(loop[o])
  BY GoOnFacts, TurnOverFacts DEF IInv, Types, TInv, TTypes
<1>2. /\ loop[o].pc \in {"giveup", "errpush"} /\ msgs' = Append(msgs, x)
      /\ UNCHANGED <<log, calls, compact>>
  BY DEF ErrorPush, LoopGiveUp, At
<1>3. /\ Plain(x) /\ Spoken(x) /\ Made(x) = {} /\ NewTo(x, msgs) /\ x.role # "user"
  BY PlainMessages, PlainSpoken DEF Asst, Message
<1> HIDE DEF x
<1>4. Widens(msgs', msgs, x) /\ Keeps(msgs', msgs)
  BY <1>1, <1>2, <1>3, AppendWidens
<1>5. ASSUME Tidy PROVE Heard(o) /\ x \in ToSet(Body)
  BY <1>2, <1>5 DEF Tidy, InLoop, AtAnswer, AtNotice, PastRequest, x
<1>6. CASE ErrorPush(o)
  <2>1. loop' = [loop EXCEPT ![o].pc = "stop"] /\ hist' = hist
    BY <1>6 DEF ErrorPush, Goto
  <2>2. loop'[o].pc = "stop" /\ loop'[o].pre = loop[o].pre
    BY <1>1, <2>1 DEF Types, LoopOK, LoopFields
  <2>3. ASSUME Tidy PROVE InLoop(o)'
    <3>1. Heard(o)'
      BY <1>1, <1>4, <1>5, <2>1, <2>2, <2>3, HeardOn DEF Widens
    <3> QED
      BY <2>2, <3>1 DEF InLoop, AtCalls, AtNotice, AtAnswer, AtRequest, Requesting
  <2>4. ~EndOfTurn(o)
    BY <2>2 DEF EndOfTurn, At
  <2> QED
    BY <1>1, <1>2, <1>3, <1>4, <1>5, <2>1, <2>3, <2>4, PushStep
<1>7. CASE LoopGiveUp(o)
  <2>1. loop' = [loop EXCEPT ![o].pc = "end"] /\ hist' = ForgetQueued(o)
    BY <1>7 DEF LoopGiveUp, Goto
  <2>2. loop'[o].pc = "end"
    BY <1>1, <2>1 DEF Types, LoopOK, LoopFields
  <2>3. InLoop(o)'
    BY <2>2 DEF InLoop, AtCalls, AtNotice, AtAnswer, AtRequest, PastRequest, Requesting
  <2>4. /\ hist'.folded = hist.folded /\ hist'.strayed = hist.strayed
        /\ Heard(o) => Users(msgs) \subseteq hist'.asked \cup hist'.unheard
    BY <1>1, <2>1, ForgetFacts
  <2> QED
    BY <1>1, <1>2, <1>3, <1>4, <1>5, <2>3, <2>4, PushStep
<1> QED
  BY <1>6, <1>7

(* The end of the turn: nothing was queued, so all was asked. *)
LEMMA FinalTStep ==
  ASSUME IInv, IInv', TInv, NEW o \in Owners, Final(o)
  PROVE  TInv'
<1> DEFINE cs == loop[o].calls
           x == Asst(cs)
<1>1. Types /\ Stepped(o) /\ msgs \in Seq(Msgs) /\ DOMAIN loop = Owners /\ DOMAIN loop[o] = LoopFields
  BY FinalFacts DEF IInv, Types, LoopOK, TInv, TTypes
<1>2. loop[o].pc = "final" /\ UNCHANGED <<log, calls, compact, hist>>
  BY DEF Final, At
<1>3. cs \in Seq(Calls)
  BY <1>1, LoopCalls
<1>4. x \in Msgs /\ x.role = "asst" /\ x.calls = cs /\ ~IsTool(x)
  BY <1>3, AsstFacts
<1>5. \/ /\ UserQueuedDuringRound(msgs, loop[o].pre)
         /\ msgs' = InsertAt(msgs, TrailingUserRunStart(msgs), x)
         /\ loop' = [loop EXCEPT ![o].pc = "top", ![o].round = 0, ![o].calls = <<>>]
      \/ /\ ~UserQueuedDuringRound(msgs, loop[o].pre)
         /\ msgs' = Append(msgs, x)
         /\ loop' = [loop EXCEPT ![o].pc = "end", ![o].calls = <<>>]
  BY DEF Final
<1>6. ASSUME Tidy
      PROVE  /\ IsInjective(cs) /\ x \in ToSet(Body)
             /\ \A c \in ToSet(cs) : calls[c] # "free" /\ ~Calling(msgs, c) /\ Tool(c) \notin ToSet(log)
  BY <1>2, <1>6 DEF Tidy, InLoop, AtCalls, AtNotice
<1> HIDE DEF cs, x
<1>7. Spoken(x) /\ x.role # "user" /\ Made(x) = ToSet(cs)
  BY <1>4 DEF Spoken, Made
<1>8. ASSUME Tidy
      PROVE  /\ NewTo(x, msgs) /\ x \in ToSet(Body)
             /\ \A c \in Made(x) : calls[c] # "free" /\ Tool(c) \notin ToSet(log)
  BY <1>4, <1>6, <1>7, <1>8 DEF NewTo
<1>9. CASE UserQueuedDuringRound(msgs, loop[o].pre)
  <2>1. /\ msgs' = InsertAt(msgs, TrailingUserRunStart(msgs), x)
        /\ loop' = [loop EXCEPT ![o].pc = "top", ![o].round = 0, ![o].calls = <<>>]
    BY <1>5, <1>9
  <2>2. loop'[o].pc = "top" /\ loop'[o].round = 0
    BY <1>1, <2>1 DEF LoopFields
  <2>3. Widens(msgs', msgs, x)
    BY <1>1, <1>7, <2>1, InsertWidens
  <2>4. ~(0 >= MaxToolRounds)
    BY AgentAssumption
  <2>5. InLoop(o)'
    BY <2>2, <2>4 DEF InLoop, AtCalls, AtNotice, AtAnswer, AtRequest, PastRequest, Requesting
  <2>6. ~EndOfTurn(o)
    BY <2>2 DEF EndOfTurn, At
  <2> QED
    BY <1>1, <1>2, <1>7, <1>8, <2>3, <2>5, <2>6, PushStep
<1>10. CASE ~UserQueuedDuringRound(msgs, loop[o].pre)
  <2>1. msgs' = Append(msgs, x) /\ loop' = [loop EXCEPT ![o].pc = "end", ![o].calls = <<>>]
    BY <1>5, <1>10
  <2>2. loop'[o].pc = "end"
    BY <1>1, <2>1 DEF LoopFields
  <2>3. Widens(msgs', msgs, x)
    BY <1>1, <1>7, <2>1, AppendWidens
  <2>4. ASSUME Tidy PROVE Users(msgs) \subseteq hist.asked
    <3>1. Heard(o) /\ \A k \in 1..Len(msgs) : k > loop[o].pre => msgs[k].role = "user"
      BY <1>2, <2>4 DEF Tidy, InLoop, AtAnswer, PastRequest
    <3>2. /\ loop[o].pre \in 0..Len(msgs) /\ Len(msgs) \in Nat
          /\ \A k \in 1..Len(msgs) :
               k <= loop[o].pre /\ msgs[k].role = "user" => msgs[k].id \in hist.asked
      BY <1>1, <3>1 DEF Heard
    <3>3. ~(Len(msgs) > loop[o].pre)
      <4>1. SUFFICES ASSUME Len(msgs) > loop[o].pre PROVE FALSE
        OBVIOUS
      <4>2. Len(msgs) \in 1..Len(msgs)
        BY <3>2, <4>1
      <4>3. msgs[Len(msgs)].role = "user"
        BY <3>1, <4>1, <4>2
      <4> QED
        BY <1>10, <4>1, <4>3 DEF UserQueuedDuringRound, Last
    <3>4. \A k \in 1..Len(msgs) : k <= loop[o].pre
      BY <3>2, <3>3
    <3>5. \A k \in 1..Len(msgs) : msgs[k].role = "user" => msgs[k].id \in hist.asked
      BY <3>2, <3>4
    <3> QED
      BY <1>1, <3>5, UsersFacts
  <2>5. InLoop(o)'
    BY <2>2 DEF InLoop, AtCalls, AtNotice, AtAnswer, AtRequest, PastRequest, Requesting
  <2>6. Tidy => Users(msgs) \subseteq hist'.asked \cup hist'.dropped \cup hist'.unheard
    BY <1>2, <2>4
  <2> QED
    BY <1>1, <1>2, <1>7, <1>8, <2>3, <2>5, <2>6, PushStep
<1> QED
  BY <1>9, <1>10

(* The assistant message and all its results enter the transcript. *)
LEMMA ToolsPushTStep ==
  ASSUME IInv, IInv', TInv, NEW o \in Owners, ToolsPush(o)
  PROVE  TInv'
<1> DEFINE cs == loop[o].calls
<1>1. /\ At(o, "tools") /\ AllDone(cs) /\ msgs' = msgs \o <<Asst(cs)>> \o Results(cs)
      /\ loop' = [loop EXCEPT ![o].pc = "persist"] /\ UNCHANGED <<log, compact, calls, hist>>
  BY DEF ToolsPush, Goto
<1>2. Types /\ Stepped(o) /\ TTypes /\ Shape /\ msgs \in Seq(Msgs) /\ Body' = Body
  BY <1>1, ToolsFacts DEF IInv, TInv, TTypes, Body
<1>3. cs \in Seq(Calls) /\ ToSet(cs) \subseteq Calls
  BY <1>2, LoopCalls
<1>4. loop'[o].pc = "persist" /\ loop'[o].calls = cs /\ loop'[o].pre = loop[o].pre
  BY <1>1, <1>2 DEF Types, LoopOK, LoopFields
<1>5. ASSUME Tidy
      PROVE  /\ IsInjective(cs) /\ Asst(cs) \in ToSet(Body) /\ Heard(o)
             /\ \A c \in ToSet(cs) : /\ calls[c] # "free" /\ ~Answering(Body, c)
                                     /\ ~Calling(msgs, c) /\ ~Answering(msgs, c)
  BY <1>1, <1>5 DEF Tidy, InLoop, AtCalls, AtNotice, AtAnswer, PastRequest, At
<1> HIDE DEF cs
<1>6. msgs' = msgs \o <<Asst(cs)>> \o ResultsOf(cs)
  BY <1>1, <1>3, ResultsAll
<1>7. Pushes(msgs', msgs, cs)
  BY <1>2, <1>3, <1>6, GroupPush
<1>8. /\ msgs' \in Seq(Msgs) /\ Keeps(msgs', msgs) /\ (Owned(msgs) => Owned(msgs'))
      /\ ToSet(msgs') = ToSet(msgs) \cup {Asst(cs)} \cup {Tool(c) : c \in ToSet(cs)}
      /\ \A c : AllBehind(msgs, c) => AllBehind(msgs', c)
  BY <1>7 DEF Pushes
<1>9. TTypes' /\ Shape'
  <2>1. Len(msgs) \in Nat /\ Len(msgs') \in Nat /\ Len(msgs) <= Len(msgs')
    BY <1>2, <1>8 DEF Keeps
  <2>2. compact'.cut \in 0..Len(msgs')
    BY <1>1, <1>2, <2>1 DEF Shape
  <2> QED
    BY <1>1, <1>2, <1>8, <2>2 DEF TTypes, Shape
<1>10. ASSUME Tidy PROVE Sound(msgs', Body', ToSet(log'), calls')
  <2>1. Sound(msgs, Body, ToSet(log), calls)
    BY <1>10 DEF Tidy
  <2>2. Sound(msgs', Body, ToSet(log), calls)
    BY <1>2, <1>3, <1>5, <1>7, <1>10, <2>1, SoundGroup
  <2> QED
    BY <1>1, <1>2, <2>2
<1>11. ASSUME Tidy PROVE InLoop(o)'
  <2>1. \A c \in ToSet(cs) : Note(c) \notin ToSet(msgs)
    BY <1>3, <1>5, <1>11, ToolFacts DEF Answering
  <2>2. \A c \in ToSet(cs) : Note(c) \notin ToSet(msgs')
    BY <1>3, <1>8, <2>1, ToolFacts
  <2>3. \A c \in ToSet(cs) : AllBehind(msgs', c)
    BY <1>2, <1>5, <1>8, <1>11, NoneBehind
  <2>4. AtCalls(o)'
    BY <1>1, <1>2, <1>4, <1>5, <1>11, <2>2, <2>3 DEF AtCalls
  <2>5. Heard(o)'
    BY <1>1, <1>2, <1>4, <1>5, <1>8, <1>11, HeardOn
  <2> QED
    BY <1>4, <2>4, <2>5 DEF InLoop, AtNotice, AtAnswer, AtRequest, Requesting
<1>12. ASSUME Tidy PROVE Logged'
  <2>1. \A m \in ToSet(msgs') : m \in ToSet(msgs) \/ m \in ToSet(Body') \/ IsTool(m)
    BY <1>2, <1>3, <1>5, <1>8, <1>12, ToolFacts
  <2> QED
    BY <1>2, <1>12, <2>1, LoggedOn DEF Tidy, Stepped
<1>13. ~EndOfTurn(o)
  BY <1>4 DEF EndOfTurn, At
<1> QED
  BY <1>1, <1>2, <1>9, <1>10, <1>11, <1>12, <1>13, LoopTStep

(* One result is logged. *)
LEMMA ToolPersistTStep ==
  ASSUME IInv, IInv', TInv, NEW o \in Owners, ToolPersist(o)
  PROVE  TInv'
<1> DEFINE cs == loop[o].calls
           c == Head(cs)
           rest == Tail(cs)
<1>1. /\ At(o, "persist") /\ log' = Append(log, Tool(c)) /\ UNCHANGED <<msgs, compact, calls, hist>>
      /\ loop' = [loop EXCEPT ![o].calls = Tail(@),
                              ![o].pc = IF Len(loop[o].calls) = 1 THEN "top" ELSE "persist"]
  BY DEF ToolPersist
<1>2. Types /\ Stepped(o) /\ TTypes /\ Shape /\ cs # <<>>
  BY <1>1, ToolsFacts DEF IInv, TInv, Types, LoopOK, At
<1>3. cs \in Seq(Calls)
  BY <1>2, LoopCalls
<1>4. loop'[o].pc \in {"top", "persist"} /\ loop'[o].calls = rest /\ loop'[o].pre = loop[o].pre
  BY <1>1, <1>2 DEF Types, LoopOK, LoopFields
<1>5. /\ c \in Calls /\ c \in ToSet(cs) /\ rest \in Seq(Calls) /\ ToSet(rest) \subseteq ToSet(cs)
      /\ IsInjective(cs) => IsInjective(rest) /\ c \notin ToSet(rest)
  <2>1. /\ Len(cs) \in Nat /\ Len(cs) >= 1 /\ c = cs[1] /\ rest \in Seq(Calls) /\ Len(rest) = Len(cs) - 1
        /\ \A k \in 1..Len(rest) : rest[k] = cs[k + 1] /\ k + 1 \in 1..Len(cs) /\ k + 1 # 1
    BY <1>2, <1>3
  <2>2. 1 \in 1..Len(cs) /\ cs[1] \in Calls
    BY <1>3, <2>1
  <2>3. /\ \A x : x \in ToSet(cs) <=> \E k \in 1..Len(cs) : cs[k] = x
        /\ \A x : x \in ToSet(rest) <=> \E k \in 1..Len(rest) : rest[k] = x
    BY <1>3, <2>1, InSeq
  <2>4. DOMAIN cs = 1..Len(cs) /\ DOMAIN rest = 1..Len(rest)
    BY <1>3, <2>1
  <2> HIDE DEF cs, c, rest
  <2>5. IsInjective(cs) => \A i, j \in 1..Len(cs) : cs[i] = cs[j] => i = j
    BY <2>4 DEF IsInjective
  <2>6. IsInjective(cs) => IsInjective(rest)
    <3>1. SUFFICES ASSUME IsInjective(cs), NEW i \in 1..Len(rest), NEW j \in 1..Len(rest), rest[i] = rest[j]
                   PROVE  i = j
      BY <2>4 DEF IsInjective
    <3>2. i + 1 = j + 1
      BY <2>1, <2>5, <3>1
    <3> QED
      BY <3>2
  <2>7. IsInjective(cs) => c \notin ToSet(rest)
    BY <2>1, <2>2, <2>3, <2>5
  <2>8. ToSet(rest) \subseteq ToSet(cs) /\ c \in ToSet(cs) /\ c \in Calls
    BY <2>1, <2>2, <2>3
  <2> QED
    BY <2>1, <2>6, <2>7, <2>8
<1> HIDE DEF cs, c, rest
<1>6. log \in Seq(Entries) /\ Body \in Seq(Msgs) /\ Tool(c) \in Msgs
  BY <1>2, <1>5, BodyFacts, ToolFacts DEF TTypes
<1>7. /\ Append(log, Tool(c)) \in Seq(Entries) /\ ToSet(Append(log, Tool(c))) = ToSet(log) \cup {Tool(c)}
      /\ ApplyCompaction(Append(log, Tool(c))) = Append(ApplyCompaction(log), Tool(c))
  BY <1>6, BodyAppend
<1>8. Body' = Append(Body, Tool(c)) /\ ToSet(log') = ToSet(log) \cup {Tool(c)} /\ log' \in Seq(Entries)
  BY <1>1, <1>7 DEF Body
<1>9. TTypes' /\ Shape'
  BY <1>1, <1>2, <1>8 DEF TTypes, Shape
<1>10. ASSUME Tidy
       PROVE  /\ IsInjective(cs)
              /\ \A d \in ToSet(cs) : /\ calls[d] # "free" /\ ~Answering(Body, d)
                                      /\ Note(d) \notin ToSet(msgs) /\ AllBehind(msgs, d)
  BY <1>1, <1>10 DEF Tidy, InLoop, AtCalls, At, cs
<1>11. ASSUME Tidy
       PROVE  /\ Sound(msgs, Append(Body, Tool(c)), ToSet(log) \cup {Tool(c)}, calls)
              /\ ToSet(Body) \subseteq ToSet(Append(Body, Tool(c)))
              /\ \A d : Answering(Append(Body, Tool(c)), d) <=> Answering(Body, d) \/ d = c
  <2>1. Sound(msgs, Body, ToSet(log), calls)
    BY <1>11 DEF Tidy
  <2>2. calls[c] # "free" /\ ~Answering(Body, c) /\ Note(c) \notin ToSet(msgs) /\ AllBehind(msgs, c)
    BY <1>5, <1>10, <1>11
  <2>3. /\ Sound(msgs, Append(Body, Tool(c)), ToSet(log) \cup {Tool(c)}, calls)
        /\ \A d : /\ Answering(Append(Body, Tool(c)), d) <=> Answering(Body, d) \/ d = c
                  /\ ToSet(Body) \subseteq ToSet(Append(Body, Tool(c)))
    BY <1>5, <1>6, <2>1, <2>2, SoundResult
  <2> QED
    BY <2>3
<1>12. ASSUME Tidy PROVE InLoop(o)'
  <2>1. \A d \in ToSet(rest) : /\ calls[d] # "free" /\ ~Answering(Body', d)
                                /\ Note(d) \notin ToSet(msgs) /\ AllBehind(msgs, d)
    BY <1>5, <1>8, <1>10, <1>11, <1>12
  <2>2. AtCalls(o)'
    BY <1>1, <1>4, <1>5, <1>10, <1>12, <2>1 DEF AtCalls
  <2>3. Heard(o)
    BY <1>1, <1>12 DEF Tidy, InLoop, AtAnswer, PastRequest, At
  <2>4. Heard(o)'
    BY <1>1, <1>4, <2>3 DEF Heard
  <2> QED
    BY <1>4, <2>2, <2>4 DEF InLoop, AtNotice, AtAnswer, AtRequest, Requesting
<1>13. ASSUME Tidy PROVE Logged'
  BY <1>1, <1>2, <1>8, <1>11, <1>13, LoggedOn DEF Tidy, Stepped
<1>14. ~EndOfTurn(o)
  BY <1>4 DEF EndOfTurn, At
<1> QED
  BY <1>1, <1>2, <1>8, <1>9, <1>11, <1>12, <1>13, <1>14, LoopTStep

(* A compaction folds the head away. *)
LEMMA FoldTFacts ==
  ASSUME TTypes, Shape, FoldHead, hist'.folded \in BOOLEAN
  PROVE  /\ TTypes' /\ Shape' /\ Paired(msgs')
         /\ \A m \in ToSet(msgs') : m \in ToSet(Body') \/ IsTool(m)
         /\ Sound(msgs, Body, ToSet(log), calls) => Sound(msgs', Body', ToSet(log'), calls)
         /\ Users(msgs') \subseteq Users(msgs)
<1> DEFINE t == SubSeq(msgs, compact.cut + 1, Len(msgs))
           q == <<Checkpoint>> \o t
<1>1. msgs \in Seq(Msgs) /\ compact.cut \in 0..Len(msgs) /\ log \in Seq(Entries)
  BY DEF TTypes, Shape
<1>2. msgs' = RepairToolPairs(q) /\ log' = Append(log, Marker(t)) /\ compact' = NoCompaction
  BY DEF FoldHead
<1>3. t \in Seq(Msgs) /\ Folds(q, msgs)
  BY <1>1, FoldFacts
<1> HIDE DEF t
<1>4. /\ Append(log, Marker(t)) \in Seq(Entries)
      /\ \A x \in Msgs : x \in ToSet(Append(log, Marker(t))) <=> x \in ToSet(log)
      /\ ApplyCompaction(Append(log, Marker(t))) = q
  BY <1>1, <1>3, BodyMark
<1> HIDE DEF q
<1>5. Body' = q /\ q \in Seq(Msgs)
  BY <1>2, <1>3, <1>4 DEF Body, Folds
<1>6. msgs' \in Seq(Msgs) /\ Paired(msgs') /\ Owned(msgs')
  BY <1>2, <1>5, RepairType, RepairPairs DEF Paired
<1>7. TTypes' /\ Shape'
  <2>1. compact'.cut = 0 /\ Len(msgs') \in Nat
    BY <1>2, <1>6 DEF NoCompaction
  <2> QED
    BY <1>2, <1>4, <1>6, <2>1 DEF TTypes, Shape
<1>8. \A m \in ToSet(msgs') : m \in ToSet(q) \/ IsTool(m)
  BY <1>2, <1>5, RepairElements, AnswersFacts
<1>9. \A c \in Calls : Tool(c) \in ToSet(log') <=> Tool(c) \in ToSet(log)
  BY <1>2, <1>4, ToolFacts
<1>10. Sound(msgs, Body, ToSet(log), calls) => Sound(msgs', q, ToSet(log'), calls)
  BY <1>2, <1>3, <1>9, SoundFold
<1>11. Users(msgs') \subseteq Users(msgs)
  <2>1. \A m \in ToSet(msgs') : m.role = "user" => m \in ToSet(msgs)
    BY <1>3, <1>8 DEF Folds, Checkpoint, Message, IsTool
  <2> QED
    BY <2>1 DEF Users
<1> QED
  BY <1>5, <1>6, <1>7, <1>8, <1>10, <1>11

LEMMA LoopCompactEndTStep ==
  ASSUME IInv, IInv', TInv, NEW o \in Owners, LoopCompactEnd(o)
  PROVE  TInv'
<1>1. Types /\ Stepped(o) /\ TTypes /\ Shape /\ loop[o].pc \in {"compacting", "forced"} /\ LoopOK(loop[o])
  BY GoOnFacts DEF IInv, Types, TInv, LoopCompactEnd
<1>2. /\ loop' = [loop EXCEPT ![o].pc = IF At(o, "forced") THEN "top" ELSE "snap"]
      /\ UNCHANGED <<gate, cmd, calls, open, hist>>
  BY DEF LoopCompactEnd, Goto
<1>3. /\ loop'[o].round = loop[o].round
      /\ loop'[o].pc = IF loop[o].pc = "forced" THEN "top" ELSE "snap"
  BY <1>1, <1>2 DEF Types, LoopOK, LoopFields, At
<1>4. Carefree(loop'[o]) \/ (Requesting(loop[o]) /\ Requesting(loop'[o]))
  <2>1. CASE loop[o].pc = "forced"
    <3>1. ~(loop[o].round >= MaxToolRounds)
      BY <1>1, <2>1, AgentAssumption DEF LoopOK
    <3> QED
      BY <1>3, <2>1, <3>1 DEF Carefree
  <2>2. CASE loop[o].pc = "compacting"
    BY <1>3, <2>2 DEF Requesting
  <2> QED
    BY <1>1, <2>1, <2>2
<1>5. CASE compact' = NoCompaction /\ UNCHANGED <<msgs, log>>
  <2>1. compact'.cut \in 0..Len(msgs)
    BY <1>5, CutMoves
  <2> QED
    BY <1>1, <1>2, <1>4, <1>5, <2>1, SilentMove DEF Stepped
<1>6. CASE FoldHead
  <2>1. hist'.folded \in BOOLEAN
    BY <1>1, <1>2 DEF TTypes
  <2>2. /\ TTypes' /\ Shape' /\ Paired(msgs') /\ \A m \in ToSet(msgs') : m \in ToSet(Body') \/ IsTool(m)
        /\ Sound(msgs, Body, ToSet(log), calls) => Sound(msgs', Body', ToSet(log'), calls)
    BY <1>1, <1>6, <2>1, FoldTFacts
  <2>3. InLoop(o)'
    BY <1>4, <2>2 DEF InLoop, AtCalls, AtNotice, AtAnswer, AtRequest, PastRequest, Requesting, Carefree
  <2>4. Logged'
    BY <2>2 DEF Logged
  <2>5. ~EndOfTurn(o)
    BY <1>3 DEF EndOfTurn, At
  <2>6. Tidy => Sound(msgs', Body', ToSet(log'), calls')
    BY <1>2, <2>2 DEF Tidy
  <2> QED
    BY <1>1, <1>2, <2>2, <2>3, <2>4, <2>5, <2>6, LoopTStep
<1> QED
  BY <1>5, <1>6 DEF LoopCompactEnd

(* chat_compact folds at rest, or the chat counts as disturbed. *)
LEMMA CommandFoldTStep ==
  ASSUME IInv, TInv, CompactCommandEnd, FoldHead, hist' = [hist EXCEPT !.folded = @ \/ Busy]
  PROVE  TInv'
<1>1. Types /\ HistOK /\ TTypes /\ Shape /\ hist.folded \in BOOLEAN /\ cmd \in CmdType
  BY DEF IInv, Types, TInv, TTypes
<1>2. UNCHANGED <<gate, loop, calls, open>> /\ cmd' = [cmd EXCEPT !["auto"] = "again"]
  BY DEF CompactCommandEnd
<1>3. /\ hist'.folded = (hist.folded \/ Busy) /\ hist'.stolen = hist.stolen
      /\ hist'.strayed = hist.strayed /\ hist'.asked = hist.asked
      /\ hist'.dropped = hist.dropped /\ hist'.unheard = hist.unheard
  BY <1>1 DEF HistOK, HistNames
<1>4. hist'.folded \in BOOLEAN /\ Strays'
  BY <1>1, <1>2, <1>3, Facts DEF TInv, Strays, CmdType
<1>5. /\ TTypes' /\ Shape' /\ Users(msgs') \subseteq Users(msgs)
      /\ \A m \in ToSet(msgs') : m \in ToSet(Body') \/ IsTool(m)
      /\ Sound(msgs, Body, ToSet(log), calls) => Sound(msgs', Body', ToSet(log'), calls)
  BY <1>1, <1>4, FoldTFacts
<1>6. ASSUME Undisturbed' PROVE Tidy'
  <2>1. Undisturbed /\ ~Busy /\ ~hist.stolen
    BY <1>3, <1>6 DEF Undisturbed
  <2>2. Tidy /\ Gated
    BY <2>1 DEF TInv, IInv
  <2>3. \A o \in Owners : ~Active(o)
    BY <2>1, <2>2, Facts DEF Gated, Busy
  <2>4. \A o \in Owners : loop'[o].pc \in {"off", "end"}
    BY <1>2, <2>3 DEF Active
  <2>5. \A o \in Owners : InLoop(o)'
    BY <2>4 DEF InLoop, AtCalls, AtNotice, AtAnswer, AtRequest, PastRequest, Requesting
  <2>6. Logged'
    BY <1>5 DEF Logged
  <2>7. Given'
    BY <1>3, <1>5, <2>1, <2>2 DEF Tidy, Given, Settled
  <2>8. Sound(msgs', Body', ToSet(log'), calls')
    BY <1>2, <1>5, <2>2 DEF Tidy
  <2> QED
    BY <2>5, <2>6, <2>7, <2>8 DEF Tidy
<1> QED
  BY <1>4, <1>5, <1>6 DEF TInv

(* A user message is pushed, by a send or to continue the chat. *)
LEMMA UserPushLoop ==
  ASSUME Types, NEW o \in Owners, InLoop(o), msgs \in Seq(Msgs), NEW x, Plain(x), x.role = "user",
         msgs' = Append(msgs, x), UNCHANGED <<log, loop, calls, hist>>
  PROVE  InLoop(o)'
<1>1. Spoken(x) /\ Made(x) = {} /\ Body' = Body
  BY PlainSpoken DEF Body
<1>2. /\ Widens(Append(msgs, x), msgs, x) /\ Keeps(Append(msgs, x), msgs)
      /\ Append(msgs, x)[Len(msgs) + 1] = x
      /\ Paired(msgs) => Paired(Append(msgs, x))
  BY <1>1, AppendWidens
<1>3. /\ msgs' \in Seq(Msgs) /\ Keeps(msgs', msgs) /\ msgs'[Len(msgs) + 1] = x
      /\ ToSet(msgs') = ToSet(msgs) \cup {x} /\ Len(msgs') = Len(msgs) + 1
      /\ Paired(msgs) => Paired(msgs')
      /\ \A c : /\ Calling(msgs', c) <=> Calling(msgs, c)
                /\ Answering(msgs', c) <=> Answering(msgs, c)
                /\ AllBehind(msgs, c) => AllBehind(msgs', c)
  BY <1>1, <1>2 DEF Widens
<1>4. AtCalls(o)'
  <2>1. \A c \in ToSet(loop[o].calls) : Note(c) # x
    BY LoopCalls, ToolFacts
  <2>2. \A c \in ToSet(loop[o].calls) : Note(c) \notin ToSet(msgs) => Note(c) \notin ToSet(msgs')
    BY <1>3, <2>1
  <2>3. AtCalls(o)
    BY DEF InLoop
  <2> QED
    BY <1>1, <1>3, <2>2, <2>3 DEF AtCalls
<1>5. AtNotice(o)'
  BY <1>1 DEF InLoop, AtNotice
<1>6. PastRequest(loop[o]) => Heard(o)'
  BY <1>3, HeardOn DEF InLoop, AtAnswer
<1>7. ASSUME loop[o].pc \in {"stream", "final"}, NEW k \in 1..Len(msgs'), k > loop[o].pre
      PROVE  msgs'[k].role = "user"
  <2>1. Len(msgs) \in Nat /\ \A i \in 1..Len(msgs) : msgs'[i] = msgs[i]
    BY <1>3 DEF Keeps
  <2>2. CASE k \in 1..Len(msgs)
    BY <1>7, <2>1, <2>2 DEF InLoop, AtAnswer
  <2>3. CASE k = Len(msgs) + 1
    BY <1>3, <2>3
  <2> QED
    BY <1>3, <2>1, <2>2, <2>3
<1>8. AtAnswer(o)'
  BY <1>6, <1>7 DEF AtAnswer
<1>9. AtRequest(o)'
  BY <1>3 DEF InLoop, AtRequest
<1> QED
  BY <1>4, <1>5, <1>8, <1>9 DEF InLoop

LEMMA UserPushTStep ==
  ASSUME IInv, TInv, NEW s \in Owners, NEW st \in {"owner", "queued"}, msgs' = Append(msgs, User(s)),
         cmd' = [cmd EXCEPT ![s] = st], Busy', UNCHANGED <<log, loop, compact, calls, open, hist>>
  PROVE  TInv'
<1> DEFINE x == User(s)
<1>1. /\ Types /\ TTypes /\ Shape /\ Strays /\ msgs \in Seq(Msgs) /\ Body' = Body
      /\ cmd \in CmdType /\ DOMAIN cmd = Owners
  BY DEF IInv, Types, CmdType, TInv, TTypes, Body
<1>2. Plain(x) /\ x.role = "user"
  BY PlainMessages DEF User, Message
<1> HIDE DEF x
<1>3. msgs' = Append(msgs, x)
  BY DEF x
<1>4. Spoken(x) /\ Made(x) = {} /\ NewTo(x, msgs)
  BY <1>2, PlainSpoken
<1>5. Widens(msgs', msgs, x)
  BY <1>1, <1>3, <1>4, AppendWidens
<1>6. msgs' \in Seq(Msgs) /\ ToSet(msgs') = ToSet(msgs) \cup {x} /\ Len(msgs') = Len(msgs) + 1
  BY <1>5 DEF Widens
<1>7. TTypes' /\ Shape' /\ Strays'
  <2>1. compact'.cut \in 0..Len(msgs')
    BY <1>1, <1>6 DEF Shape
  <2>2. TTypes' /\ Shape'
    BY <1>1, <1>5, <1>6, <2>1 DEF TTypes, Shape, Widens
  <2>3. Strays'
    BY <1>1 DEF Strays
  <2> QED
    BY <2>2, <2>3
<1>8. ASSUME Tidy, NEW o \in Owners PROVE InLoop(o)'
  BY <1>1, <1>2, <1>3, <1>8, UserPushLoop DEF Tidy
<1>9. ASSUME Tidy PROVE Logged'
  <2>1. SUFFICES ASSUME open, NEW m \in ToSet(msgs'), ~IsTool(m)
                 PROVE  m \in ToSet(Body) \/ \E o \in Owners : m = User(o) /\ cmd'[o] \in {"owner", "queued"}
    BY <1>1 DEF Logged
  <2>2. cmd'[s] = st /\ \A o \in Owners : cmd[o] \in {"owner", "queued"} => cmd'[o] \in {"owner", "queued"}
    BY <1>1
  <2>3. CASE m = x
    BY <2>2, <2>3 DEF x
  <2>4. CASE m \in ToSet(msgs)
    <3>1. m \in ToSet(Body) \/ \E o \in Owners : m = User(o) /\ cmd[o] \in {"owner", "queued"}
      BY <1>9, <2>1, <2>4 DEF Tidy, Logged
    <3> QED
      BY <2>2, <3>1
  <2> QED
    BY <1>6, <2>3, <2>4
<1>10. ASSUME Tidy PROVE Sound(msgs', Body', ToSet(log'), calls')
  <2>1. Sound(msgs', Body, ToSet(log), calls)
    BY <1>4, <1>5, <1>10, SoundWiden DEF Tidy
  <2> QED
    BY <1>1, <2>1
<1>11. Given'
  BY DEF Given
<1>12. Undisturbed' => Undisturbed
  BY DEF Undisturbed
<1>13. ASSUME Undisturbed' PROVE Tidy'
  BY <1>8, <1>9, <1>10, <1>11, <1>12, <1>13 DEF Tidy, TInv
<1> QED
  BY <1>7, <1>13 DEF TInv

LEMMA SendPushTStep ==
  ASSUME IInv, TInv, NEW s \in Owners, SendPush(s)
  PROVE  TInv'
<1>1. gate \in GateType
  BY DEF IInv, Types
<1>2. Busy'
  BY <1>1 DEF SendPush, Claim, Busy, GateType
<1>3. /\ cmd' = [cmd EXCEPT ![s] = IF Claim THEN "owner" ELSE "queued"]
      /\ msgs' = Append(msgs, User(s)) /\ UNCHANGED <<log, loop, compact, calls, open, hist>>
  BY DEF SendPush
<1>4. PICK st \in {"owner", "queued"} : cmd' = [cmd EXCEPT ![s] = st]
  BY <1>3
<1> QED
  BY <1>2, <1>3, <1>4, UserPushTStep

LEMMA CompactTStep ==
  ASSUME IInv, TInv, CompactCommand \/ CompactCommandEnd \/ AutocontinueIfIdle
  PROVE  TInv'
<1>1. CASE CompactCommand
  BY <1>1, SilentCompact
<1>2. CASE CompactCommandEnd
  BY <1>2, SilentCompact, CommandFoldTStep DEF CompactCommandEnd
<1>3. CASE AutocontinueIfIdle
  <2>1. CASE UNCHANGED <<msgs, gate>> /\ cmd' = [cmd EXCEPT !["auto"] = "done"]
    BY <1>3, <2>1, SilentCompact
  <2>2. CASE /\ msgs' = Append(msgs, User("auto")) /\ gate' = [gate EXCEPT !.claimed = TRUE]
             /\ cmd' = [cmd EXCEPT !["auto"] = "owner"]
    <3>1. gate \in GateType /\ "auto" \in Owners
      BY Facts DEF IInv, Types
    <3>2. Busy'
      BY <2>2, <3>1 DEF Busy, GateType
    <3>3. UNCHANGED <<log, loop, compact, calls, open, hist>>
      BY <1>3 DEF AutocontinueIfIdle
    <3> QED
      BY <2>2, <3>1, <3>2, <3>3, UserPushTStep
  <2> QED
    BY <1>3, <2>1, <2>2 DEF AutocontinueIfIdle
<1> QED
  BY <1>1, <1>2, <1>3

(* The pushed message is logged. *)
LEMMA SendLogTStep ==
  ASSUME IInv, TInv, NEW s \in Owners, SendLog(s)
  PROVE  TInv'
<1> DEFINE x == User(s)
<1>1. /\ log' = Append(log, x) /\ cmd' = [cmd EXCEPT ![s] = IF @ = "owner" THEN "spawn" ELSE "done"]
      /\ UNCHANGED <<msgs, gate, loop, compact, calls, open, hist>>
  BY DEF SendLog
<1>2. TTypes /\ Shape /\ Strays /\ LogsPlain(x) /\ DOMAIN cmd = Owners /\ Types /\ Plain(x)
  BY <1>1, PlainMessages DEF TInv, LogsPlain, IInv, Types, CmdType
<1>3. /\ log' \in Seq(Entries) /\ ToSet(log') = ToSet(log) \cup {x}
      /\ ToSet(Body') = ToSet(Body) \cup {x}
      /\ \A c : (Answering(Body', c) <=> Answering(Body, c))
      /\ Sound(msgs, Body, ToSet(log), calls) => Sound(msgs, Body', ToSet(log'), calls)
  BY <1>2, LogsPlainFacts
<1>4. TTypes' /\ Shape' /\ Strays'
  <2>1. TTypes' /\ Shape'
    BY <1>1, <1>2, <1>3 DEF TTypes, Shape
  <2>2. Strays'
    BY <1>1, <1>2 DEF Strays
  <2> QED
    BY <2>1, <2>2
<1>5. ASSUME Tidy, NEW o \in Owners PROVE InLoop(o)'
  <2>1. AtCalls(o) /\ AtNotice(o) /\ AtAnswer(o) /\ AtRequest(o)
    BY <1>5 DEF Tidy, InLoop
  <2>2. AtCalls(o)'
    <3>1. \A c \in ToSet(loop[o].calls) : Tool(c) # x
      BY <1>2, LoopCalls, ToolFacts
    <3>2. \A c \in ToSet(loop[o].calls) : Tool(c) \notin ToSet(log) => Tool(c) \notin ToSet(log')
      BY <1>3, <3>1
    <3> QED
      BY <1>1, <1>3, <2>1, <3>2 DEF AtCalls
  <2>3. AtNotice(o)'
    BY <1>1, <1>3, <2>1 DEF AtNotice
  <2>4. AtAnswer(o)'
    BY <1>1, <2>1 DEF AtAnswer, Heard
  <2>5. AtRequest(o)'
    BY <1>1, <2>1 DEF AtRequest
  <2> QED
    BY <2>2, <2>3, <2>4, <2>5 DEF InLoop
<1>6. ASSUME Tidy PROVE Logged'
  <2>1. \A o \in Owners \ {s} : cmd'[o] = cmd[o]
    BY <1>1, <1>2
  <2> QED
    BY <1>1, <1>3, <1>6, <2>1 DEF Tidy, Logged
<1>7. ASSUME Tidy PROVE Given'
  BY <1>1, <1>7 DEF Tidy, Given, Settled, Busy
<1>8. Undisturbed' => Undisturbed
  BY <1>1 DEF Undisturbed
<1>9. ASSUME Undisturbed' PROVE Tidy'
  <2>1. Tidy
    BY <1>8, <1>9 DEF TInv
  <2>2. Sound(msgs', Body', ToSet(log'), calls')
    BY <1>1, <1>3, <2>1 DEF Tidy
  <2> QED
    BY <1>5, <1>6, <1>7, <2>1, <2>2 DEF Tidy
<1> QED
  BY <1>4, <1>9 DEF TInv

(* The chat is opened again from its log. *)
LEMMA ChatOpenTStep ==
  ASSUME IInv, TInv, ChatOpen
  PROVE  TInv'
<1> DEFINE left == \E o \in Owners : Leftover(o)
<1>1. /\ msgs' = RepairToolPairs(Body) /\ compact' = NoCompaction /\ log' = log
      /\ loop' = [o \in Owners |-> IdleLoop] /\ calls' = Forgotten
      /\ cmd' = [o \in Owners |-> IF Leftover(o) THEN "stray" ELSE cmd[o]]
      /\ hist' = [GiveUp(Users(msgs')) EXCEPT !.strayed = @ \/ left]
  BY DEF ChatOpen, Reloaded, Body
<1> HIDE DEF left
<1>2. TTypes /\ HistOK /\ Strays /\ Body \in Seq(Msgs) /\ Body' = Body
  BY <1>1, BodyFacts DEF TInv, IInv, Types, Body
<1>3. msgs' \in Seq(Msgs) /\ Paired(msgs') /\ Owned(msgs') /\ Len(msgs') \in Nat
  <2>1. msgs' \in Seq(Msgs) /\ Paired(msgs')
    BY <1>1, <1>2, RepairType, RepairPairs
  <2> QED
    BY <2>1 DEF Paired
<1>4. /\ hist'.asked = hist.asked /\ hist'.dropped = hist.dropped \cup (Users(msgs') \ hist.asked)
      /\ hist'.folded = hist.folded /\ hist'.stolen = hist.stolen
      /\ hist'.strayed = (hist.strayed \/ left)
  <2> DEFINE us == Users(msgs')
             g == GiveUp(us)
  <2> HIDE DEF us
  <2>1. /\ g.asked = hist.asked /\ g.dropped = hist.dropped \cup (us \ hist.asked)
        /\ g.folded = hist.folded /\ g.stolen = hist.stolen /\ g.strayed = hist.strayed
        /\ DOMAIN g = HistNames
    BY <1>2, HistFields
  <2>2. hist' = [g EXCEPT !.strayed = @ \/ left]
    BY <1>1 DEF us
  <2> HIDE DEF g
  <2> QED
    BY <2>1, <2>2 DEF us, HistNames
<1>5. TTypes' /\ Shape'
  <2>1. compact'.cut = 0
    BY <1>1 DEF NoCompaction
  <2> QED
    BY <1>1, <1>2, <1>3, <1>4, <2>1 DEF TTypes, Shape
<1>6. Strays'
  <2>1. hist'.strayed \in BOOLEAN
    BY <1>2, <1>4 DEF Strays
  <2>2. \A o \in Owners : cmd'[o] = "stray" => left \/ cmd[o] = "stray"
    BY <1>1 DEF left
  <2> QED
    BY <1>2, <1>4, <2>1, <2>2 DEF Strays
<1>7. ASSUME Undisturbed' PROVE Tidy'
  <2>1. Tidy
    BY <1>4, <1>7 DEF TInv, Undisturbed
  <2>2. Sound(RepairToolPairs(Body), Body, ToSet(log), calls)
    BY <1>2, <2>1, SoundReload DEF Tidy
  <2>3. \A c \in Calls : calls'[c] = "free" => calls[c] = "free"
    BY <1>1 DEF Forgotten
  <2>4. Sound(RepairToolPairs(Body), Body, ToSet(log), calls')
    BY <2>2, <2>3, SoundCalls
  <2>5. \A o \in Owners : InLoop(o)'
    BY <1>1, IdleLoopOK
       DEF InLoop, AtCalls, AtNotice, AtAnswer, AtRequest, PastRequest, Requesting
  <2>6. \A m \in ToSet(msgs') : ~IsTool(m) => m \in ToSet(Body)
    BY <1>1, <1>2, RepairElements, AnswersFacts
  <2>7. Logged'
    BY <1>2, <2>6 DEF Logged
  <2>8. Given'
    BY <1>4 DEF Given, Settled
  <2>9. Sound(msgs', Body', ToSet(log'), calls')
    BY <1>1, <1>2, <2>4
  <2> QED
    BY <2>5, <2>7, <2>8, <2>9 DEF Tidy
<1> QED
  BY <1>5, <1>6, <1>7 DEF TInv

(* What a stray logs, it logs in a chat that counts as disturbed. *)
LEMMA StrayTStep ==
  ASSUME IInv, TInv, NEW o \in Owners, Stray(o)
  PROVE  TInv'
<1>1. /\ cmd[o] = "stray" /\ cmd' = [cmd EXCEPT ![o] = "done"]
      /\ UNCHANGED <<msgs, compact, hist>>
      /\ \/ log' = log
         \/ \E e \in {User(o), Asst(<<>>), Marker(<<>>)} : log' = Append(log, e)
  BY DEF Stray
<1>2. TTypes /\ Shape /\ Strays /\ DOMAIN cmd = Owners /\ log \in Seq(Entries)
  BY DEF TInv, TTypes, IInv, Types, CmdType
<1>3. log' \in Seq(Entries)
  <2>1. User(o) \in Msgs /\ Asst(<<>>) \in Msgs /\ <<>> \in Seq(Msgs)
    BY PlainMessages DEF Plain
  <2>2. \A x \in Msgs : Append(log, x) \in Seq(Entries)
    BY <1>2, BodyAppend
  <2>3. Append(log, Marker(<<>>)) \in Seq(Entries)
    BY <1>2, <2>1, BodyMark
  <2> QED
    BY <1>1, <1>2, <2>1, <2>2, <2>3
<1>4. TTypes' /\ Shape'
  BY <1>1, <1>2, <1>3 DEF TTypes, Shape
<1>5. Strays'
  BY <1>1, <1>2 DEF Strays
<1>6. ~Undisturbed'
  BY <1>1, <1>2 DEF Strays, Undisturbed
<1> QED
  BY <1>4, <1>5, <1>6 DEF TInv

LEMMA InitTInv == Init => TInv
<1> SUFFICES ASSUME Init PROVE TInv
  OBVIOUS
<1>1. /\ msgs = <<>> /\ log = <<>> /\ compact.cut = 0 /\ hist.folded = FALSE /\ hist.strayed = FALSE
      /\ \A o \in Owners : loop[o] = IdleLoop /\ cmd[o] = "new"
  BY DEF Init, NoCompaction
<1>2. Body = <<>>
  <2>1. MarksOf(<<>>) = {}
    BY DEF MarksOf
  <2> QED
    BY <1>1, <2>1, BodyIs DEF Body
<1>3. /\ <<>> \in Seq(Msgs) /\ <<>> \in Seq(Entries) /\ ToSet(<<>>) = {} /\ Owned(<<>>) /\ Fit(<<>>)
      /\ \A c : ~Calling(<<>>, c) /\ ~Answering(<<>>, c)
  BY NoneFacts
<1>4. TTypes
  BY <1>1, <1>3 DEF TTypes
<1>5. Shape /\ Strays
  <2>1. Len(<<>>) = 0 /\ 0 \in 0..0
    OBVIOUS
  <2> QED
    BY <1>1, <1>3, <2>1 DEF Shape, Strays
<1>6. Sound(msgs, Body, ToSet(log), calls)
  BY <1>1, <1>2, <1>3 DEF Sound, Unseen
<1>7. \A o \in Owners : InLoop(o)
  BY <1>1, IdleLoopOK DEF InLoop, AtCalls, AtNotice, AtAnswer, AtRequest, PastRequest, Requesting
<1>8. Logged /\ Given
  BY <1>1, <1>3 DEF Logged, Given, Settled, Users
<1> QED
  BY <1>4, <1>5, <1>6, <1>7, <1>8 DEF TInv, Tidy

LEMMA StutterTInv == TInv /\ UNCHANGED vars => TInv'
<1> SUFFICES ASSUME TInv, UNCHANGED vars PROVE TInv'
  OBVIOUS
<1>1. Body' = Body /\ (Undisturbed' <=> Undisturbed)
  BY DEF Body, vars, Undisturbed
<1>2. TTypes' /\ Shape' /\ Strays'
  BY DEF TInv, TTypes, Shape, Strays, vars
<1>3. ASSUME Tidy PROVE Tidy'
  <2>1. \A o \in Owners : InLoop(o)'
    BY <1>1, <1>3 DEF Tidy, InLoop, AtCalls, AtNotice, AtAnswer, Heard, AtRequest, vars
  <2>2. Logged' /\ Given'
    BY <1>1, <1>3 DEF Tidy, Logged, Given, Settled, Busy, vars
  <2> QED
    BY <1>1, <1>3, <2>1, <2>2 DEF Tidy, vars
<1> QED
  BY <1>1, <1>2, <1>3 DEF TInv

LEMMA LoopStepTInv ==
  ASSUME IInv, IInv', TInv, NEW o \in Owners, LoopStep(o)
  PROVE  TInv'
<1>1. CASE \E cs \in BoundedSeq(Calls, Cardinality(Calls)) : Text(o, cs) \/ ToolRequest(o, cs)
  BY <1>1, AnswerTStep
<1>2. CASE EmptyTurn(o) \/ TransientFailure(o) \/ Overflow(o) \/ ProviderError(o)
  BY <1>2, StreamFailsStep
<1>3. CASE \/ LoopBegin(o) \/ LoopCompactStart(o) \/ LoopCompactSkip(o) \/ LoopEnd(o)
           \/ RoundCap(o) \/ LoopStop(o)
  BY <1>3, SilentSteps, TurnOverTStep
<1>4. CASE RoundTop(o) \/ Snapshot(o) \/ LoopCompactEnd(o)
  BY <1>4, RoundTopStep, SnapshotTStep, LoopCompactEndTStep
<1>5. CASE ErrorPush(o) \/ LoopGiveUp(o) \/ Final(o)
  BY <1>5, ErrorPushTStep, FinalTStep
<1>6. CASE ToolsPush(o) \/ ToolPersist(o)
  BY <1>6, ToolsPushTStep, ToolPersistTStep
<1> QED
  BY <1>1, <1>2, <1>3, <1>4, <1>5, <1>6 DEF LoopStep

LEMMA NextTInv == IInv /\ TInv /\ [Next]_vars => TInv'
<1> SUFFICES ASSUME IInv, TInv, [Next]_vars PROVE TInv'
  OBVIOUS
<1>1. IInv'
  BY NextIInv
<1>2. ASSUME NEW s \in Sends, SendLookup(s) PROVE TInv'
  BY <1>2, SilentSends DEF Owners
<1>3. ASSUME NEW o \in Owners, CommandStep(o) PROVE TInv'
  BY <1>3, SendPushTStep, SilentSends, SendLogTStep, SpawnTStep, StrayTStep DEF CommandStep
<1>4. ASSUME NEW o \in Owners, LoopStep(o) PROVE TInv'
  BY <1>1, <1>4, LoopStepTInv
<1>5. CASE CompactCommand \/ CompactCommandEnd \/ AutocontinueIfIdle
  BY <1>5, CompactTStep
<1>6. ASSUME NEW c \in Calls, ToolStart(c) \/ ApproveToolCall(c) \/ ToolEnd(c) PROVE TInv'
  BY <1>6, SilentTools
<1>7. CASE CancelStreaming \/ ChatClose \/ Crash \/ ChatOpen
  BY <1>7, SilentRaces, ChatOpenTStep
<1>8. CASE UNCHANGED vars
  BY <1>8, StutterTInv
<1> QED
  BY <1>2, <1>3, <1>4, <1>5, <1>6, <1>7, <1>8 DEF Next

LEMMA TInvariance == Spec => [](IInv /\ TInv)
  BY InitIInv, InitTInv, NextIInv, NextTInv, PTL DEF Spec

-----------------------------------------------------------------------------
(* A turn that ends with an answer leaves no message behind: at rest every *)
(* user message was part of a request, or its turn was cut off by a        *)
(* cancel, a close or a crash, or it was queued behind the last request of *)
(* a turn that failed or hit the round cap.  The end of a turn looks for   *)
(* queued messages in the critical section that releases the gate          *)
(* (user_queued_during_round, TurnGate::release).  Not promised after a    *)
(* cancel hit a claim, a manual compaction a turn, or once a leftover of a *)
(* closed runtime writes to the log.                                       *)
THEOREM MessagesHeard == Spec => []NoMessageAbandoned
<1>1. ASSUME IInv, TInv PROVE NoMessageAbandoned
  <2>1. SUFFICES ASSUME open, Quiet, Undisturbed PROVE Settled
    BY DEF NoMessageAbandoned, Settled
  <2>2. Gated /\ Given /\ gate \in GateType
    BY <1>1, <2>1 DEF IInv, Types, TInv, Tidy, Undisturbed
  <2>3. \A o \in Owners : ~Active(o) /\ ~Claims(o)
    BY <2>1 DEF Quiet, LoopQuiet, Active, Claims
  <2>4. ~Busy
    BY <2>2, <2>3 DEF Gated, Busy, GateType
  <2> QED
    BY <2>2, <2>4 DEF Given
<1> QED
  BY <1>1, TInvariance, PTL

(* Every transcript handed to the provider has each call answered at once  *)
(* and exactly once, whatever went before: answers cut off with calls      *)
(* nobody ran, compactions, cancels, crashes and reloads.  Not             *)
(* promised once a turn was robbed of its claim, had the transcript folded *)
(* under it, or shares its log with a leftover of a closed runtime         *)
(* (repair_orphan_tool_calls, compaction_cut, the one lock hold that       *)
(* pushes an answer with its results).                                     *)
THEOREM RequestsAccepted == Spec => []RequestWellFormed
<1>1. ASSUME IInv, TInv PROVE RequestWellFormed
  <2>1. ASSUME Undisturbed, NEW o \in Owners, At(o, "snap") PROVE WellFormed(msgs)
    <3>1. msgs \in Seq(Msgs) /\ Fit(msgs) /\ InLoop(o)
      BY <1>1, <2>1 DEF TInv, TTypes, Tidy, Sound
    <3>2. Paired(msgs)
      BY <2>1, <3>1 DEF InLoop, AtRequest, Requesting, At
    <3> QED
      BY <3>1, <3>2, FitIsWellFormed
  <2> QED
    BY <2>1 DEF RequestWellFormed
<1> QED
  BY <1>1, TInvariance, PTL

(* The log is enough to resume from at every moment a crash may hit:       *)
(* reopening gives a transcript providers accept, with every message of a  *)
(* chat at rest and every result that was logged, and a compaction never   *)
(* cuts beyond the transcript (chat_open, apply_compaction, head_count).   *)
THEOREM LogSuffices == Spec => []ReloadIsFaithful
<1>1. ASSUME IInv, TInv PROVE ReloadIsFaithful
  <2>1. Body \in Seq(Msgs) /\ msgs \in Seq(Msgs) /\ compact.cut \in 0..Len(msgs)
    BY <1>1, BodyFacts DEF TInv, TTypes, Shape
  <2>2. Reloaded(log) = RepairToolPairs(Body)
    BY DEF Reloaded, Body
  <2>3. CutInRange
    BY <2>1 DEF CutInRange
  <2>4. ASSUME Undisturbed PROVE Sound(msgs, Body, ToSet(log), calls) /\ Logged
    BY <1>1, <2>4 DEF TInv, Tidy
  <2>5. ReloadWellFormed
    <3>1. ASSUME Undisturbed PROVE WellFormed(RepairToolPairs(Body))
      <4>1. RepairToolPairs(Body) \in Seq(Msgs) /\ Paired(RepairToolPairs(Body))
        BY <2>1, RepairType, RepairPairs
      <4>2. Fit(RepairToolPairs(Body))
        BY <2>1, <2>4, <3>1, RepairFit DEF Sound
      <4> QED
        BY <4>1, <4>2, FitIsWellFormed
    <3> QED
      BY <2>2, <3>1 DEF ReloadWellFormed
  <2>6. ASSUME Undisturbed, open, Quiet, NEW m \in ToSet(msgs), ~IsTool(m)
        PROVE  m \in ToSet(RepairToolPairs(Body))
    <3>1. \A o \in Owners : cmd[o] \notin {"owner", "queued"}
      BY <2>6 DEF Quiet
    <3>2. m \in ToSet(Body)
      BY <2>4, <2>6, <3>1 DEF Logged
    <3> QED
      BY <2>1, <2>6, <3>2, RepairElements
  <2>7. ASSUME Undisturbed, NEW c \in Calls, Note(c) \in ToSet(RepairToolPairs(Body)), Tool(c) \in ToSet(log)
        PROVE  FALSE
    <3>1. FoundAgain(msgs, Body, c)
      BY <2>4, <2>7 DEF Sound
    <3>2. Note(c) \in ToSet(Body)
      BY <2>1, <2>7, <3>1, RepairNotes DEF FoundAgain
    <3> QED
      BY <3>1, <3>2 DEF FoundAgain
  <2>8. ReloadLosesNothing
    BY <2>2, <2>6, <2>7 DEF ReloadLosesNothing
  <2> QED
    BY <2>3, <2>5, <2>8 DEF ReloadIsFaithful
<1> QED
  BY <1>1, TInvariance, PTL
=============================================================================
