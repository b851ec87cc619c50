----------------------------- MODULE Transcript -----------------------------
(***************************************************************************)
(* The chat transcript of the agent as a sequence of messages, the shape   *)
(* providers accept, and the pure functions the agent runs on it: the      *)
(* repair of tool-call/result pairs, the fold of a compaction marker on    *)
(* reload and the cut a compaction makes.                                  *)
(*                                                                         *)
(* Text is left out.  What is kept of a message is its role, the send it   *)
(* came from (a user message), the tool calls it makes (an assistant       *)
(* message) or the call it answers (a tool message); "note" is the         *)
(* synthetic "interrupted" result.  Providers choose call ids, unique in   *)
(* a session.                                                              *)
(***************************************************************************)
EXTENDS Integers, Sequences, SequencesExt, FiniteSets

Message(role, id, calls) == [role |-> role, id |-> id, calls |-> calls]
User(s) == Message("user", s, <<>>)
Asst(cs) == Message("asst", "none", cs)
Tool(c) == Message("tool", c, <<>>)
Note(c) == Message("note", c, <<>>)
\* The synthetic assistant message that carries a compaction's summary.
Checkpoint == Message("asst", "checkpoint", <<>>)

IsTool(m) == m.role \in {"tool", "note"}

\* The elements of s that are in P, in their order.
Picked(s, P) == FlattenSeq([k \in DOMAIN s |-> IF s[k] \in P THEN <<s[k]>> ELSE <<>>])

Users(ms) == {m.id : m \in {n \in ToSet(ms) : n.role = "user"}}

(***************************************************************************)
(* Providers demand each tool call to be followed at once by its result,   *)
(* exactly one, and no tool message anywhere else.                         *)
(***************************************************************************)
WellFormed(ms) ==
  \A i \in DOMAIN ms :
    /\ ms[i].role = "asst" =>
         LET n == Len(ms[i].calls) IN
         /\ i + n <= Len(ms)
         /\ \A j \in (i + 1)..(i + n) : IsTool(ms[j])
         /\ {ms[j].id : j \in (i + 1)..(i + n)} = ToSet(ms[i].calls)
    /\ IsTool(ms[i]) =>
         \E a \in 1..(i - 1) :
           /\ ms[a].role = "asst"
           /\ i <= a + Len(ms[a].calls)

\* The run of tool messages that follows position i, and where it ends.
RunEnd(ms, i) ==
  CHOOSE e \in i..Len(ms) :
    /\ \A j \in (i + 1)..e : IsTool(ms[j])
    /\ e < Len(ms) => ~IsTool(ms[e + 1])

(* Mutant: a stray result is not looked for, so a note replaces it. *)
AnswersWithoutStrays(ms, i) ==
  LET calls == ms[i].calls
      run == SubSeq(ms, i + 1, RunEnd(ms, i))
      mine == Picked(run, {m \in ToSet(run) : m.id \in ToSet(calls)})
      lost == Picked(calls, {c \in ToSet(calls) : \A m \in ToSet(run) : m.id # c})
  IN mine \o [k \in DOMAIN lost |-> Note(lost[k])]

(***************************************************************************)
(* What repair_tool_pairs leaves behind the assistant message at i: the    *)
(* results of its run that answer it, then, call by call, the missing      *)
(* ones, each moved up from later in the transcript or made up.            *)
(***************************************************************************)
Answers(ms, i) ==
  LET calls == ms[i].calls
      run == SubSeq(ms, i + 1, RunEnd(ms, i))
      mine == Picked(run, {m \in ToSet(run) : m.id \in ToSet(calls)})
      lost == Picked(calls, {c \in ToSet(calls) : \A m \in ToSet(run) : m.id # c})
      Found(c) ==
        LET later == {k \in (RunEnd(ms, i) + 1)..Len(ms) : IsTool(ms[k]) /\ ms[k].id = c}
        IN IF later = {} THEN Note(c)
           ELSE ms[CHOOSE k \in later : \A l \in later : k <= l]
  IN mine \o [k \in DOMAIN lost |-> Found(lost[k])]

(* Mutant: results that answer nothing stay where they are. *)
RepairKeepingStrays(ms) ==
  FlattenSeq([i \in DOMAIN ms |->
                IF ms[i].role = "asst" /\ ms[i].calls # <<>>
                THEN <<ms[i]>> \o Picked(Answers(ms, i), {m \in ToSet(ms) : m.role = "note"})
                ELSE <<ms[i]>>])

\* Tool messages survive only behind the call they answer.
RepairToolPairs(ms) ==
  FlattenSeq([i \in DOMAIN ms |->
                IF IsTool(ms[i]) THEN <<>>
                ELSE IF ms[i].role = "asst" THEN <<ms[i]>> \o Answers(ms, i)
                ELSE <<ms[i]>>])

\* The start of the trailing run of user messages (Len + 1 when there is none).
TrailingUserRunStart(ms) ==
  CHOOSE s \in 1..(Len(ms) + 1) :
    /\ \A j \in s..Len(ms) : ms[j].role = "user"
    /\ s > 1 => ms[s - 1].role # "user"

(***************************************************************************)
(* How many messages a compaction folds: all but the last Keep, and the    *)
(* tool messages that would then open the tail.                            *)
(***************************************************************************)
CompactionCut(ms, Keep) ==
  CHOOSE cut \in (Len(ms) - Keep)..Len(ms) :
    /\ \A j \in (Len(ms) - Keep + 1)..cut : IsTool(ms[j])
    /\ cut < Len(ms) => ~IsTool(ms[cut + 1])

(***************************************************************************)
(* The session log: messages, and compaction markers with the tail the     *)
(* live chat continued with.  A reload starts at the last marker.          *)
(***************************************************************************)
Marker(tail) == [role |-> "marker", id |-> "none", calls |-> tail]

ApplyCompaction(log) ==
  LET marks == {i \in DOMAIN log : log[i].role = "marker"}
      last == CHOOSE i \in marks : \A j \in marks : j <= i
  IN IF marks = {} THEN log
     ELSE <<Checkpoint>> \o log[last].calls \o SubSeq(log, last + 1, Len(log))

\* What chat_open shows and sends after reading the log.
Reloaded(log) == RepairToolPairs(ApplyCompaction(log))
=============================================================================
